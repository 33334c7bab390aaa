--------------------- MODULE SchedulingStructureProofs ----------------------
(***************************************************************************)
(* The queues, tokens and block tables of the scheduler: an invariant of   *)
(* SchedulingController that needs nothing of the admission controller.    *)
(* Then who is admitted, step by step.                                     *)
(***************************************************************************)
EXTENDS SchedulingController, Queues, TLAPS

\* The least element of a set of numbers is in it and bounds it.
LEMMA MinFacts ==
    ASSUME Laws, NEW S \in SUBSET Nat, S # {}
    PROVE  Min(S) \in S /\ \A y \in S : Min(S) <= y
<1>1. PICK x \in S : \A y \in S : x <= y
    BY DEF Laws, LeastLaw
<1> QED BY <1>1, Zenon DEF Min

LiveStatuses == {"waiting", "loading", "loaded", "running"}

\* Tokens and blocks of each request; who has blocks, and who may load.
RequestOK(s, o, c, t, h, r) ==
    /\ o \in Nat /\ c \in Nat /\ t \in Seq(Block) /\ h \in Nat
    /\ c <= NumPromptTokens[r] + o /\ o < MaxTokens[r] /\ h <= Len(t)
    /\ t # <<>> => s \in LiveStatuses \cup {"aborted"}
    /\ s \in {"loading", "loaded"} \/ (s = "waiting" /\ t # <<>>) => r \in Loading
    /\ s = "aborted" => r \in Loading \cap Abortable

RequestsOK(st, ou, co, ta, ca) ==
    /\ DOMAIN ou = Request /\ DOMAIN co = Request /\ DOMAIN ta = Request /\ DOMAIN ca = Request
    /\ \A r \in Request : RequestOK(st[r], ou[r], co[r], ta[r], ca[r], r)

Structure ==
    /\ QueuesOK(Request, status, running, waiting, skipped_waiting, step_skipped, reservation_deferred)
    /\ RequestsOK(status, output, computed, table, cached)
    /\ pc \in {"idle", "executing"} => step_skipped = <<>> /\ reservation_deferred = <<>>

-----------------------------------------------------------------------------
(* Blocks and queues *)

\* There are finitely many unused blocks, and any number up to theirs can be picked.
LEMMA BlockFacts ==
    ASSUME Laws
    PROVE  /\ IsFiniteSet(Unused) /\ NumFreeBlocks \in Nat
           /\ \A n \in Nat : n <= NumFreeBlocks => \E s \in [1..n -> Unused] : IsInjective(s)
<1>1. Unused \in SUBSET (1..num_blocks) /\ num_blocks \in Nat
    BY ControllerAssumption DEF Unused, Block
<1>2. /\ IsFiniteSet(Unused) /\ Cardinality(Unused) \in 0..num_blocks
      /\ \A n \in Nat : n <= Cardinality(Unused) => \E s \in [1..n -> Unused] : IsInjective(s)
    BY <1>1, Zenon DEF Laws, IntervalLaw
<1>3. Cardinality(Unused) \in Nat
    BY <1>1, <1>2
<1> QED BY <1>2, <1>3 DEF NumFreeBlocks

\* FreshBlocks returns as many free blocks as are asked for.
LEMMA FreshFacts ==
    ASSUME Laws, NEW n \in Nat, n <= NumFreeBlocks
    PROVE  /\ FreshBlocks(n) \in Seq(Block) /\ Len(FreshBlocks(n)) = n
           /\ Range(FreshBlocks(n)) \subseteq Unused /\ IsInjective(FreshBlocks(n))
<1> DEFINE s == FreshBlocks(n)
<1>1. s \in [1..n -> Unused] /\ IsInjective(s) /\ Unused \subseteq Block
    BY BlockFacts DEF FreshBlocks, Unused
<1> HIDE DEF s
<1>2. s \in Seq(Unused) /\ Len(s) = n
    BY <1>1
<1>3. s \in [1..n -> Block]
    BY <1>1
<1>4. s \in Seq(Block)
    BY <1>3
<1> QED BY <1>1, <1>2, <1>4 DEF s, Laws, RangeLaw

\* Blocks of the requests are blocks of the pool.
LEMMA OccupiedFacts ==
    ASSUME Laws, Structure
    PROVE  /\ Occupied \subseteq Block /\ Unused = Block \ Occupied
           /\ \A r \in Request : table[r] \in Seq(Block) /\ Range(table[r]) \subseteq Occupied
<1>1. \A r \in Request : table[r] \in Seq(Block)
    BY DEF Structure, RequestsOK, RequestOK
<1>2. \A r \in Request : Range(table[r]) \subseteq Block
    BY <1>1 DEF Laws, RangeLaw
<1> QED BY <1>1, <1>2 DEF Occupied, Unused

\* What the prefix cache returns is in use and shorter than the prompt.
LEMMA HitFacts ==
    ASSUME Laws, Structure, NEW r \in Request
    PROVE  \A h \in Hits(r) :
              /\ h \in Seq(Block) /\ Range(h) \subseteq Occupied
              /\ Len(h) \in 0..SharedTokens
              /\ computed[r] > 0 => h = <<>>
              /\ Len(h) < NumPromptTokens[r]
<1>0. Occupied \subseteq Block /\ computed[r] \in Nat /\ NumPromptTokens[r] \in Nat \ {0} /\ SharedTokens \in Nat
    BY OccupiedFacts, ControllerAssumption DEF Structure, RequestsOK, RequestOK
<1> DEFINE I == {i \in 1..SharedTokens : r \in Sharing /\ \E q \in Sharing : cached[q] >= i}
<1>1. /\ I \in SUBSET (1..SharedTokens)
      /\ r \in Sharing => SharedTokens < NumPromptTokens[r]
      /\ r \notin Sharing => I = {}
    BY ControllerAssumption
<1> HIDE DEF I
<1>2. Cardinality(I) \in 0..SharedTokens /\ Cardinality(I) < NumPromptTokens[r]
    <2>1. Cardinality(I) \in 0..SharedTokens
        BY <1>0, <1>1, Zenon DEF Laws, IntervalLaw
    <2>2. CASE r \in Sharing
        <3>1. SharedTokens < NumPromptTokens[r]
            BY <2>2, <1>1, Zenon
        <3> QED BY <1>0, <2>1, <3>1
    <2>3. CASE r \notin Sharing
        <3>1. Cardinality(I) = 0
            BY <2>3, <1>1, Zenon DEF Laws, EmptyLaw
        <3> QED BY <1>0, <2>1, <3>1
    <2> QED BY <2>2, <2>3, Zenon
<1>3. HitLength(r) \in 0..SharedTokens /\ HitLength(r) < NumPromptTokens[r]
    BY <1>2 DEF HitLength, I
<1> SUFFICES ASSUME NEW h \in Hits(r)
             PROVE  /\ h \in Seq(Block) /\ Range(h) \subseteq Occupied
                    /\ Len(h) \in 0..SharedTokens
                    /\ computed[r] > 0 => h = <<>>
                    /\ Len(h) < NumPromptTokens[r]
    OBVIOUS
<1>4. CASE computed[r] > 0
    <2>1. h = <<>>
        BY <1>4 DEF Hits
    <2>2. Range(h) = {} /\ Len(h) = 0 /\ h \in Seq(Block)
        BY <2>1 DEF Range
    <2> QED BY <1>0, <2>1, <2>2
<1>5. CASE ~(computed[r] > 0)
    <2>1. h \in [1..HitLength(r) -> Occupied]
        BY <1>5 DEF Hits
    <2>2. h \in Seq(Occupied) /\ Len(h) = HitLength(r)
        BY <1>3, <2>1
    <2>3. Range(h) \subseteq Occupied
        BY <2>2 DEF Laws, RangeLaw
    <2>4. h \in [1..HitLength(r) -> Block]
        BY <1>0, <2>1
    <2>5. h \in Seq(Block)
        BY <1>3, <2>4
    <2> QED BY <1>3, <1>5, <2>2, <2>3, <2>5
<1> QED BY <1>4, <1>5

\* The waiting loop looks at requests of the queue only.
LEMMA ConsideredFacts ==
    ASSUME Laws, Structure, Queue # <<>>
    PROVE  /\ Queue \in Seq(Request)
           /\ Range(Queue) = Range(waiting) \cup Range(skipped_waiting)
           /\ Considered \subseteq Range(Queue)
<1>1. waiting \in Seq(Request) /\ skipped_waiting \in Seq(Request)
    BY DEF Structure, QueuesOK
<1>2. Queue \in Seq(Request) /\ Range(Queue) = Range(waiting) \cup Range(skipped_waiting)
    BY <1>1 DEF Laws, ConcatLaw, Queue
<1> DEFINE S == {Len(Queue)} \cup {i - 1 : i \in {j \in DOMAIN Queue : Queue[j] \notin metadata}}
           n == Min(S)
<1>3. Len(Queue) \in Nat /\ DOMAIN Queue = 1..Len(Queue) /\ Len(Queue) # 0
    BY <1>2
<1>4. S \in SUBSET Nat /\ Len(Queue) \in S
    BY <1>3
<1>5. Considered = {Queue[i] : i \in 1..Larger(1, n)}
    BY DEF Considered
<1> HIDE DEF S
<1>6. n \in Nat /\ n <= Len(Queue)
    BY <1>4, MinFacts, Zenon
<1> HIDE DEF n
<1>7. \A i \in 1..Larger(1, n) : i \in 1..Len(Queue)
    BY <1>3, <1>6 DEF Larger
<1>8. \A i \in 1..Len(Queue) : Queue[i] \in Range(Queue)
    BY <1>2 DEF Laws, RangeLaw
<1> QED BY <1>2, <1>5, <1>7, <1>8

-----------------------------------------------------------------------------
(* Queues, tokens and blocks: each step keeps Structure. *)

\* A request's token counts are naturals in order, and so is its demand for blocks.
LEMMA TokenFacts ==
    ASSUME Laws, Structure, NEW r \in Request
    PROVE  /\ NumPromptTokens[r] \in Nat \ {0} /\ MaxTokens[r] \in Nat \ {0}
           /\ output[r] \in Nat /\ output[r] < MaxTokens[r] /\ NumTokens(r) \in Nat \ {0}
           /\ computed[r] \in Nat /\ computed[r] <= NumTokens(r)
           /\ table[r] \in Seq(Block) /\ Len(table[r]) \in Nat
           /\ NumNewTokens(r, computed[r]) \in 0..(NumTokens(r) - computed[r])
           /\ GrowthDemand(r) \in Nat
           /\ GrowthDemand(r) = AtLeast0(computed[r] + NumNewTokens(r, computed[r]) - Len(table[r]))
<1>1. RequestOK(status[r], output[r], computed[r], table[r], cached[r], r)
    BY DEF Structure, RequestsOK
<1>2. NumPromptTokens[r] \in Nat \ {0} /\ MaxTokens[r] \in Nat \ {0} /\ long_prefill_token_threshold \in Nat \ {0}
    BY ControllerAssumption
<1>3. /\ output[r] \in Nat /\ output[r] < MaxTokens[r] /\ NumTokens(r) \in Nat \ {0}
      /\ computed[r] \in Nat /\ computed[r] <= NumTokens(r) /\ table[r] \in Seq(Block)
    BY <1>1, <1>2 DEF RequestOK, NumTokens
<1>4. Len(table[r]) \in Nat
    BY <1>3
<1>5. NumNewTokens(r, computed[r]) \in 0..(NumTokens(r) - computed[r])
    BY <1>2, <1>3 DEF NumNewTokens, Lesser
<1>6. GrowthDemand(r) \in Nat
    BY <1>3, <1>4, <1>5 DEF GrowthDemand, AtLeast0
<1> QED BY <1>2, <1>3, <1>4, <1>5, <1>6 DEF GrowthDemand

\* The engine starts sound: every queue empty, every block free.
LEMMA StructureInit ==
    ASSUME Laws, Init
    PROVE  Structure
<1>1. QueuesOK(Request, status, running, waiting, skipped_waiting, step_skipped, reservation_deferred)
    BY DEF Laws, EmptyLaw, Init, QueuesOK, Statuses
<1>2. RequestsOK(status, output, computed, table, cached)
    BY ControllerAssumption DEF Init, RequestsOK, RequestOK
<1> QED BY <1>1, <1>2 DEF Init, Structure

\* A request without blocks, finished or back in the queue.
LEMMA EmptyRequest ==
    ASSUME NEW q \in Request, NEW s \in {"waiting", "finished"}, NEW o \in Nat, o < MaxTokens[q]
    PROVE  RequestOK(s, o, 0, <<>>, 0, q)
<1>1. NumPromptTokens[q] \in Nat
    BY ControllerAssumption
<1> QED BY <1>1 DEF RequestOK

\* A request aborted while it loads keeps its blocks.
LEMMA AbortedRequest ==
    ASSUME NEW q \in Loading \cap Abortable, NEW o \in Nat, o < MaxTokens[q], NumPromptTokens[q] \in Nat,
           NEW s, NEW p, NEW c, NEW t, NEW h, RequestOK(s, p, c, t, h, q)
    PROVE  RequestOK("aborted", o, 0, t, h, q)
BY DEF RequestOK

\* A request with more tokens.
LEMMA LongerRequest ==
    ASSUME NEW q \in Request, NEW o \in Nat, o < MaxTokens[q],
           NEW s, NEW p, NEW c, NEW t, NEW h, RequestOK(s, p, c, t, h, q), p <= o
    PROVE  RequestOK(s, o, c, t, h, q)
<1>1. NumPromptTokens[q] \in Nat
    BY ControllerAssumption
<1>2. c <= NumPromptTokens[q] + o
    BY <1>1 DEF RequestOK
<1> QED BY <1>2, Zenon DEF RequestOK

\* Steps that leave requests and queues alone.
LEMMA StructureSame ==
    ASSUME Laws, Structure, UNCHANGED <<request_vars, running, waiting, skipped_waiting, step_skipped, reservation_deferred>>,
           pc' \in {"idle", "executing"} => pc \in {"idle", "executing"}
    PROVE  Structure'
BY DEF Structure, request_vars

\* schedule_running only lengthens the table of its request, with fresh blocks.
LEMMA StructureScheduleRunning ==
    ASSUME Laws, Structure, NEW r \in Range(running), schedule_running(r)
    PROVE  Structure' /\ r \in Request /\ status[r] = "running" /\ GrowthDemand(r) \in Nat
           /\ table'[r] = table[r] \o FreshBlocks(GrowthDemand(r))
           /\ \A q \in Request : q # r => table'[q] = table[q]
<1>1. r \in Request /\ status[r] = "running"
    BY DEF Structure, QueuesOK
<1> DEFINE new == FreshBlocks(GrowthDemand(r))
<1>2. /\ UNCHANGED <<status, output, computed, running, waiting, skipped_waiting, step_skipped, reservation_deferred>>
      /\ table' = [table EXCEPT ![r] = @ \o new]
      /\ cached' = [cached EXCEPT ![r] = Len(table'[r])]
      /\ pc' = RunningLoop(index', running, preempted)
      /\ GrowthDemand(r) <= NumFreeBlocks
    BY DEF schedule_running, queue_vars
<1>3. GrowthDemand(r) \in Nat /\ table[r] \in Seq(Block)
    BY <1>1, TokenFacts
<1>4. new \in Seq(Block)
    BY <1>2, <1>3, FreshFacts
<1> HIDE DEF new
<1>5. /\ \A q \in Request : RequestOK(status[q], output[q], computed[q], table[q], cached[q], q)
      /\ DOMAIN output = Request /\ DOMAIN computed = Request /\ DOMAIN table = Request /\ DOMAIN cached = Request
    BY DEF Structure, RequestsOK
<1>6. /\ DOMAIN table' = Request /\ DOMAIN cached' = Request
      /\ table'[r] = table[r] \o new /\ cached'[r] = Len(table'[r])
      /\ \A q \in Request : q # r => table'[q] = table[q] /\ cached'[q] = cached[q]
    BY <1>1, <1>2, <1>5
<1>7. table'[r] \in Seq(Block) /\ Len(table'[r]) \in Nat
    BY <1>3, <1>4, <1>6
<1>8. RequestOK(status[r], output[r], computed[r], table'[r], cached'[r], r)
    BY <1>1, <1>5, <1>6, <1>7 DEF RequestOK, LiveStatuses
<1>9. \A q \in Request : RequestOK(status'[q], output'[q], computed'[q], table'[q], cached'[q], q)
    BY <1>2, <1>5, <1>6, <1>8
<1>10. RequestsOK(status', output', computed', table', cached')
    BY <1>2, <1>5, <1>6, <1>9 DEF RequestsOK
<1>11. pc' \notin {"idle", "executing"}
    BY <1>2 DEF RunningLoop
<1>12. QueuesOK(Request, status', running', waiting', skipped_waiting', step_skipped', reservation_deferred')
    BY <1>2 DEF Structure
<1>13. Structure'
    BY <1>10, <1>11, <1>12 DEF Structure
<1> QED BY <1>1, <1>3, <1>6, <1>13 DEF new

\* A preempted request leaves the running list for the head of the waiting queue, without blocks.
LEMMA StructurePreempt ==
    ASSUME Laws, Structure, NEW r \in Range(running), NEW v \in Range(running), _preempt_request(r, v)
    PROVE  Structure' /\ v \in Request /\ status[v] = "running"
           /\ \A q \in Request : table'[q] = IF q = v THEN <<>> ELSE table[q]
<1>1. v \in Request /\ status[v] = "running"
    BY DEF Structure, QueuesOK
<1>2. /\ running' = Without(running, {v}) /\ waiting' = <<v>> \o waiting
      /\ status' = [status EXCEPT ![v] = "waiting"] /\ computed' = [computed EXCEPT ![v] = 0]
      /\ table' = [table EXCEPT ![v] = <<>>] /\ cached' = [cached EXCEPT ![v] = 0]
      /\ UNCHANGED <<output, skipped_waiting, step_skipped, reservation_deferred>>
      /\ pc' \in {"ending", "allocating"}
    BY DEF _preempt_request
<1>3. QueuesOK(Request, status', running', waiting', skipped_waiting', step_skipped', reservation_deferred')
    BY <1>2, Zenon DEF Laws, PreemptedLaw, Structure
<1>5. /\ \A q \in Request : RequestOK(status[q], output[q], computed[q], table[q], cached[q], q)
      /\ DOMAIN output = Request /\ DOMAIN computed = Request /\ DOMAIN table = Request /\ DOMAIN cached = Request
      /\ DOMAIN status = Request
    BY DEF Structure, RequestsOK, QueuesOK
<1>6. \A q \in Request : /\ status'[q] = IF q = v THEN "waiting" ELSE status[q]
                         /\ computed'[q] = IF q = v THEN 0 ELSE computed[q]
                         /\ table'[q] = IF q = v THEN <<>> ELSE table[q]
                         /\ cached'[q] = IF q = v THEN 0 ELSE cached[q]
    BY <1>2, <1>5
<1>7. RequestOK("waiting", output[v], 0, <<>>, 0, v)
    BY <1>1, <1>5, ControllerAssumption DEF RequestOK
<1>8. \A q \in Request : RequestOK(status'[q], output'[q], computed'[q], table'[q], cached'[q], q)
    BY <1>2, <1>5, <1>6, <1>7
<1>9. RequestsOK(status', output', computed', table', cached')
    BY <1>2, <1>5, <1>8 DEF RequestsOK
<1>10. Structure'
    BY <1>2, <1>3, <1>9 DEF Structure
<1> QED BY <1>1, <1>6, <1>10

\* A request the waiting loop looks at.
LEMMA CandidateFacts ==
    ASSUME Laws, Structure, Queue # <<>>, NEW r \in Considered
    PROVE  /\ r \in Range(waiting) \cup Range(skipped_waiting) /\ r \in Request
           /\ status[r] \in {"waiting", "loading", "loaded"}
<1>1. r \in Range(waiting) \cup Range(skipped_waiting)
    BY ConsideredFacts
<1>2. Range(waiting) \cup Range(skipped_waiting) \cup Range(step_skipped)
         = {q \in Request : status[q] \in {"waiting", "loading", "loaded"}}
    BY DEF Structure, QueuesOK
<1> QED BY <1>1, <1>2

\* promote_blocked makes a loaded request waiting again, or only moves it between queues.
LEMMA StructurePromote ==
    ASSUME Laws, Structure, promote_blocked
    PROVE  /\ Structure' /\ table' = table
           /\ \E r \in Request : /\ status[r] \in {"loading", "loaded"}
                                 /\ \/ status' = [status EXCEPT ![r] = "waiting"] /\ status[r] = "loaded"
                                    \/ status' = status
<1> DEFINE r == Only(Queue, Blocked)[1]
<1>1. /\ Queue # <<>> /\ Blocked # {}
      /\ UNCHANGED <<output, table, running, reservation_deferred, pc>> /\ pc = "waiting"
    BY DEF promote_blocked, WaitingLoop
<1>2. r \in Blocked
    <2>1. Queue \in Seq(Request) /\ Considered \subseteq Range(Queue)
        BY <1>1, ConsideredFacts
    <2>2. Blocked \subseteq Range(Queue)
        BY <2>1 DEF Blocked
    <2>3. Only(Queue, Blocked) \in Seq(Request) /\ Range(Only(Queue, Blocked)) = Blocked
        <3>1. /\ Only(Queue, Blocked) \in Seq(Request)
              /\ Range(Only(Queue, Blocked)) = Range(Queue) \cap Blocked
            BY <2>1 DEF Laws, OnlyLaw
        <3> QED BY <2>2, <3>1
    <2> DEFINE o == Only(Queue, Blocked)
    <2> HIDE DEF o
    <2>4. o \in Seq(Request) /\ Range(o) = Blocked
        BY <2>3 DEF o
    <2>5. Len(o) \in Nat /\ Len(o) # 0
        BY <1>1, <2>4 DEF Laws, RangeLaw
    <2>6. o[1] \in Range(o)
        BY <2>4, <2>5 DEF Laws, RangeLaw
    <2> QED BY <2>4, <2>6 DEF o
<1>3. r \in Considered /\ status[r] \in {"loading", "loaded"}
    BY <1>2 DEF Blocked
<1>4. IF status[r] = "loaded"
      THEN /\ status' = [status EXCEPT ![r] = "waiting"]
           /\ cached' = [cached EXCEPT ![r] = Len(table[r])]
           /\ computed' = [computed EXCEPT ![r] = Lesser(@, NumTokens(r) - 1)]
           /\ UNCHANGED <<step_skipped, waiting, skipped_waiting>>
      ELSE /\ Dequeued(r)
           /\ step_skipped' = Append(step_skipped, r)
           /\ UNCHANGED <<status, cached, computed>>
    BY DEF promote_blocked
<1> HIDE DEF r
<1>5. r \in Range(waiting) \cup Range(skipped_waiting) /\ r \in Request
    BY <1>1, <1>3, CandidateFacts
<1>6. /\ \A q \in Request : RequestOK(status[q], output[q], computed[q], table[q], cached[q], q)
      /\ DOMAIN output = Request /\ DOMAIN computed = Request /\ DOMAIN table = Request /\ DOMAIN cached = Request
      /\ status \in [Request -> Statuses]
      /\ QueuesOK(Request, status, running, waiting, skipped_waiting, step_skipped, reservation_deferred)
    BY DEF Structure, RequestsOK, QueuesOK
<1>7. CASE status[r] = "loaded"
    <2>1. QueuesOK(Request, status', running', waiting', skipped_waiting', step_skipped', reservation_deferred')
        <3>1. QueuesOK(Request, [status EXCEPT ![r] = "waiting"], running, waiting, skipped_waiting, step_skipped,
                       reservation_deferred)
            BY <1>3, <1>5, <1>6, Zenon DEF Laws, RelabelledLaw
        <3> QED BY <1>1, <1>4, <1>7, <3>1, Zenon
    <2>2. \A q \in Request : /\ status'[q] = IF q = r THEN "waiting" ELSE status[q]
                             /\ cached'[q] = IF q = r THEN Len(table[r]) ELSE cached[q]
                             /\ computed'[q] = IF q = r THEN Lesser(computed[r], NumTokens(r) - 1) ELSE computed[q]
        BY <1>4, <1>5, <1>6, <1>7, Zenon
    <2>3. NumTokens(r) \in Nat \ {0} /\ computed[r] \in Nat /\ Len(table[r]) \in Nat
        BY <1>5, TokenFacts
    <2>4. Lesser(computed[r], NumTokens(r) - 1) \in Nat /\ Lesser(computed[r], NumTokens(r) - 1) <= computed[r]
        BY <2>3 DEF Lesser
    <2>5. RequestOK("waiting", output[r], Lesser(computed[r], NumTokens(r) - 1), table[r], Len(table[r]), r)
        <3>1. RequestOK("loaded", output[r], computed[r], table[r], cached[r], r)
            BY <1>5, <1>6, <1>7
        <3> DEFINE x == Lesser(computed[r], NumTokens(r) - 1)  y == Len(table[r])
        <3>2. x \in Nat /\ x <= computed[r] /\ y \in Nat
            BY <2>3, <2>4, Zenon
        <3> HIDE DEF x, y
        <3>3. computed[r] \in Nat /\ output[r] \in Nat /\ NumPromptTokens[r] \in Nat
              /\ computed[r] <= NumPromptTokens[r] + output[r]
            <4>1. NumPromptTokens[r] \in Nat
                BY <1>5, ControllerAssumption
            <4> QED BY <3>1, <4>1, Zenon DEF RequestOK
        <3>4. x <= NumPromptTokens[r] + output[r] /\ y <= y
            BY <3>2, <3>3
        <3>5. RequestOK("waiting", output[r], x, table[r], y, r)
            BY <3>1, <3>2, <3>4, Zenon DEF RequestOK, LiveStatuses, y
        <3> QED BY <3>5, Zenon DEF x, y
    <2>6. \A q \in Request : RequestOK(status'[q], output'[q], computed'[q], table'[q], cached'[q], q)
        BY <1>1, <1>6, <2>2, <2>5
    <2>7. DOMAIN computed' = Request /\ DOMAIN cached' = Request
        BY <1>4, <1>6, <1>7, Zenon
    <2>8. RequestsOK(status', output', computed', table', cached')
        BY <1>1, <1>6, <2>6, <2>7, Zenon DEF RequestsOK
    <2>9. Structure'
        BY <1>1, <2>1, <2>8 DEF Structure
    <2> QED BY <1>1, <1>3, <1>4, <1>5, <1>7, <2>9
<1>8. CASE status[r] # "loaded"
    <2>1. QueuesOK(Request, status', running', waiting', skipped_waiting', step_skipped', reservation_deferred')
        <3>1. status[r] \in {"waiting", "loading", "loaded"}
            BY <1>3
        <3>2. QueuesOK(Request, status, running, Without(waiting, {r}), Without(skipped_waiting, {r}),
                       Append(step_skipped, r), reservation_deferred)
            BY <1>5, <1>6, <3>1, Zenon DEF Laws, SkippedLaw
        <3> QED BY <1>1, <1>4, <1>8, <3>2, Zenon DEF Dequeued
    <2>2. RequestsOK(status', output', computed', table', cached')
        BY <1>1, <1>4, <1>8 DEF Structure
    <2>3. Structure'
        BY <1>1, <2>1, <2>2 DEF Structure
    <2> QED BY <1>1, <1>3, <1>4, <1>5, <1>8, <2>3
<1> QED BY <1>7, <1>8

\* A deferred request keeps its place in exactly one queue.
LEMMA StructureDefer ==
    ASSUME Laws, Structure, NEW r \in Request, defer(r)
    PROVE  Structure'
<1>1. /\ pc = "waiting" /\ UNCHANGED <<request_vars, running, pc>>
      /\ Queue # <<>> /\ r \in Considered
      /\ Dequeued(r) /\ step_skipped' = Append(step_skipped, r)
      /\ reservation_deferred' \in {reservation_deferred, Append(reservation_deferred, r)}
    BY DEF defer, Candidate, WaitingLoop
<1>2. r \in Range(waiting) \cup Range(skipped_waiting) /\ status[r] \in {"waiting", "loading", "loaded"}
    BY <1>1, CandidateFacts
<1>3. /\ status \in [Request -> Statuses]
      /\ QueuesOK(Request, status, running, waiting, skipped_waiting, step_skipped, reservation_deferred)
    BY DEF Structure, QueuesOK
<1>4. QueuesOK(Request, status, running, waiting', skipped_waiting', step_skipped', reservation_deferred')
    BY <1>1, <1>2, <1>3, ZenonT(40) DEF Laws, SkippedLaw, Dequeued
<1> QED BY <1>1, <1>4 DEF Structure, request_vars

\* What is left of d + a tokens is at most what is left of n.
LEMMA Left ==
    \A d, a, l, h, n \in Int : d + a <= n =>
        d + a - l - h \in Int /\ n - l - h \in Int /\ d + a - l - h <= n - l - h
OBVIOUS

\* Request r is granted the blocks hits and new, for external hits of this length.
Granted(r, hits, external, new) ==
    /\ r \in Range(waiting) \cup Range(skipped_waiting) /\ status[r] = "waiting"
    /\ hits \in Seq(Block) /\ Range(hits) \subseteq Occupied
    /\ external \in Nat /\ (external > 0 => r \in Loading)
    /\ computed[r] + Len(hits) + external <= NumTokens(r)
    /\ new \in Seq(Block) /\ Range(new) \subseteq Unused /\ IsInjective(new)
    /\ Len(new) = StepDemand(r, hits, external)
    /\ Len(new) <= AtLeast0(NumTokens(r) - Len(table[r]) - Len(hits))
    /\ can_allocate(r, Demand(r, hits, external))
    /\ pc = "waiting"

\* schedule_waiting fails its assertion.
Crashes(r, blocks) ==
    /\ Managed /\ r \notin Admitted
    /\ ~Affordable(r, Cardinality(Range(blocks) \ DOMAIN charges), borrow_reserved)
    /\ pc' = "crashed"
    /\ UNCHANGED <<mode, request_vars, queue_vars, loop_vars, account_vars, plan_vars, history>>

\* schedule_waiting admits r with these blocks, of which the cache knows some.
Starts(r, blocks, hits, external) ==
    /\ UNCHANGED <<mode, output, finished_req_ids, plan_vars>>
    /\ table' = [table EXCEPT ![r] = blocks]
    /\ commit(r, blocks, borrow_reserved)
    /\ Dequeued(r)
    /\ computed' = [computed EXCEPT ![r] = @ + Len(hits) + external]
    /\ IF external > 0
       THEN /\ status' = [status EXCEPT ![r] = "loading"]
            /\ cached' = [cached EXCEPT ![r] = Len(hits)]
            /\ step_skipped' = Append(step_skipped, r)
            /\ UNCHANGED <<running, scheduled>>
       ELSE /\ status' = [status EXCEPT ![r] = "running"]
            /\ cached' = [cached EXCEPT ![r] = Len(blocks)]
            /\ running' = Append(running, r)
            /\ scheduled' = scheduled \cup {r}
            /\ UNCHANGED step_skipped
    /\ UNCHANGED <<pc, index, reservation_deferred, borrow_reserved, preempted>>

\* schedule_waiting grants hits and fresh blocks, then crashes or starts the request.
LEMMA ScheduleWaitingFacts ==
    ASSUME Laws, Structure, NEW r \in Request, schedule_waiting(r)
    PROVE  \E hits, external, new :
              /\ Granted(r, hits, external, new)
              /\ Crashes(r, table[r] \o hits \o new) \/ Starts(r, table[r] \o hits \o new, hits, external)
<1>1. /\ pc = "waiting" /\ Queue # <<>> /\ Blocked = {} /\ r \in Considered
    BY DEF schedule_waiting, Candidate, WaitingLoop
<1>2. PICK hits \in Hits(r) : \E external \in External(r, hits) :
         LET new == FreshBlocks(StepDemand(r, hits, external))
             blocks == table[r] \o hits \o new
         IN  /\ can_allocate(r, Demand(r, hits, external)) /\ Fits(r, hits, external)
             /\ Crashes(r, blocks) \/ Starts(r, blocks, hits, external)
    BY Zenon DEF schedule_waiting, Crashes, Starts
<1>3. PICK external \in External(r, hits) :
         LET new == FreshBlocks(StepDemand(r, hits, external))
             blocks == table[r] \o hits \o new
         IN  /\ can_allocate(r, Demand(r, hits, external)) /\ Fits(r, hits, external)
             /\ Crashes(r, blocks) \/ Starts(r, blocks, hits, external)
    BY <1>2
<1> DEFINE new == FreshBlocks(StepDemand(r, hits, external))
<1>4. /\ can_allocate(r, Demand(r, hits, external)) /\ Fits(r, hits, external)
      /\ Crashes(r, table[r] \o hits \o new) \/ Starts(r, table[r] \o hits \o new, hits, external)
    BY <1>3
<1>5. /\ hits \in Seq(Block) /\ Range(hits) \subseteq Occupied /\ Len(hits) \in Nat
      /\ computed[r] > 0 => Len(hits) = 0
      /\ Len(hits) < NumPromptTokens[r]
    <2>1. /\ hits \in Seq(Block) /\ Range(hits) \subseteq Occupied
          /\ computed[r] > 0 => hits = <<>>
          /\ Len(hits) < NumPromptTokens[r]
        BY HitFacts, Zenon
    <2>2. Len(hits) \in Nat /\ Len(<<>>) = 0
        BY <2>1
    <2> QED BY <2>1, <2>2, Zenon
<1>6. /\ NumPromptTokens[r] \in Nat \ {0} /\ output[r] \in Nat /\ NumTokens(r) = NumPromptTokens[r] + output[r]
      /\ computed[r] \in Nat /\ computed[r] <= NumTokens(r)
      /\ table[r] \in Seq(Block) /\ Len(table[r]) \in Nat
    BY TokenFacts DEF NumTokens
<1>7. /\ external \in Nat /\ (external > 0 => r \in Loading)
      /\ computed[r] + Len(hits) + external <= NumTokens(r)
    <2>1. CASE external = 0
        BY <1>5, <1>6, <2>1, SMTT(30)
    <2>2. CASE external # 0
        <3>1. r \in Loading /\ computed[r] = 0 /\ external = NumPromptTokens[r] - Len(hits)
            BY <2>2 DEF External
        <3> QED BY <1>5, <1>6, <3>1
    <2> QED BY <2>1, <2>2
<1> DEFINE done == computed[r] + Len(hits) + external
           add == IF external > 0 THEN 0 ELSE NumNewTokens(r, done)
<1>8. done \in Nat /\ add \in Nat /\ done + add <= NumTokens(r)
    <2>1. done \in Nat /\ done <= NumTokens(r)
        BY <1>5, <1>6, <1>7, SMTT(30)
    <2> HIDE DEF done
    <2>2. long_prefill_token_threshold \in Nat \ {0}
        BY ControllerAssumption
    <2> QED BY <1>6, <2>1, <2>2 DEF NumNewTokens, Lesser
<1>9. StepDemand(r, hits, external) = AtLeast0(done + add - Len(table[r]) - Len(hits))
    BY DEF StepDemand
<1> HIDE DEF done, add
<1>10. /\ StepDemand(r, hits, external) \in Nat
       /\ AtLeast0(NumTokens(r) - Len(table[r]) - Len(hits)) \in Nat
       /\ StepDemand(r, hits, external) <= AtLeast0(NumTokens(r) - Len(table[r]) - Len(hits))
    <2> DEFINE a == done + add - Len(table[r]) - Len(hits)
               b == NumTokens(r) - Len(table[r]) - Len(hits)
    <2>1. a \in Int /\ b \in Int /\ a <= b
        <3>1. done \in Int /\ add \in Int /\ Len(table[r]) \in Int /\ Len(hits) \in Int /\ NumTokens(r) \in Int
            BY <1>5, <1>6, <1>8, SMTT(30)
        <3> QED BY <1>8, <3>1, Left, Zenon
    <2>2. StepDemand(r, hits, external) = AtLeast0(a)
        BY <1>9
    <2> HIDE DEF a, b
    <2>3. /\ StepDemand(r, hits, external) \in Nat /\ StepDemand(r, hits, external) <= AtLeast0(b)
          /\ AtLeast0(b) \in Nat
        BY <2>1, <2>2 DEF AtLeast0
    <2> QED BY <2>3, Zenon DEF b
<1>11. StepDemand(r, hits, external) <= NumFreeBlocks
    <2> DEFINE b == AtLeast0(NumTokens(r) - Len(table[r]) - Len(hits))
    <2>1. NumFreeBlocks \in Nat
        BY BlockFacts, Zenon
    <2>2. Larger(StepDemand(r, hits, external), b) <= NumFreeBlocks
        BY <1>4, Zenon DEF Fits
    <2>3. b \in Nat
        BY <1>10, Zenon
    <2> HIDE DEF b
    <2> QED BY <1>10, <2>1, <2>2, <2>3 DEF Larger
<1>12. /\ new \in Seq(Block) /\ Range(new) \subseteq Unused /\ IsInjective(new)
       /\ Len(new) = StepDemand(r, hits, external)
    BY <1>10, <1>11, FreshFacts
<1>13. r \in Range(waiting) \cup Range(skipped_waiting) /\ status[r] = "waiting"
    <2>1. r \in Range(waiting) \cup Range(skipped_waiting) /\ status[r] \in {"waiting", "loading", "loaded"}
        BY <1>1, CandidateFacts
    <2> QED BY <1>1, <2>1 DEF Blocked
<1> HIDE DEF new
<1>14. Granted(r, hits, external, new)
    BY <1>1, <1>4, <1>5, <1>7, <1>10, <1>12, <1>13, Zenon DEF Granted
<1> QED BY <1>4, <1>14

\* The sums a started request's counts are made of.
LEMMA StartArithmetic ==
    ASSUME NEW c \in Nat, NEW h \in Nat, NEW e \in Nat, NEW l \in Nat, NEW n \in Nat
    PROVE  c + h + e \in Nat /\ l + h + n \in Nat /\ h <= l + h + n /\ l + h + n <= l + h + n
OBVIOUS

\* A granted request starts running, or loading, on disjoint blocks.
LEMMA StructureStarts ==
    ASSUME Laws, Structure, NEW r \in Request, NEW hits, NEW external, NEW new,
           Granted(r, hits, external, new), Starts(r, table[r] \o hits \o new, hits, external)
    PROVE  Structure'
<1> DEFINE blocks == table[r] \o hits \o new
<1>1. /\ UNCHANGED <<output, pc, reservation_deferred>> /\ pc = "waiting"
      /\ table' = [table EXCEPT ![r] = blocks]
      /\ waiting' = Without(waiting, {r}) /\ skipped_waiting' = Without(skipped_waiting, {r})
      /\ computed' = [computed EXCEPT ![r] = @ + Len(hits) + external]
    BY DEF Starts, Granted, Dequeued
<1>2. IF external > 0
       THEN /\ status' = [status EXCEPT ![r] = "loading"]
            /\ cached' = [cached EXCEPT ![r] = Len(hits)]
            /\ step_skipped' = Append(step_skipped, r)
            /\ UNCHANGED running
       ELSE /\ status' = [status EXCEPT ![r] = "running"]
            /\ cached' = [cached EXCEPT ![r] = Len(blocks)]
            /\ running' = Append(running, r)
            /\ UNCHANGED step_skipped
    BY DEF Starts
<1>3. /\ hits \in Seq(Block) /\ new \in Seq(Block) /\ external \in Nat /\ (external > 0 => r \in Loading)
      /\ computed[r] + Len(hits) + external <= NumTokens(r)
      /\ r \in Range(waiting) \cup Range(skipped_waiting)
    BY DEF Granted
<1>4. /\ table[r] \in Seq(Block) /\ Len(table[r]) \in Nat /\ computed[r] \in Nat /\ output[r] \in Nat
      /\ output[r] < MaxTokens[r] /\ NumTokens(r) = NumPromptTokens[r] + output[r]
    BY TokenFacts, Zenon DEF NumTokens
<1>5. blocks \in Seq(Block) /\ Len(blocks) = Len(table[r]) + Len(hits) + Len(new) /\ Len(hits) \in Nat /\ Len(new) \in Nat
    <2>1. table[r] \o hits \in Seq(Block) /\ Len(table[r] \o hits) = Len(table[r]) + Len(hits)
        BY <1>3, <1>4, Zenon DEF Laws, ConcatLaw
    <2>2. blocks \in Seq(Block) /\ Len(blocks) = Len(table[r] \o hits) + Len(new)
        BY <1>3, <2>1, Zenon DEF Laws, ConcatLaw
    <2>3. Len(hits) \in Nat /\ Len(new) \in Nat
        BY <1>3, Zenon DEF Laws, RangeLaw
    <2> QED BY <2>1, <2>2, <2>3, Zenon
<1>6. /\ \A q \in Request : RequestOK(status[q], output[q], computed[q], table[q], cached[q], q)
      /\ DOMAIN output = Request /\ DOMAIN computed = Request /\ DOMAIN table = Request /\ DOMAIN cached = Request
      /\ status \in [Request -> Statuses]
      /\ QueuesOK(Request, status, running, waiting, skipped_waiting, step_skipped, reservation_deferred)
    BY Zenon DEF Structure, RequestsOK, QueuesOK
<1> DEFINE s == IF external > 0 THEN "loading" ELSE "running"
           known == IF external > 0 THEN Len(hits) ELSE Len(blocks)
           total == computed[r] + Len(hits) + external
<1>7. RequestOK(s, output[r], total, blocks, known, r)
    <2> DEFINE n == Len(table[r]) + Len(hits) + Len(new)
    <2>1. total \in Nat /\ n \in Nat /\ Len(hits) <= n /\ n <= n
        BY <1>3, <1>4, <1>5, StartArithmetic, Zenon
    <2>2. total <= NumPromptTokens[r] + output[r]
        BY <1>3, <1>4, Zenon
    <2>3. known \in Nat /\ known <= Len(blocks)
        <3> HIDE DEF blocks
        <3> QED BY <1>5, <2>1, Zenon
    <2> HIDE DEF blocks, total, known
    <2> QED BY <1>3, <1>4, <1>5, <2>1, <2>2, <2>3, Zenon DEF RequestOK, LiveStatuses
<1>8. /\ DOMAIN computed' = Request /\ DOMAIN table' = Request /\ DOMAIN cached' = Request
      /\ \A q \in Request : /\ status'[q] = IF q = r THEN s ELSE status[q]
                            /\ computed'[q] = IF q = r THEN total ELSE computed[q]
                            /\ table'[q] = IF q = r THEN blocks ELSE table[q]
                            /\ cached'[q] = IF q = r THEN known ELSE cached[q]
    <2> HIDE DEF blocks
    <2>1. DOMAIN status = Request
        BY <1>6, Zenon
    <2>2. /\ DOMAIN computed' = Request /\ DOMAIN table' = Request
          /\ \A q \in Request : /\ computed'[q] = IF q = r THEN total ELSE computed[q]
                                /\ table'[q] = IF q = r THEN blocks ELSE table[q]
        BY <1>1, <1>6, Zenon
    <2>3. /\ DOMAIN cached' = Request
          /\ \A q \in Request : /\ status'[q] = IF q = r THEN s ELSE status[q]
                                /\ cached'[q] = IF q = r THEN known ELSE cached[q]
        BY <1>2, <1>6, <2>1, Zenon
    <2> QED BY <2>2, <2>3, Zenon
<1> HIDE DEF blocks, s, known, total
<1>9. \A q \in Request : RequestOK(status'[q], output'[q], computed'[q], table'[q], cached'[q], q)
    BY <1>1, <1>6, <1>7, <1>8, Zenon
<1>10. RequestsOK(status', output', computed', table', cached')
    BY <1>1, <1>6, <1>8, <1>9, Zenon DEF RequestsOK
<1>11. QueuesOK(Request, status', running', waiting', skipped_waiting', step_skipped', reservation_deferred')
    <2>1. CASE external > 0
        <3> DEFINE st2 == [status EXCEPT ![r] = "loading"]
        <3>1. st2 \in [Request -> Statuses] /\ st2[r] = "loading" /\ \A q \in Request : q # r => st2[q] = status[q]
            BY <1>6, Zenon DEF Statuses
        <3>2. status' = st2
            BY <1>2, <2>1
        <3> HIDE DEF st2
        <3>3. st2[r] \in {"waiting", "loading", "loaded"}
            BY <3>1
        <3>4. QueuesOK(Request, st2, running, Without(waiting, {r}), Without(skipped_waiting, {r}),
                       Append(step_skipped, r), reservation_deferred)
            BY <1>3, <1>6, <3>1, <3>3, Zenon DEF Laws, SkippedLaw
        <3> QED BY <1>1, <1>2, <2>1, <3>2, <3>4, Zenon
    <2>2. CASE ~(external > 0)
        <3>1. QueuesOK(Request, [status EXCEPT ![r] = "running"], Append(running, r), Without(waiting, {r}),
                       Without(skipped_waiting, {r}), step_skipped, reservation_deferred)
            BY <1>3, <1>6, Zenon DEF Laws, StartedLaw
        <3> QED BY <1>1, <1>2, <2>2, <3>1, Zenon
    <2> QED BY <2>1, <2>2
<1> QED BY <1>1, <1>10, <1>11 DEF Structure

\* The second turn over the skipped queue, and the end of the step, lose no request.
LEMMA StructureTurns ==
    ASSUME Laws, Structure, second_turn \/ end_step
    PROVE  Structure'
<1>0. QueuesOK(Request, status, running, waiting, skipped_waiting, step_skipped, reservation_deferred)
    BY DEF Structure
<1>1. CASE second_turn
    <2>1. /\ UNCHANGED <<request_vars, running, skipped_waiting, pc>> /\ pc = "waiting" /\ Queue = <<>>
          /\ waiting' = reservation_deferred
          /\ step_skipped' = Without(step_skipped, Range(reservation_deferred))
          /\ reservation_deferred' = <<>>
        BY <1>1 DEF second_turn, WaitingLoop
    <2>2. Range(waiting) = {}
        <3>1. waiting \in Seq(Request) /\ skipped_waiting \in Seq(Request)
            BY <1>0 DEF QueuesOK
        <3>2. Range(Queue) = Range(skipped_waiting) \cup Range(waiting)
            BY <3>1 DEF Laws, ConcatLaw, Queue
        <3> QED BY <2>1, <3>2 DEF Laws, EmptyLaw
    <2>3. QueuesOK(Request, status, running, reservation_deferred, skipped_waiting,
                   Without(step_skipped, Range(reservation_deferred)), <<>>)
        BY <1>0, <2>2 DEF Laws, TurnedLaw
    <2>4. QueuesOK(Request, status', running', waiting', skipped_waiting', step_skipped', reservation_deferred')
        BY <2>1, <2>3 DEF request_vars
    <2> QED BY <2>1, <2>4 DEF Structure, request_vars
<1>2. CASE end_step
    <2>1. /\ UNCHANGED <<status, output, table, cached, running, waiting>>
          /\ skipped_waiting' = step_skipped \o skipped_waiting
          /\ computed' = [r \in Request |-> IF r \in scheduled THEN computed[r] + NumNewTokens(r, computed[r])
                                            ELSE computed[r]]
          /\ step_skipped' = <<>> /\ reservation_deferred' = <<>>
        BY <1>2 DEF end_step
    <2>2. QueuesOK(Request, status, running, waiting, step_skipped \o skipped_waiting, <<>>, <<>>)
        BY <1>0 DEF Laws, TurnedLaw
    <2>3. QueuesOK(Request, status', running', waiting', skipped_waiting', step_skipped', reservation_deferred')
        BY <2>1, <2>2
    <2>4. ASSUME NEW r \in Request PROVE RequestOK(status[r], output[r], computed'[r], table[r], cached[r], r)
        <3>1. RequestOK(status[r], output[r], computed[r], table[r], cached[r], r)
            BY Zenon DEF Structure, RequestsOK
        <3>2. /\ NumTokens(r) \in Nat /\ computed[r] \in Nat /\ computed[r] <= NumTokens(r)
              /\ NumNewTokens(r, computed[r]) \in 0..(NumTokens(r) - computed[r])
            BY TokenFacts, Zenon
        <3>3. computed'[r] \in {computed[r], computed[r] + NumNewTokens(r, computed[r])}
            BY <2>1
        <3>4. computed'[r] \in Nat /\ computed'[r] <= NumTokens(r)
            BY <3>2, <3>3
        <3> QED BY <3>1, <3>4, Zenon DEF RequestOK, NumTokens
    <2>5. RequestsOK(status', output', computed', table', cached')
        BY <2>1, <2>4, Zenon DEF RequestsOK, Structure
    <2> QED BY <2>1, <2>3, <2>5 DEF Structure
<1> QED BY <1>1, <1>2

\* A request that arrives joins exactly one queue and holds nothing.
LEMMA StructureAdd ==
    ASSUME Laws, Structure, NEW r \in Request, add_request(r)
    PROVE  Structure'
<1>1. /\ status[r] = "new" /\ status' = [status EXCEPT ![r] = "waiting"] /\ waiting' = Append(waiting, r)
      /\ UNCHANGED <<output, computed, table, cached, running, skipped_waiting, step_skipped, reservation_deferred, pc>>
    BY DEF add_request, loop_vars
<1>2. QueuesOK(Request, status, running, waiting, skipped_waiting, step_skipped, reservation_deferred)
    BY DEF Structure
<1>3. QueuesOK(Request, [status EXCEPT ![r] = "waiting"], running, Append(waiting, r), skipped_waiting, step_skipped,
               reservation_deferred)
    BY <1>1, <1>2, Zenon DEF Laws, AddedLaw
<1>4. QueuesOK(Request, status', running', waiting', skipped_waiting', step_skipped', reservation_deferred')
    BY <1>1, <1>3
<1>5. \A q \in Request : RequestOK(status[q], output[q], computed[q], table[q], cached[q], q)
    BY Zenon DEF Structure, RequestsOK
<1>6. table[r] = <<>>
    BY <1>1, <1>5, Zenon DEF RequestOK, LiveStatuses
<1>7. RequestOK("waiting", output[r], computed[r], table[r], cached[r], r)
    BY <1>5, <1>6 DEF RequestOK
<1>8. \A q \in Request : status'[q] = IF q = r THEN "waiting" ELSE status[q]
    BY <1>1, <1>2 DEF QueuesOK
<1>9. \A q \in Request : RequestOK(status'[q], output[q], computed[q], table[q], cached[q], q)
    BY <1>5, <1>7, <1>8
<1>10. RequestsOK(status', output', computed', table', cached')
    BY <1>1, <1>9 DEF RequestsOK, Structure
<1> QED BY <1>1, <1>4, <1>10 DEF Structure

\* Requests that are over leave the queues and give their blocks back.
LEMMA StructureFree ==
    ASSUME Laws, Structure, NEW F, NEW Kept, _free_requests(F, Kept), pc \in {"idle", "executing"},
           UNCHANGED <<step_skipped, reservation_deferred>>,
           DOMAIN output' = Request,
           \A q \in Request : /\ output'[q] \in Nat /\ output'[q] < MaxTokens[q]
                              /\ q \notin F => output[q] <= output'[q]
                              /\ q \in F \cap Kept => q \in Loading \cap Abortable
    PROVE  Structure'
<1>1. /\ running' = Without(running, F) /\ waiting' = Without(waiting, F)
      /\ skipped_waiting' = Without(skipped_waiting, F)
      /\ status' = [r \in Request |-> IF r \in F \cap Kept THEN "aborted"
                                      ELSE IF r \in F THEN "finished" ELSE status[r]]
      /\ table' = [r \in Request |-> IF r \in F \ Kept THEN <<>> ELSE table[r]]
      /\ cached' = [r \in Request |-> IF r \in F \ Kept THEN 0 ELSE cached[r]]
      /\ computed' = [r \in Request |-> IF r \in F THEN 0 ELSE computed[r]]
    BY Zenon DEF _free_requests
<1>2. /\ step_skipped = <<>> /\ reservation_deferred = <<>> /\ step_skipped' = <<>> /\ reservation_deferred' = <<>>
      /\ QueuesOK(Request, status, running, waiting, skipped_waiting, step_skipped, reservation_deferred)
    BY Zenon DEF Structure
<1>3. status \in [Request -> Statuses]
    BY <1>2, Zenon DEF QueuesOK
<1>4. /\ status' \in [Request -> Statuses]
      /\ \A q \in Request : IF q \in F THEN status'[q] \in {"aborted", "finished"} ELSE status'[q] = status[q]
    BY <1>1, <1>3, Zenon DEF Statuses
<1>5. QueuesOK(Request, status', running', waiting', skipped_waiting', step_skipped', reservation_deferred')
    <2> DEFINE st2 == status'
    <2>1. /\ st2 \in [Request -> Statuses]
          /\ \A q \in Request : IF q \in F THEN st2[q] \in {"aborted", "finished"} ELSE st2[q] = status[q]
        BY <1>4
    <2> HIDE DEF st2
    <2>2. QueuesOK(Request, status, running, waiting, skipped_waiting, <<>>, <<>>)
        BY <1>2, Zenon
    <2>3. QueuesOK(Request, st2, Without(running, F), Without(waiting, F), Without(skipped_waiting, F), <<>>, <<>>)
        BY <2>1, <2>2, Zenon DEF Laws, FreedLaw
    <2> QED BY <1>1, <1>2, <2>3 DEF st2
<1>6. ASSUME NEW q \in Request
      PROVE  RequestOK(status'[q], output'[q], computed'[q], table'[q], cached'[q], q)
    <2>1. RequestOK(status[q], output[q], computed[q], table[q], cached[q], q)
        BY Zenon DEF Structure, RequestsOK
    <2>2. NumPromptTokens[q] \in Nat
        BY ControllerAssumption
    <2>3. CASE q \in F \ Kept
        <3>1. status'[q] = "finished" /\ computed'[q] = 0 /\ table'[q] = <<>> /\ cached'[q] = 0
            BY <1>1, <2>3, Zenon
        <3> QED BY <3>1, EmptyRequest, Zenon
    <2>4. CASE q \in F \cap Kept
        <3>1. status'[q] = "aborted" /\ computed'[q] = 0 /\ table'[q] = table[q] /\ cached'[q] = cached[q]
            BY <1>1, <2>4, Zenon
        <3>2. q \in Loading \cap Abortable /\ output'[q] \in Nat /\ output'[q] < MaxTokens[q]
            BY <2>4, Zenon
        <3>3. RequestOK("aborted", output'[q], 0, table[q], cached[q], q)
            BY <2>1, <2>2, <3>2, AbortedRequest, Zenon
        <3> QED BY <3>1, <3>3, Zenon
    <2>5. CASE q \notin F
        <3>1. status'[q] = status[q] /\ computed'[q] = computed[q] /\ table'[q] = table[q] /\ cached'[q] = cached[q]
            BY <1>1, <2>5, Zenon
        <3>2. output[q] <= output'[q]
            BY <2>5, Zenon
        <3> QED BY <2>1, <3>1, <3>2, LongerRequest, Zenon
    <2> QED BY <2>3, <2>4, <2>5, Zenon
<1>7. RequestsOK(status', output', computed', table', cached')
    BY <1>1, <1>6, Zenon DEF RequestsOK
<1> QED BY <1>2, <1>5, <1>7, Zenon DEF Structure

\* The output of a request that is short of its limit may start anew, stay or
\* grow by a token that is not the last.
LEMMA OutputArithmetic ==
    ASSUME NEW o \in Nat, NEW m \in Nat \ {0}, o < m
    PROVE  /\ 0 \in Nat /\ 0 < m /\ o <= o
           /\ o + 1 # m => o + 1 \in Nat /\ o + 1 < m /\ o <= o + 1
    OBVIOUS

\* Requests that produce a token or finish keep the structure.
LEMMA StructureOutput ==
    ASSUME Laws, Structure, NEW S \in SUBSET Request, update_from_output(S)
    PROVE  Structure'
<1> DEFINE sampled == {r \in scheduled : computed[r] = NumTokens(r)}
           over == S \cup {r \in sampled : output[r] + 1 = MaxTokens[r]}
<1>1. /\ pc = "executing" /\ UNCHANGED <<step_skipped, reservation_deferred>>
      /\ output' = [r \in Request |-> IF r \in over THEN 0
                                      ELSE IF r \in sampled THEN output[r] + 1 ELSE output[r]]
      /\ _free_requests(over, {})
    BY Zenon DEF update_from_output
<1>2. ASSUME NEW q \in Request
      PROVE  /\ output'[q] \in Nat /\ output'[q] < MaxTokens[q]
             /\ q \notin over => output[q] <= output'[q]
             /\ q \in over \cap {} => q \in Loading \cap Abortable
    <2>1. output[q] \in Nat /\ MaxTokens[q] \in Nat \ {0} /\ output[q] < MaxTokens[q]
        BY TokenFacts, Zenon
    <2>0. /\ 0 \in Nat /\ 0 < MaxTokens[q] /\ output[q] <= output[q]
          /\ output[q] + 1 # MaxTokens[q] =>
                output[q] + 1 \in Nat /\ output[q] + 1 < MaxTokens[q] /\ output[q] <= output[q] + 1
        BY <2>1, OutputArithmetic, Zenon
    <2>2. CASE q \in over
        <3>1. output'[q] = 0
            BY <1>1, <2>2, Zenon
        <3> HIDE DEF over
        <3> QED BY <2>0, <2>2, <3>1, Zenon
    <2>3. CASE q \notin over /\ q \in sampled
        <3>1. output'[q] = output[q] + 1 /\ output[q] + 1 # MaxTokens[q]
            BY <1>1, <2>3
        <3> HIDE DEF over
        <3> QED BY <2>0, <2>3, <3>1, Zenon
    <2>4. CASE q \notin over /\ q \notin sampled
        <3>1. output'[q] = output[q]
            BY <1>1, <2>4, Zenon
        <3> HIDE DEF over
        <3> QED BY <2>1, <2>0, <2>4, <3>1, Zenon
    <2> QED BY <2>2, <2>3, <2>4, Zenon
<1>3. DOMAIN output' = Request
    BY <1>1, Zenon
<1> HIDE DEF over, sampled
<1> QED BY <1>1, <1>2, <1>3, StructureFree, ZenonT(40)

\* The arrival of a load marks a live request and frees the blocks of an aborted one.
LEMMA StructureReceived ==
    ASSUME Laws, Structure, NEW r \in Request, finished_recving(r)
    PROVE  Structure'
<1>0. pc = "executing" /\ UNCHANGED <<output, step_skipped, reservation_deferred, pc>>
    BY DEF finished_recving, loop_vars
<1>1. CASE status[r] = "loading"
    <2>1. /\ status' = [status EXCEPT ![r] = "loaded"]
          /\ UNCHANGED <<computed, table, cached, running, waiting, skipped_waiting>>
        BY <1>1 DEF finished_recving, queue_vars
    <2>2. QueuesOK(Request, status, running, waiting, skipped_waiting, step_skipped, reservation_deferred)
        BY DEF Structure
    <2>3. QueuesOK(Request, [status EXCEPT ![r] = "loaded"], running, waiting, skipped_waiting, step_skipped,
                   reservation_deferred)
        BY <1>1, <2>2, Zenon DEF Laws, RelabelledLaw
    <2>4. QueuesOK(Request, status', running', waiting', skipped_waiting', step_skipped', reservation_deferred')
        BY <1>0, <2>1, <2>3
    <2>5. \A q \in Request : RequestOK(status[q], output[q], computed[q], table[q], cached[q], q)
        BY Zenon DEF Structure, RequestsOK
    <2>6. RequestOK("loaded", output[r], computed[r], table[r], cached[r], r)
        BY <1>1, <2>5, Zenon DEF RequestOK, LiveStatuses
    <2>7. \A q \in Request : status'[q] = IF q = r THEN "loaded" ELSE status[q]
        BY <2>1, <2>2 DEF QueuesOK
    <2>8. \A q \in Request : RequestOK(status'[q], output[q], computed[q], table[q], cached[q], q)
        BY <2>5, <2>6, <2>7, Zenon
    <2>9. RequestsOK(status', output', computed', table', cached')
        BY <1>0, <2>1, <2>8 DEF RequestsOK, Structure
    <2> QED BY <1>0, <2>4, <2>9 DEF Structure
<1>2. CASE status[r] # "loading"
    <2>1. _free_requests({r}, {})
        BY <1>2 DEF finished_recving
    <2>2. DOMAIN output' = Request
        BY <1>0, Zenon DEF Structure, RequestsOK
    <2>3. \A q \in Request : /\ output'[q] \in Nat /\ output'[q] < MaxTokens[q]
                             /\ q \notin {r} => output[q] <= output'[q]
                             /\ q \in {r} \cap {} => q \in Loading \cap Abortable
        BY <1>0, TokenFacts, SMTT(30)
    <2> QED BY <1>0, <2>1, <2>2, <2>3, StructureFree, ZenonT(40)
<1> QED BY <1>1, <1>2

\* An aborted request leaves every queue and returns its blocks.
LEMMA StructureAbort ==
    ASSUME Laws, Structure, NEW r \in Request, finish_requests(r)
    PROVE  Structure' /\ (status[r] = "loading" => r \in Loading \cap Abortable)
<1> DEFINE kept == {q \in {r} : status[q] = "loading"}
<1>1. /\ pc \in {"idle", "executing"} /\ r \in Abortable
      /\ _free_requests({r}, kept)
      /\ output' = [output EXCEPT ![r] = 0]
      /\ UNCHANGED <<step_skipped, reservation_deferred>>
    BY DEF finish_requests
<1>2. DOMAIN output = Request /\ RequestOK(status[r], output[r], computed[r], table[r], cached[r], r)
    BY Zenon DEF Structure, RequestsOK
<1>3. status[r] = "loading" => r \in Loading \cap Abortable
    BY <1>1, <1>2, Zenon DEF RequestOK
<1>4. DOMAIN output' = Request /\ \A q \in Request : output'[q] = IF q = r THEN 0 ELSE output[q]
    BY <1>1, <1>2
<1>5. \A q \in Request : output[q] \in Nat /\ output[q] < MaxTokens[q] /\ MaxTokens[q] \in Nat \ {0}
    BY TokenFacts
<1>6. \A q \in Request : /\ output'[q] \in Nat /\ output'[q] < MaxTokens[q]
                         /\ q \notin {r} => output[q] <= output'[q]
    BY <1>4, <1>5, SMTT(30)
<1>7. \A q \in Request : q \in {r} \cap kept => q \in Loading \cap Abortable
    BY <1>3
<1> HIDE DEF kept
<1>8. Structure'
    BY <1>1, <1>4, <1>6, <1>7, StructureFree
<1> QED BY <1>3, <1>8


\* Every step keeps the structure.
LEMMA StructureNext ==
    ASSUME Laws, Structure, [Next]_vars
    PROVE  Structure'
<1>1. CASE UNCHANGED vars
    BY <1>1, StructureSame DEF vars, queue_vars, loop_vars
<1>2. CASE begin_step
    <2>1. UNCHANGED <<request_vars, running, waiting, skipped_waiting, step_skipped, reservation_deferred>>
        BY <1>2 DEF begin_step, queue_vars
    <2>2. pc' \notin {"idle", "executing"}
        BY <1>2 DEF begin_step, RunningLoop
    <2> QED BY <2>1, <2>2, StructureSame
<1>3. CASE growth_deferred
    <2>1. UNCHANGED <<request_vars, running, waiting, skipped_waiting, step_skipped, reservation_deferred>>
        BY <1>3 DEF growth_deferred, queue_vars
    <2>2. pc' \notin {"idle", "executing"}
        BY <1>3 DEF growth_deferred, RunningLoop
    <2> QED BY <2>1, <2>2, StructureSame
<1>4. ASSUME NEW r \in Request, schedule_waiting(r) PROVE Structure'
    <2>1. PICK hits, external, new :
             /\ Granted(r, hits, external, new)
             /\ Crashes(r, table[r] \o hits \o new) \/ Starts(r, table[r] \o hits \o new, hits, external)
        BY <1>4, ScheduleWaitingFacts
    <2>2. CASE Crashes(r, table[r] \o hits \o new)
        BY <2>2, StructureSame DEF Crashes, queue_vars, loop_vars
    <2>3. CASE Starts(r, table[r] \o hits \o new, hits, external)
        BY <2>1, <2>3, StructureStarts
    <2> QED BY <2>1, <2>2, <2>3
<1>5. CASE Engine
    BY <1>5, <1>2, <1>3, <1>4, StructureScheduleRunning, StructurePreempt, StructurePromote, StructureDefer,
       StructureTurns, StructureOutput, Zenon DEF Engine
<1>6. CASE Next
    BY <1>1, <1>5, <1>6, StructureAdd, StructureReceived, StructureAbort DEF Next, Idle
<1> QED BY <1>1, <1>6

-----------------------------------------------------------------------------
InStep == pc \in {"running", "allocating", "waiting", "ending"}

\* Admitted requests are live; accounting is on in a step with annotated work,
\* and off only while no annotated request has had a turn.
AdmissionOK ==
    /\ accounting_active \in BOOLEAN
    /\ \A r \in Admitted : r \in Request /\ Live(r) /\ prefill_limits[r] \in Nat
    /\ InStep => (accounting_active <=> Managed)
    /\ ~accounting_active =>
          Admitted = {} /\ \A r \in Annotated : Live(r) => status[r] = "waiting" /\ table[r] = <<>>
    /\ accounting_active => Range(running) \subseteq Admitted

\* No request is aborted while its load is in flight.
NoLoadAborted == Loading \cap Abortable = {}

\* Only annotated requests load.
AgentsLoad == Loading \subseteq Annotated

-----------------------------------------------------------------------------
(* Admission *)

\* Steps that change nothing the controller looks at.
LEMMA AdmissionSame ==
    ASSUME AdmissionOK, UNCHANGED <<status, table, running, accounting_active, prefill_limits>>, InStep' => InStep
    PROVE  AdmissionOK'
BY DEF AdmissionOK, Admitted, Managed, metadata, Live

\* Where a request is queued follows from its status.
LEMMA LiveFacts ==
    ASSUME Structure
    PROVE  /\ Annotated \subseteq Request
           /\ \A r \in Request : status[r] = "running" <=> r \in Range(running)
           /\ \A r \in Request : status[r] \in LiveStatuses <=> Live(r)
           /\ Managed <=> \E r \in Annotated : status[r] \in LiveStatuses
<1>1. Annotated \subseteq Request
    BY ControllerAssumption
<1>2. \A r \in Request : status[r] = "running" <=> r \in Range(running)
    BY DEF Structure, QueuesOK
<1> QED BY <1>1, <1>2, Zenon DEF Managed, metadata, Live, LiveStatuses

\* Blocks of request r are charged: r is admitted.
LEMMA AdmissionCommit ==
    ASSUME Laws, Structure, Structure', AdmissionOK, InStep,
           NEW r \in Request, status[r] \in LiveStatuses, status'[r] \in LiveStatuses,
           \A q \in Request : q # r => status'[q] = status[q] /\ table'[q] = table[q],
           NEW blocks, NEW borrow, commit(r, blocks, borrow)
    PROVE  /\ AdmissionOK'
           /\ accounting_active' = accounting_active /\ (accounting_active <=> Managed)
           /\ accounting_active => Admitted' = Admitted \cup {r}
           /\ \A q \in Admitted : prefill_limits'[q] = prefill_limits[q]
           /\ accounting_active /\ r \notin Admitted => prefill_limits'[r] = NumTokens(r)
<1>1. accounting_active <=> Managed
    BY DEF AdmissionOK
<1>2. \A q \in Request : status'[q] \in LiveStatuses <=> status[q] \in LiveStatuses
    OBVIOUS
<1>3. /\ Annotated \subseteq Request
      /\ \A q \in Request : status[q] = "running" <=> q \in Range(running)
      /\ \A q \in Request : status[q] \in LiveStatuses <=> Live(q)
      /\ Managed <=> \E q \in Annotated : status[q] \in LiveStatuses
    BY LiveFacts, Zenon
<1>4. Range(running') = {q \in Request : status'[q] = "running"}
    BY DEF Structure, QueuesOK
<1>5. \A q \in Request : status'[q] \in LiveStatuses <=> Live(q)'
    BY Zenon DEF Live, LiveStatuses
<1>6. Managed' <=> \E q \in Annotated : status'[q] \in LiveStatuses
    BY <1>3, <1>5, Zenon DEF Managed, metadata
<1>7. Managed' <=> Managed
    BY <1>2, <1>3, <1>6
<1>8. CASE Managed
    <2>1. /\ prefill_limits' = IF r \in Admitted THEN prefill_limits ELSE Put(prefill_limits, r, NumTokens(r))
          /\ accounting_active' = accounting_active
        BY <1>8, Zenon DEF commit
    <2>2. NumTokens(r) \in Nat
        BY TokenFacts
    <2>3. /\ DOMAIN prefill_limits' = DOMAIN prefill_limits \cup {r}
          /\ \A q \in DOMAIN prefill_limits : prefill_limits'[q] = prefill_limits[q]
          /\ r \notin DOMAIN prefill_limits => prefill_limits'[r] = NumTokens(r)
        BY <2>1 DEF Put, Admitted
    <2>4. \A q \in Admitted : q \in Request /\ status[q] \in LiveStatuses /\ prefill_limits[q] \in Nat
        BY <1>3 DEF AdmissionOK
    <2>5. \A q \in Admitted' : q \in Request /\ Live(q)' /\ prefill_limits'[q] \in Nat
        BY <1>2, <1>5, <2>2, <2>3, <2>4 DEF Admitted
    <2>6. Range(running') \subseteq Admitted'
        BY <1>1, <1>3, <1>4, <1>8, <2>3, Zenon DEF AdmissionOK, Admitted
    <2>7. AdmissionOK'
        BY <1>1, <1>7, <1>8, <2>1, <2>5, <2>6, Zenon DEF AdmissionOK
    <2> QED BY <1>1, <2>1, <2>3, <2>7 DEF Admitted
<1>9. CASE ~Managed
    <2>1. UNCHANGED <<accounting_active, prefill_limits>> /\ ~accounting_active /\ Admitted = {}
        BY <1>1, <1>9, Zenon DEF commit, account_vars, AdmissionOK
    <2>2. \A q \in Annotated : ~Live(q)'
        BY <1>2, <1>3, <1>5, <1>9, Zenon
    <2>3. Admitted' = {}
        BY <2>1, Zenon DEF Admitted
    <2>4. AdmissionOK'
        BY <1>7, <1>9, <2>1, <2>2, <2>3, Zenon DEF AdmissionOK
    <2> QED BY <1>1, <2>1, <2>4 DEF Admitted
<1> QED BY <1>8, <1>9, Zenon

\* The requests in F are over: they are not admitted any longer.
LEMMA AdmissionFree ==
    ASSUME Structure, Structure', AdmissionOK, NEW F, NEW Kept, _free_requests(F, Kept), ~InStep'
    PROVE  AdmissionOK'
<1>1. /\ status' = [r \in Request |-> IF r \in F \cap Kept THEN "aborted"
                                      ELSE IF r \in F THEN "finished" ELSE status[r]]
      /\ table' = [r \in Request |-> IF r \in F \ Kept THEN <<>> ELSE table[r]]
      /\ prefill_limits' = Drop(prefill_limits, F) /\ accounting_active' = accounting_active
    BY Zenon DEF _free_requests
<1>2. /\ DOMAIN prefill_limits' = DOMAIN prefill_limits \ F
      /\ \A q \in DOMAIN prefill_limits \ F : prefill_limits'[q] = prefill_limits[q]
    BY <1>1, Zenon DEF Drop
<1>3. \A q \in Request \ F : status'[q] = status[q] /\ table'[q] = table[q]
    BY <1>1, Zenon
<1>4. \A q \in Request \cap F : status'[q] \notin LiveStatuses
    BY <1>1, Zenon DEF LiveStatuses
<1>5. /\ \A q \in Request : status'[q] \in LiveStatuses <=> Live(q)'
      /\ \A q \in Request : status[q] \in LiveStatuses <=> Live(q)
    BY Zenon DEF Live, LiveStatuses
<1>6. \A q \in Admitted' : q \in Request /\ Live(q)' /\ prefill_limits'[q] \in Nat
    BY <1>2, <1>3, <1>5, Zenon DEF AdmissionOK, Admitted
<1>7. ~accounting_active => \A q \in Annotated : Live(q)' => status'[q] = "waiting" /\ table'[q] = <<>>
    BY <1>3, <1>4, <1>5, LiveFacts, Zenon DEF AdmissionOK
<1>8. accounting_active => Range(running') \subseteq Admitted'
    <2>1. Range(running') = {q \in Request : status'[q] = "running"}
        BY DEF Structure, QueuesOK
    <2>2. \A q \in Request : status'[q] = "running" => q \notin F /\ q \in Range(running)
        BY <1>3, <1>4, LiveFacts, Zenon DEF LiveStatuses
    <2> QED BY <1>2, <2>1, <2>2, Zenon DEF AdmissionOK, Admitted
<1>9. ~accounting_active => Admitted' = {}
    BY <1>2, Zenon DEF AdmissionOK, Admitted
<1> QED BY <1>1, <1>6, <1>7, <1>8, <1>9, Zenon DEF AdmissionOK

\* begin_step admits the running requests again, each on the limit it had.
LEMMA AdmissionBegin ==
    ASSUME Laws, Structure, AdmissionOK, begin_step
    PROVE  /\ AdmissionOK' /\ (accounting_active' <=> Managed)
           /\ accounting_active' => Admitted' = Admitted \cup Range(running)
           /\ accounting_active' => \A r \in Admitted : prefill_limits'[r] = prefill_limits[r]
           /\ UNCHANGED <<request_vars, running>>
<1>1. UNCHANGED <<request_vars, running>> /\ UNCHANGED <<status, table>>
    BY DEF begin_step, queue_vars, request_vars
<1>2. Managed' = Managed /\ \A r \in Request : Live(r)' = Live(r)
    BY <1>1 DEF Managed, metadata, Live
<1>3. /\ Annotated \subseteq Request
      /\ \A q \in Request : status[q] = "running" <=> q \in Range(running)
      /\ \A q \in Request : status[q] \in LiveStatuses <=> Live(q)
      /\ Managed <=> \E q \in Annotated : status[q] \in LiveStatuses
    BY LiveFacts
<1>4. CASE Managed
    <2>1. accounting_active' = TRUE /\ prefill_limits' = AdoptedLimits
        BY <1>4 DEF begin_step, begin_step_agents
    <2>2. /\ DOMAIN prefill_limits' = Admitted \cup Range(running)
          /\ \A r \in Admitted \cup Range(running) :
                prefill_limits'[r] = IF r \in Admitted THEN prefill_limits[r] ELSE NumTokens(r)
        BY <2>1 DEF AdoptedLimits
    <2>3. \A r \in Range(running) : r \in Request /\ Live(r) /\ NumTokens(r) \in Nat
        <3>1. \A r \in Range(running) : r \in Request
            BY DEF Structure, QueuesOK
        <3> QED BY <1>3, <3>1, TokenFacts DEF LiveStatuses
    <2>4. \A r \in Admitted' : r \in Request /\ Live(r)' /\ prefill_limits'[r] \in Nat
        BY <1>2, <2>2, <2>3 DEF AdmissionOK, Admitted
    <2>5. AdmissionOK'
        BY <1>1, <1>2, <1>4, <2>1, <2>2, <2>4, Zenon DEF AdmissionOK, Admitted
    <2> QED BY <1>1, <1>4, <2>1, <2>2, <2>5 DEF Admitted
<1>5. CASE ~Managed
    <2>1. accounting_active' = FALSE /\ prefill_limits' = <<>>
        BY <1>5 DEF begin_step, begin_step_idle
    <2>2. Admitted' = {}
        BY <2>1 DEF Admitted
    <2>3. \A r \in Annotated : ~Live(r)'
        BY <1>2, <1>3, <1>5
    <2>4. AdmissionOK'
        BY <1>2, <1>5, <2>1, <2>2, <2>3, Zenon DEF AdmissionOK
    <2> QED BY <1>1, <1>5, <2>1, <2>4
<1> QED BY <1>4, <1>5, Zenon

\* A preempted request is no longer admitted; the others stay.
LEMMA AdmissionPreempt ==
    ASSUME Laws, Structure, Structure', AdmissionOK,
           NEW r \in Range(running), NEW v \in Range(running), _preempt_request(r, v)
    PROVE  AdmissionOK'
<1>1. /\ v \in Request /\ status[v] = "running"
      /\ \A q \in Request : table'[q] = IF q = v THEN <<>> ELSE table[q]
    BY StructurePreempt
<1>2. /\ status' = [status EXCEPT ![v] = "waiting"]
      /\ prefill_limits' = Drop(prefill_limits, {v}) /\ accounting_active' = accounting_active
      /\ InStep
    BY DEF _preempt_request, Allocating, InStep
<1>3. /\ Annotated \subseteq Request
      /\ \A q \in Request : status[q] = "running" <=> q \in Range(running)
      /\ \A q \in Request : status[q] \in LiveStatuses <=> Live(q)
      /\ Managed <=> \E q \in Annotated : status[q] \in LiveStatuses
    BY LiveFacts
<1>4. \A q \in Request : status'[q] = IF q = v THEN "waiting" ELSE status[q]
    BY <1>2, Zenon DEF Structure, QueuesOK
<1>5. \A q \in Request : status'[q] \in LiveStatuses <=> Live(q)'
    BY DEF Live, LiveStatuses
<1>6. \A q \in Request : Live(q)' <=> Live(q)
    BY <1>1, <1>3, <1>4, <1>5, Zenon DEF LiveStatuses
<1>7. Managed' <=> Managed
    BY <1>3, <1>6 DEF Managed, metadata
<1>8. /\ DOMAIN prefill_limits' = DOMAIN prefill_limits \ {v}
      /\ \A q \in DOMAIN prefill_limits \ {v} : prefill_limits'[q] = prefill_limits[q]
    BY <1>2 DEF Drop
<1>9. \A q \in Admitted' : q \in Request /\ Live(q)' /\ prefill_limits'[q] \in Nat
    BY <1>6, <1>8 DEF AdmissionOK, Admitted
<1>10. ~accounting_active => \A q \in Annotated : Live(q)' => status'[q] = "waiting" /\ table'[q] = <<>>
    BY <1>1, <1>3, <1>4, <1>6, Zenon DEF AdmissionOK
<1>11. accounting_active => Range(running') \subseteq Admitted'
    <2>1. Range(running') = {q \in Request : status'[q] = "running"}
        BY DEF Structure, QueuesOK
    <2> QED BY <1>3, <1>4, <1>8, <2>1, Zenon DEF AdmissionOK, Admitted
<1> QED BY <1>2, <1>7, <1>8, <1>9, <1>10, <1>11, Zenon DEF AdmissionOK, Admitted

\* A load arrives, its request is promoted, or a request arrives.
LEMMA AdmissionRelabel ==
    ASSUME Structure, Structure', AdmissionOK, NEW r \in Request,
           status[r] \in {"loading", "loaded"} \/ (status[r] = "new" /\ ~InStep),
           status[r] = "new" => table[r] = <<>>,
           NEW s \in {"waiting", "loaded"}, status[r] = "new" => s = "waiting", status' = [status EXCEPT ![r] = s],
           UNCHANGED <<table, accounting_active, prefill_limits, pc>>
    PROVE  AdmissionOK'
<1>1. /\ Annotated \subseteq Request
      /\ \A q \in Request : status[q] = "running" <=> q \in Range(running)
      /\ \A q \in Request : status[q] \in LiveStatuses <=> Live(q)
      /\ Managed <=> \E q \in Annotated : status[q] \in LiveStatuses
    BY LiveFacts
<1>2. \A q \in Request : status'[q] = IF q = r THEN s ELSE status[q]
    BY Zenon DEF Structure, QueuesOK
<1>3. \A q \in Request : status'[q] \in LiveStatuses <=> Live(q)'
    BY DEF Live, LiveStatuses
<1>4. \A q \in Request : Live(q) => Live(q)'
    BY <1>1, <1>2, <1>3 DEF LiveStatuses
<1>5. InStep => (Managed' <=> Managed)
    <2>1. ASSUME InStep PROVE \A q \in Request : Live(q)' <=> Live(q)
        BY <1>1, <1>2, <1>3, <2>1, ZenonT(40) DEF LiveStatuses
    <2> QED BY <1>1, <2>1 DEF Managed, metadata
<1>6. \A q \in Admitted' : q \in Request /\ Live(q)' /\ prefill_limits'[q] \in Nat
    BY <1>4, Zenon DEF AdmissionOK, Admitted
<1>7. ~accounting_active => \A q \in Annotated : Live(q)' => status'[q] = "waiting" /\ table'[q] = <<>>
    <2>1. ASSUME ~accounting_active, NEW q \in Annotated, Live(q)' PROVE status'[q] = "waiting" /\ table'[q] = <<>>
        <3>1. CASE q # r
            <4>1. Live(q)
                BY <1>1, <1>2, <1>3, <2>1, <3>1
            <4> QED BY <1>1, <1>2, <2>1, <3>1, <4>1, Zenon DEF AdmissionOK
        <3>2. CASE q = r
            <4>1. status[r] = "new"
                BY <1>1, <2>1, <3>2, Zenon DEF AdmissionOK, LiveStatuses
            <4> QED BY <1>2, <3>2, <4>1
        <3> QED BY <3>1, <3>2
    <2> QED BY <2>1
<1>8. Range(running') = Range(running)
    <2>1. Range(running') = {q \in Request : status'[q] = "running"} /\ Range(running) = {q \in Request : status[q] = "running"}
        BY Zenon DEF Structure, QueuesOK
    <2> QED BY <1>2, <2>1
<1>9. InStep' <=> InStep
    BY DEF InStep
<1> QED BY <1>5, <1>6, <1>7, <1>8, <1>9, Zenon DEF AdmissionOK, Admitted

-----------------------------------------------------------------------------
(* What the steps do to the books *)

\* A request in this state must be admitted: it loads, or has its blocks from a load.
HoldsLoad(s, t) == s \in {"loading", "loaded"} \/ (s = "waiting" /\ t # <<>>)

\* Blocks and accounts stay as they are.
Quiet ==
    /\ UNCHANGED <<mode, table, account_vars, plan, reserve_ratio>>
    /\ \A q \in Request : HoldsLoad(status'[q], table[q]) => HoldsLoad(status[q], table[q])
    /\ InStep' => InStep
    /\ history' \subseteq history \cup AgentType

\* The requests in F are over.
Frees(F, Kept) ==
    /\ _free_requests(F, Kept)
    /\ ~InStep' /\ pc' # "crashed"
    /\ UNCHANGED <<mode, plan, reserve_ratio, history>>

\* A request that asks for d blocks, as many as its admission takes, is granted
\* them: its payers can afford them in this turn.
Paid(r, held, borrow) ==
    /\ borrow = borrow_reserved
    /\ \E d \in Nat : admission_demand(r, held) <= d /\ Affordable(r, d, borrow)

\* Request r gets the free blocks N beside h cached ones, and is charged.
Commits(r, N, h, blocks, borrow) ==
    /\ InStep /\ InStep'
    /\ status[r] \in LiveStatuses /\ status'[r] \in LiveStatuses
    /\ \A q \in Request : q # r => status'[q] = status[q] /\ table'[q] = table[q]
    /\ Range(table[r]) \subseteq Range(table'[r]) /\ N \subseteq Range(table'[r])
    /\ Range(table'[r]) \subseteq Occupied \cup N
    /\ N \subseteq Range(blocks) /\ Range(blocks) \subseteq Occupied \cup N
    /\ N \subseteq Unused /\ h \in Nat
    /\ Len(table'[r]) = Len(table[r]) + h + Cardinality(N)
    /\ Cardinality(N) \in Nat /\ Cardinality(N) <= AtLeast0(NumTokens(r) - Len(table[r]) - h)
    /\ commit(r, blocks, borrow)
    /\ r \in Admitted \/ ~Managed
       \/ admission_demand(r, Len(table[r]) + h) <= uncommitted_blocks
    /\ r \in Admitted \/ ~Managed \/ Paid(r, Len(table[r]) + h, borrow)
    /\ UNCHANGED <<mode, output, plan, reserve_ratio>>

\* Steps that change no table and no book.
LEMMA QuietSteps ==
    ASSUME Laws, Structure, Structure', AdmissionOK,
           \/ growth_deferred \/ second_turn \/ end_step \/ UNCHANGED vars
           \/ \E r \in Request : defer(r)
           \/ \E r \in Request : \E blocks : Crashes(r, blocks)
    PROVE  AdmissionOK' /\ Quiet
<1>1. UNCHANGED <<mode, status, table, running, account_vars, plan, reserve_ratio>>
    BY Zenon DEF growth_deferred, defer, second_turn, end_step, vars, Crashes, request_vars, queue_vars, plan_vars
<1>2. InStep' => InStep
    BY Zenon DEF growth_deferred, defer, second_turn, end_step, vars, Crashes, InStep, Candidate, WaitingLoop
<1>3. history' \subseteq history \cup AgentType
    <2>1. \A r \in metadata : TypeOf[r] \in AgentType
        BY ControllerAssumption DEF metadata, Annotated
    <2> QED BY <2>1, Zenon DEF growth_deferred, defer, second_turn, end_step, vars, Crashes
<1>4. AdmissionOK'
    BY <1>1, <1>2, AdmissionSame DEF account_vars
<1> QED BY <1>1, <1>2, <1>3, <1>4, Zenon DEF Quiet

\* Steps that change the status of a request and no book.
LEMMA RelabellingSteps ==
    ASSUME Laws, Structure, Structure', AdmissionOK, NEW r \in Request,
           \/ promote_blocked
           \/ add_request(r)
           \/ finished_recving(r) /\ status[r] = "loading"
    PROVE  AdmissionOK' /\ Quiet
<1>1. /\ UNCHANGED <<mode, table, running, account_vars, plan, reserve_ratio, history, pc>>
      /\ InStep' => InStep
    BY Zenon DEF promote_blocked, add_request, finished_recving, queue_vars, plan_vars, InStep
<1>2. \A q \in Request : /\ status[q] = "new" => table[q] = <<>>
                         /\ DOMAIN status = Request
    BY Zenon DEF Structure, RequestsOK, RequestOK, LiveStatuses, QueuesOK
<1>3. CASE promote_blocked
    <2>1. PICK q \in Request : /\ status[q] \in {"loading", "loaded"}
                               /\ \/ status' = [status EXCEPT ![q] = "waiting"] /\ status[q] = "loaded"
                                  \/ status' = status
        BY <1>3, StructurePromote
    <2>2. CASE status' = status
        BY <1>1, <2>2, AdmissionSame, Zenon DEF Quiet, account_vars
    <2>3. CASE status' # status
        <3>1. AdmissionOK'
            BY <1>1, <2>1, <2>3, AdmissionRelabel DEF account_vars
        <3>2. \A p \in Request : status'[p] = IF p = q THEN "waiting" ELSE status[p]
            BY <1>2, <2>1, <2>3
        <3> QED BY <1>1, <2>1, <3>1, <3>2, Zenon DEF Quiet, HoldsLoad
    <2> QED BY <2>2, <2>3
<1>4. CASE add_request(r)
    <2>1. status[r] = "new" /\ status' = [status EXCEPT ![r] = "waiting"] /\ ~InStep
        BY <1>4 DEF add_request, InStep
    <2>2. AdmissionOK'
        BY <1>1, <1>2, <2>1, AdmissionRelabel, Zenon DEF account_vars
    <2>3. \A p \in Request : status'[p] = IF p = r THEN "waiting" ELSE status[p]
        BY <1>2, <2>1, Zenon
    <2> QED BY <1>1, <1>2, <2>1, <2>2, <2>3, Zenon DEF Quiet, HoldsLoad
<1>5. CASE finished_recving(r) /\ status[r] = "loading"
    <2>1. status' = [status EXCEPT ![r] = "loaded"]
        BY <1>5 DEF finished_recving
    <2>2. AdmissionOK'
        BY <1>1, <1>5, <2>1, AdmissionRelabel, Zenon DEF account_vars
    <2>3. \A p \in Request : status'[p] = IF p = r THEN "loaded" ELSE status[p]
        BY <1>2, <2>1
    <2> QED BY <1>1, <1>5, <2>1, <2>2, <2>3 DEF Quiet, HoldsLoad
<1> QED BY <1>3, <1>4, <1>5
=============================================================================
