--------------------- MODULE SchedulingControllerProofs ---------------------
(***************************************************************************)
(* The books of the admission controller are right for any requests, block *)
(* pool, scores and reserve modes.                                         *)
(***************************************************************************)
EXTENDS SchedulingStructureProofs

-----------------------------------------------------------------------------
(* What is committed is a number of blocks *)

\* Finitely many requests are admitted, and what each may still need is a natural.
LEMMA GrowthFacts ==
    ASSUME Laws, Structure, AdmissionOK
    PROVE  /\ IsFiniteSet(Admitted) /\ Admitted \subseteq Request
           /\ \A r \in Request : admission_tokens(r) \in Nat /\ NumTokens(r) <= admission_tokens(r)
           /\ \A r \in Request : _remaining_growth(r) \in Nat
           /\ \A r \in Admitted : InputGrowth(r) \in Nat /\ GenerationGrowth(r) \in Nat
           /\ _generation_headroom \in Nat
<1>1. IsFiniteSet(Admitted) /\ Admitted \subseteq Request
    <2>1. Admitted \subseteq Request /\ IsFiniteSet(Request)
        BY ControllerAssumption DEF AdmissionOK
    <2> QED BY <2>1, Zenon DEF Laws, FiniteLaw
<1>2. ASSUME NEW r \in Request
      PROVE  admission_tokens(r) \in Nat /\ NumTokens(r) <= admission_tokens(r) /\ _remaining_growth(r) \in Nat
    <2>1. /\ NumPromptTokens[r] \in Nat /\ MaxTokens[r] \in Nat /\ output[r] \in Nat /\ output[r] < MaxTokens[r]
          /\ Len(table[r]) \in Nat
        BY TokenFacts
    <2>2. admission_tokens(r) \in Nat /\ NumTokens(r) <= admission_tokens(r)
        BY <2>1 DEF admission_tokens, NumTokens
    <2> QED BY <2>1, <2>2 DEF _remaining_growth, AtLeast0
<1>3. ASSUME NEW r \in Admitted PROVE InputGrowth(r) \in Nat /\ GenerationGrowth(r) \in Nat
    <2>1. Len(table[r]) \in Nat /\ prefill_limits[r] \in Nat
        BY <1>1, TokenFacts DEF AdmissionOK
    <2>2. InputGrowth(r) \in Nat
        BY <2>1 DEF InputGrowth, AtLeast0
    <2> QED BY <1>1, <1>2, <2>2 DEF GenerationGrowth, AtLeast0
<1>4. _generation_headroom \in Nat
    <2>1. CASE Admitted = {}
        BY <2>1 DEF _generation_headroom
    <2>2. CASE Admitted # {}
        <3> DEFINE S == {GenerationGrowth(r) : r \in Admitted}
        <3>1. S \in SUBSET Nat /\ S # {}
            BY <1>3, <2>2
        <3>2. _generation_headroom = Min(S)
            BY <2>2 DEF _generation_headroom
        <3> HIDE DEF S
        <3> QED BY <3>1, <3>2, MinFacts, Zenon
    <2> QED BY <2>1, <2>2
<1> QED BY <1>1, <1>2, <1>3, <1>4

\* What is left uncommitted is an integer; what is free, a natural.
LEMMA CommittedFacts ==
    ASSUME Laws, Structure, AdmissionOK
    PROVE  uncommitted_blocks \in Int /\ NumFreeBlocks \in Nat
<1> DEFINE B == reclaim_beneficiaries \cap Admitted
           i == [r \in Admitted |-> InputGrowth(r)]
           g == [r \in B |-> GenerationGrowth(r)]
           a == [r \in Admitted |-> _remaining_growth(r)]
<1>1. IsFiniteSet(Admitted) /\ Admitted \subseteq Request /\ _generation_headroom \in Nat
    BY GrowthFacts
<1>2. IsFiniteSet(B)
    BY <1>1, Zenon DEF Laws, FiniteLaw
<1>3. /\ DOMAIN i = Admitted /\ \A r \in Admitted : i[r] \in Int
      /\ DOMAIN g = B /\ \A r \in B : g[r] \in Int
      /\ DOMAIN a = Admitted /\ \A r \in Admitted : a[r] \in Int
    BY <1>1, GrowthFacts
<1>4. CommittedTo(reclaim_beneficiaries) =
         CASE mode = "progress" -> SumFunction(i) + _generation_headroom
           [] mode = "reclaim" -> SumFunction(i) + SumFunction(g)
           [] OTHER -> SumFunction(a)
    BY Zenon DEF CommittedTo
<1> HIDE DEF B, i, g, a
<1>5. SumFunction(i) \in Int /\ SumFunction(g) \in Int /\ SumFunction(a) \in Int
    <2>1. SumFunctionOnSet(i, Admitted) \in Int
        BY <1>1, <1>3, Zenon DEF Laws, SumLaw
    <2>2. SumFunctionOnSet(g, B) \in Int
        BY <1>2, <1>3, Zenon DEF Laws, SumLaw
    <2>3. SumFunctionOnSet(a, Admitted) \in Int
        BY <1>1, <1>3, Zenon DEF Laws, SumLaw
    <2> QED BY <1>3, <2>1, <2>2, <2>3, Zenon DEF SumFunction
<1>6. CommittedTo(reclaim_beneficiaries) \in Int
    BY <1>1, <1>4, <1>5
<1>7. NumFreeBlocks \in Nat
    BY BlockFacts
<1> QED BY <1>6, <1>7 DEF uncommitted_blocks

\* The demand of an admission is a natural: all the tokens to admit, but in the progress modes.
LEMMA DemandFacts ==
    ASSUME Laws, Structure, AdmissionOK, NEW r \in Request, NEW h \in Nat
    PROVE  /\ admission_demand(r, h) \in Nat
           /\ mode \notin {"progress", "reclaim"} => admission_demand(r, h) = AtLeast0(admission_tokens(r) - h)
<1> DEFINE inputs == AtLeast0(NumTokens(r) - h)
           full == AtLeast0(admission_tokens(r) - h)
           headroom == AtLeast0(full - inputs)
           more == inputs + IF Admitted = {} THEN headroom
                            ELSE Lesser(_generation_headroom, headroom) - _generation_headroom
<1>1. NumTokens(r) \in Nat /\ admission_tokens(r) \in Nat /\ _generation_headroom \in Nat
    BY GrowthFacts, TokenFacts
<1>2. inputs \in Nat /\ full \in Nat
    BY <1>1 DEF AtLeast0
<1>3. admission_demand(r, h) = CASE mode = "reclaim" -> inputs
                                 [] mode = "progress" -> AtLeast0(more)
                                 [] OTHER -> full
    BY Zenon DEF admission_demand
<1>4. more \in Int
    <2> HIDE DEF inputs, full
    <2>1. headroom \in Nat
        BY <1>2 DEF AtLeast0
    <2> HIDE DEF headroom
    <2> QED BY <1>1, <1>2, <2>1 DEF Lesser
<1> HIDE DEF more
<1>5. AtLeast0(more) \in Nat
    BY <1>4 DEF AtLeast0
<1> HIDE DEF inputs, headroom
<1>6. full = AtLeast0(admission_tokens(r) - h)
    OBVIOUS
<1> HIDE DEF full
<1> QED BY <1>2, <1>3, <1>5, <1>6

-----------------------------------------------------------------------------
(* Every step is of one of these kinds. *)

\* A running request that is scheduled is a commitment.
LEMMA RunningCommits ==
    ASSUME Laws, Structure, Structure', AdmissionOK, NEW r \in Range(running), schedule_running(r)
    PROVE  r \in Request /\ \E N, h, blocks, borrow : Commits(r, N, h, blocks, borrow)
<1> DEFINE n == GrowthDemand(r)
           new == FreshBlocks(n)
<1>1. /\ r \in Request /\ status[r] = "running" /\ n \in Nat
      /\ table'[r] = table[r] \o new
      /\ \A q \in Request : q # r => table'[q] = table[q]
    BY StructureScheduleRunning
<1>2. /\ UNCHANGED <<mode, output, status, running, plan, reserve_ratio>> /\ InStep /\ InStep'
      /\ n <= NumFreeBlocks /\ commit(r, new, FALSE)
    BY Zenon DEF schedule_running, Allocating, queue_vars, plan_vars, InStep, RunningLoop
<1>3. r \in Admitted \/ ~Managed
    BY <1>2 DEF AdmissionOK
<1>4. /\ NumTokens(r) \in Nat /\ computed[r] \in Nat /\ table[r] \in Seq(Block) /\ Len(table[r]) \in Nat
      /\ NumNewTokens(r, computed[r]) \in 0..(NumTokens(r) - computed[r])
      /\ n = AtLeast0(computed[r] + NumNewTokens(r, computed[r]) - Len(table[r]))
    BY <1>1, TokenFacts
<1>5. n <= AtLeast0(NumTokens(r) - Len(table[r]) - 0)
    BY <1>4 DEF AtLeast0
<1> HIDE DEF n
<1>6. new \in Seq(Block) /\ Len(new) = n /\ Range(new) \subseteq Unused /\ IsInjective(new)
    BY <1>1, <1>2, FreshFacts
<1> HIDE DEF new
<1>7. Cardinality(Range(new)) = n
    BY <1>6 DEF Laws, InjectiveLaw
<1>8. Range(table'[r]) = Range(table[r]) \cup Range(new) /\ Len(table'[r]) = Len(table[r]) + n
    <2>1. /\ Range(table[r] \o new) = Range(table[r]) \cup Range(new)
          /\ Len(table[r] \o new) = Len(table[r]) + Len(new)
        BY <1>4, <1>6, ZenonT(40) DEF Laws, ConcatLaw
    <2> QED BY <1>1, <1>6, <2>1, Zenon
<1>9. Range(table[r]) \subseteq Occupied
    BY <1>1, OccupiedFacts
<1>10. status[r] \in LiveStatuses /\ status' = status
    BY <1>1, <1>2 DEF LiveStatuses
<1>11. Len(table'[r]) = Len(table[r]) + 0 + n
    BY <1>1, <1>4, <1>8
<1>12. Commits(r, Range(new), 0, new, FALSE)
    BY <1>1, <1>2, <1>3, <1>5, <1>6, <1>7, <1>8, <1>9, <1>10, <1>11, Zenon DEF Commits
<1> QED BY <1>1, <1>12, Zenon

\* What can_allocate has granted a request that is not admitted yet.
LEMMA GrantFacts ==
    ASSUME Laws, Structure, AdmissionOK, NEW r \in Request, NEW hits, NEW external, NEW new,
           Granted(r, hits, external, new), Managed, r \notin Admitted
    PROVE  /\ admission_demand(r, Len(table[r]) + Len(hits)) <= uncommitted_blocks
           /\ Affordable(r, Demand(r, hits, external), borrow_reserved)
           /\ Demand(r, hits, external) \in Nat /\ Len(new) <= Demand(r, hits, external) /\ Len(new) \in Nat
           /\ admission_demand(r, Len(table[r]) + Len(hits)) <= Demand(r, hits, external)
<1>1. ~CapacityDenied(r, Demand(r, hits, external)) /\ ~ReservationDenied(r, Demand(r, hits, external))
    BY Zenon DEF Granted, can_allocate
<1>2. Len(hits) \in Nat /\ Len(new) \in Nat /\ Len(new) = StepDemand(r, hits, external)
    BY Zenon DEF Granted, Laws, RangeLaw
<1>3. Len(table[r]) \in Nat
    BY TokenFacts, Zenon
<1>4. admission_demand(r, Len(table[r]) + Len(hits)) \in Nat
    <2>1. Len(table[r]) + Len(hits) \in Nat
        BY <1>2, <1>3
    <2> QED BY <2>1, DemandFacts, Zenon
<1>5. uncommitted_blocks \in Int
    BY CommittedFacts
<1>6. /\ Demand(r, hits, external) \in Nat /\ Len(new) <= Demand(r, hits, external)
      /\ admission_demand(r, Len(table[r]) + Len(hits)) <= Demand(r, hits, external)
    BY <1>2, <1>4 DEF Demand, Larger
<1>7. ~(Demand(r, hits, external) > uncommitted_blocks)
    BY <1>1 DEF CapacityDenied
<1>8. Affordable(r, Demand(r, hits, external), borrow_reserved)
    BY <1>1 DEF ReservationDenied
<1> HIDE DEF Demand
<1> QED BY <1>2, <1>4, <1>5, <1>6, <1>7, <1>8

\* A waiting request that starts is a commitment.
LEMMA WaitingCommits ==
    ASSUME Laws, Structure, Structure', AdmissionOK, NEW r \in Request, NEW hits, NEW external, NEW new,
           Granted(r, hits, external, new), Starts(r, table[r] \o hits \o new, hits, external)
    PROVE  \E N, h, blocks, borrow : Commits(r, N, h, blocks, borrow)
<1> DEFINE blocks == table[r] \o hits \o new
<1>1. /\ r \in Range(waiting) \cup Range(skipped_waiting) /\ status[r] = "waiting"
      /\ hits \in Seq(Block) /\ Range(hits) \subseteq Occupied
      /\ new \in Seq(Block) /\ Range(new) \subseteq Unused /\ IsInjective(new)
      /\ Len(new) <= AtLeast0(NumTokens(r) - Len(table[r]) - Len(hits))
      /\ pc = "waiting"
    BY Zenon DEF Granted
<1>2. /\ UNCHANGED <<mode, output, plan, reserve_ratio, pc>>
      /\ table' = [table EXCEPT ![r] = blocks]
      /\ commit(r, blocks, borrow_reserved)
      /\ status' \in {[status EXCEPT ![r] = "loading"], [status EXCEPT ![r] = "running"]}
    BY Zenon DEF Starts, plan_vars
<1>3. DOMAIN table = Request /\ DOMAIN status = Request /\ table[r] \in Seq(Block) /\ Len(table[r]) \in Nat
    BY TokenFacts, Zenon DEF Structure, RequestsOK, QueuesOK
<1>4. /\ table'[r] = blocks /\ status'[r] \in LiveStatuses /\ status[r] \in LiveStatuses
      /\ \A q \in Request : q # r => status'[q] = status[q] /\ table'[q] = table[q]
    <2> HIDE DEF blocks
    <2> QED BY <1>1, <1>2, <1>3 DEF LiveStatuses
<1>5. /\ blocks \in Seq(Block) /\ Range(blocks) = Range(table[r]) \cup Range(hits) \cup Range(new)
      /\ Len(blocks) = Len(table[r]) + Len(hits) + Len(new) /\ Len(hits) \in Nat /\ Len(new) \in Nat
    <2>1. /\ table[r] \o hits \in Seq(Block) /\ Range(table[r] \o hits) = Range(table[r]) \cup Range(hits)
          /\ Len(table[r] \o hits) = Len(table[r]) + Len(hits)
        BY <1>1, <1>3, Zenon DEF Laws, ConcatLaw
    <2>2. /\ blocks \in Seq(Block) /\ Range(blocks) = Range(table[r] \o hits) \cup Range(new)
          /\ Len(blocks) = Len(table[r] \o hits) + Len(new)
        BY <1>1, <2>1, Zenon DEF Laws, ConcatLaw
    <2>3. Len(hits) \in Nat /\ Len(new) \in Nat
        BY <1>1, Zenon DEF Laws, RangeLaw
    <2> QED BY <2>1, <2>2, <2>3, Zenon
<1>6. Cardinality(Range(new)) = Len(new)
    BY <1>1, Zenon DEF Laws, InjectiveLaw
<1>7. Range(table[r]) \subseteq Occupied
    BY OccupiedFacts
<1>8. ASSUME Managed, r \notin Admitted
      PROVE  /\ admission_demand(r, Len(table[r]) + Len(hits)) <= uncommitted_blocks
             /\ Paid(r, Len(table[r]) + Len(hits), borrow_reserved)
    <2>1. /\ admission_demand(r, Len(table[r]) + Len(hits)) <= uncommitted_blocks
          /\ Affordable(r, Demand(r, hits, external), borrow_reserved)
          /\ Demand(r, hits, external) \in Nat
          /\ admission_demand(r, Len(table[r]) + Len(hits)) <= Demand(r, hits, external)
        BY <1>8, GrantFacts, Zenon
    <2> QED BY <2>1, Zenon DEF Paid
<1>9. InStep /\ InStep'
    BY <1>1, <1>2 DEF InStep
<1> HIDE DEF blocks
<1>10. /\ Range(table[r]) \subseteq Range(blocks) /\ Range(new) \subseteq Range(blocks)
       /\ Range(blocks) \subseteq Occupied \cup Range(new)
    BY <1>1, <1>5, <1>7
<1>11. Commits(r, Range(new), Len(hits), blocks, borrow_reserved)
    BY <1>1, <1>2, <1>4, <1>5, <1>6, <1>8, <1>9, <1>10, Zenon DEF Commits
<1> QED BY <1>11

\* Outputs, aborts and the late load of an aborted request only free blocks.
LEMMA FreeingSteps ==
    ASSUME Laws, Structure, Structure', AdmissionOK,
           \/ \E S \in SUBSET Request : update_from_output(S)
           \/ \E r \in Request : finish_requests(r)
           \/ \E r \in Request : finished_recving(r) /\ status[r] # "loading"
    PROVE  AdmissionOK' /\ \E F, Kept : Frees(F, Kept)
<1>1. PICK F, Kept : _free_requests(F, Kept)
    BY Zenon DEF update_from_output, finish_requests, finished_recving
<1>2. pc' \in {"idle", "executing"} /\ UNCHANGED <<mode, plan, reserve_ratio, history>>
    BY Zenon DEF update_from_output, finish_requests, finished_recving, plan_vars
<1>3. ~InStep' /\ pc' # "crashed"
    BY <1>2 DEF InStep
<1>4. AdmissionOK'
    BY <1>1, <1>3, AdmissionFree
<1> QED BY <1>1, <1>2, <1>3, <1>4 DEF Frees

BooksStep ==
    /\ AdmissionOK'
    /\ \/ begin_step
       \/ Quiet
       \/ \E r \in Request : \E N, h, blocks, borrow : Commits(r, N, h, blocks, borrow)
       \/ \E r, v \in Range(running) : _preempt_request(r, v)
       \/ \E F, Kept : Frees(F, Kept)

\* For the books, every step is quiet, a commitment, a plan, a preemption or a release.
LEMMA StepKinds ==
    ASSUME Laws, Structure, Structure', AdmissionOK, [Next]_vars
    PROVE  BooksStep
<1>1. ASSUME NEW r \in Request, NEW N, NEW h, NEW blocks, NEW borrow, Commits(r, N, h, blocks, borrow) PROVE BooksStep
    <2>1. AdmissionOK'
        BY <1>1, AdmissionCommit DEF Commits
    <2> QED BY <1>1, <2>1, Zenon DEF BooksStep
<1>2. CASE begin_step
    BY <1>2, AdmissionBegin, Zenon DEF BooksStep
<1>3. CASE \/ growth_deferred \/ second_turn \/ end_step \/ UNCHANGED vars
           \/ \E r \in Request : defer(r)
           \/ \E r \in Request : \E blocks : Crashes(r, blocks)
    BY <1>3, QuietSteps, Zenon DEF BooksStep
<1>4. CASE \E r \in Request : promote_blocked \/ add_request(r) \/ (finished_recving(r) /\ status[r] = "loading")
    BY <1>4, RelabellingSteps, Zenon DEF BooksStep
<1>5. CASE promote_blocked
    <2>1. PICK r \in Request : status[r] \in {"loading", "loaded"}
        BY <1>5, StructurePromote
    <2> QED BY <1>4, <1>5, <2>1, Zenon
<1>6. ASSUME NEW r \in Range(running), schedule_running(r) PROVE BooksStep
    BY <1>1, <1>6, RunningCommits, Zenon
<1>7. ASSUME NEW r \in Range(running), NEW v \in Range(running), _preempt_request(r, v) PROVE BooksStep
    BY <1>7, AdmissionPreempt, Zenon DEF BooksStep
<1>8. ASSUME NEW r \in Request, schedule_waiting(r) PROVE BooksStep
    <2>1. PICK hits, external, new :
             /\ Granted(r, hits, external, new)
             /\ Crashes(r, table[r] \o hits \o new) \/ Starts(r, table[r] \o hits \o new, hits, external)
        BY <1>8, ScheduleWaitingFacts
    <2>2. CASE Crashes(r, table[r] \o hits \o new)
        BY <1>3, <2>2, Zenon
    <2>3. CASE Starts(r, table[r] \o hits \o new, hits, external)
        <3>1. PICK N, h, blocks, borrow : Commits(r, N, h, blocks, borrow)
            BY <2>1, <2>3, WaitingCommits, Zenon
        <3> QED BY <1>1, <3>1, Zenon
    <2> QED BY <2>1, <2>2, <2>3, Zenon
<1>9. CASE \/ \E S \in SUBSET Request : update_from_output(S)
           \/ \E r \in Request : finish_requests(r)
           \/ \E r \in Request : finished_recving(r) /\ status[r] # "loading"
    BY <1>9, FreeingSteps, Zenon DEF BooksStep
<1>10. CASE Engine
    BY <1>2, <1>3, <1>5, <1>6, <1>7, <1>8, <1>9, <1>10, Zenon DEF Engine
<1>11. CASE Next
    <2>1. CASE Idle
        BY <1>3, <2>1, Zenon DEF Idle
    <2>2. CASE \E r \in Request : finished_recving(r)
        BY <1>4, <1>9, <2>2, Zenon
    <2> QED BY <1>4, <1>9, <1>10, <1>11, <2>1, <2>2, Zenon DEF Next
<1> QED BY <1>3, <1>11, Zenon

-----------------------------------------------------------------------------
(* One charge per occupied block *)

\* The blocks in use once request r has the blocks in N.
LEMMA CommitsOccupied ==
    ASSUME Structure, NEW r \in Request, NEW N, NEW h, NEW blocks, NEW borrow, Commits(r, N, h, blocks, borrow)
    PROVE  Occupied' = Occupied \cup N
<1>1. \A q \in Request : q # r => table'[q] = table[q]
    BY DEF Commits
<1>2. /\ Range(table[r]) \subseteq Range(table'[r]) /\ N \subseteq Range(table'[r])
      /\ Range(table'[r]) \subseteq Occupied \cup N
    BY DEF Commits
<1>3. \A b : b \in Occupied <=> \E q \in Request : b \in Range(table[q])
    BY DEF Occupied
<1>4. \A b : b \in Occupied' <=> \E q \in Request : b \in Range(table'[q])
    BY DEF Occupied
<1> QED BY <1>1, <1>2, <1>3, <1>4

\* Requests lose their blocks, or keep them.
LEMMA FreesOccupied ==
    ASSUME Laws, \A q \in Request : table'[q] = table[q] \/ table'[q] = <<>>
    PROVE  Occupied' \subseteq Occupied
<1>1. \A b : b \in Occupied <=> \E q \in Request : b \in Range(table[q])
    BY DEF Occupied
<1>2. \A b : b \in Occupied' <=> \E q \in Request : b \in Range(table'[q])
    BY DEF Occupied
<1>3. \A b : b \notin Range(<<>>)
    BY DEF Laws, EmptyLaw
<1> QED BY <1>1, <1>2, <1>3, Zenon

\* What commit charges.
LEMMA ChargedFacts ==
    ASSUME NEW B, NEW usage, NEW c \in ChargedWith(B, usage)
    PROVE  /\ DOMAIN c = DOMAIN charges \cup B
           /\ \A b \in DOMAIN c : c[b] \in DOMAIN usage \/ (b \in DOMAIN charges /\ c[b] = charges[b])
<1>1. PICK owner \in [B -> DOMAIN usage] :
         c = [b \in DOMAIN charges \cup B |-> IF b \in B THEN owner[b] ELSE charges[b]]
    BY DEF ChargedWith
<1> QED BY <1>1

\* With no load aborted, every step keeps the charges exact.
LEMMA ChargesNext ==
    ASSUME Laws, NoLoadAborted, Structure, AdmissionOK, ChargesExact, BooksStep
    PROVE  ChargesExact'
<1>1. CASE Quiet
    BY <1>1 DEF Quiet, ChargesExact, Occupied, account_vars
<1>2. ASSUME NEW r \in Request, NEW N, NEW h, NEW blocks, NEW borrow, Commits(r, N, h, blocks, borrow)
      PROVE  ChargesExact'
    <2>1. Occupied' = Occupied \cup N
        BY <1>2, CommitsOccupied
    <2>2. /\ commit(r, blocks, borrow) /\ (accounting_active <=> Managed)
          /\ N \subseteq Range(blocks) /\ Range(blocks) \subseteq Occupied \cup N
        BY <1>2, Zenon DEF Commits, AdmissionOK
    <2>3. CASE Managed
        <3> DEFINE new == Range(blocks) \ DOMAIN charges
        <3>1. charges' \in ChargedWith(new, Accepted(r, new, borrow))
            BY <2>2, <2>3, Zenon DEF commit
        <3> HIDE DEF new
        <3>2. DOMAIN charges' = DOMAIN charges \cup new
            BY <3>1, ChargedFacts, Zenon
        <3>3. DOMAIN charges = Occupied
            BY <2>2, <2>3 DEF ChargesExact
        <3> QED BY <2>1, <2>2, <3>2, <3>3, Zenon DEF ChargesExact, new
    <2>4. CASE ~Managed
        BY <2>2, <2>4, Zenon DEF commit, account_vars, ChargesExact
    <2> QED BY <2>3, <2>4
<1>3. ASSUME charges' = IF accounting_active THEN Drop(charges, DOMAIN charges \ Occupied') ELSE charges,
             accounting_active' = accounting_active, Occupied' \subseteq Occupied
      PROVE  ChargesExact'
    <2>1. accounting_active => DOMAIN charges' = DOMAIN charges \cap Occupied'
        BY <1>3 DEF Drop
    <2> QED BY <1>3, <2>1 DEF ChargesExact
<1>4. ASSUME NEW r \in Range(running), NEW v \in Range(running), _preempt_request(r, v) PROVE ChargesExact'
    <2>1. Occupied' \subseteq Occupied
        BY <1>4, StructurePreempt, FreesOccupied
    <2> QED BY <1>3, <1>4, <2>1 DEF _preempt_request
<1>5. ASSUME NEW F, NEW Kept, Frees(F, Kept) PROVE ChargesExact'
    <2>1. table' = [r \in Request |-> IF r \in F \ Kept THEN <<>> ELSE table[r]]
        BY <1>5, Zenon DEF Frees, _free_requests
    <2>2. Occupied' \subseteq Occupied
        BY <2>1, FreesOccupied
    <2> QED BY <1>3, <1>5, <2>2 DEF Frees, _free_requests
<1>6. CASE begin_step
    <2>1. UNCHANGED <<table, running>> /\ Occupied' = Occupied
        BY <1>6 DEF begin_step, request_vars, queue_vars, Occupied
    <2>2. CASE ~Managed
        BY <1>6, <2>2 DEF begin_step, begin_step_idle, ChargesExact
    <2>3. CASE Managed
        <3> DEFINE adopted == IF accounting_active THEN {}
                              ELSE UNION {Range(table[r]) : r \in Queued \cup Range(running)}
        <3>1. DOMAIN charges' = (DOMAIN charges \cap Occupied) \cup adopted
            BY <1>6, <2>3 DEF begin_step, begin_step_agents, AdoptedCharges
        <3>2. CASE accounting_active
            BY <2>1, <3>1, <3>2 DEF ChargesExact
        <3>3. CASE ~accounting_active
            <4>1. Queued \cup Range(running) = {r \in Request : status[r] \in LiveStatuses}
                <5>1. /\ waiting \in Seq(Request) /\ skipped_waiting \in Seq(Request) /\ step_skipped = <<>>
                      /\ Range(running) = {r \in Request : status[r] = "running"}
                      /\ Range(waiting) \cup Range(skipped_waiting) \cup Range(step_skipped)
                            = {r \in Request : status[r] \in {"waiting", "loading", "loaded"}}
                    BY <1>6 DEF begin_step, Structure, QueuesOK
                <5>2. Queued = Range(skipped_waiting) \cup Range(waiting) /\ Range(step_skipped) = {}
                    BY <5>1 DEF Queued, Laws, ConcatLaw, EmptyLaw
                <5> QED BY <5>1, <5>2 DEF LiveStatuses
            <4>2. \A r \in Request : table[r] # <<>> => status[r] \in LiveStatuses
                BY Zenon DEF Structure, RequestsOK, RequestOK, NoLoadAborted
            <4>3. \A r \in Request : table[r] # <<>> => r \in Queued \cup Range(running)
                BY <4>1, <4>2
            <4>4. adopted = UNION {Range(table[r]) : r \in Queued \cup Range(running)}
                BY <3>3
            <4>5. \A b : b \in adopted <=> \E r \in Queued \cup Range(running) : b \in Range(table[r])
                BY <4>4
            <4>6. \A b : b \in Occupied <=> \E r \in Request : b \in Range(table[r])
                BY DEF Occupied
            <4>7. \A b : b \notin Range(<<>>)
                BY DEF Laws, EmptyLaw
            <4> HIDE DEF adopted
            <4>8. adopted = Occupied
                BY <4>1, <4>3, <4>5, <4>6, <4>7, Zenon
            <4> QED BY <2>1, <3>1, <4>8 DEF ChargesExact
        <3> QED BY <3>2, <3>3
    <2> QED BY <2>2, <2>3
<1> QED BY <1>1, <1>2, <1>4, <1>5, <1>6, Zenon DEF BooksStep

-----------------------------------------------------------------------------
(* Loads are admitted *)

\* With loads only for annotated requests, every step keeps loading requests admitted.
LEMMA LoadsNext ==
    ASSUME Laws, AgentsLoad, Structure, Structure', AdmissionOK, LoadsAdmitted, BooksStep
    PROVE  LoadsAdmitted'
<1>0. LoadsAdmitted <=> (accounting_active => \A q \in Request : HoldsLoad(status[q], table[q]) => q \in Admitted)
    BY DEF LoadsAdmitted, HoldsLoad
<1>1. SUFFICES ASSUME accounting_active', NEW q \in Request, HoldsLoad(status'[q], table'[q])
               PROVE  q \in Admitted'
    BY DEF LoadsAdmitted, HoldsLoad
<1>2. CASE Quiet
    BY <1>0, <1>1, <1>2 DEF Quiet, account_vars, Admitted
<1>3. ASSUME NEW r \in Request, NEW N, NEW h, NEW blocks, NEW borrow, Commits(r, N, h, blocks, borrow)
      PROVE  q \in Admitted'
    <2>1. accounting_active' = accounting_active /\ (accounting_active => Admitted' = Admitted \cup {r})
        BY <1>3, AdmissionCommit, Zenon DEF Commits
    <2>2. q # r => status'[q] = status[q] /\ table'[q] = table[q]
        BY <1>3, Zenon DEF Commits
    <2> QED BY <1>0, <1>1, <2>1, <2>2
<1>4. ASSUME NEW r \in Range(running), NEW v \in Range(running), _preempt_request(r, v) PROVE q \in Admitted'
    <2>1. /\ accounting_active' = accounting_active /\ status' = [status EXCEPT ![v] = "waiting"]
          /\ prefill_limits' = Drop(prefill_limits, {v})
        BY <1>4 DEF _preempt_request
    <2>2. table'[q] = IF q = v THEN <<>> ELSE table[q]
        BY <1>4, StructurePreempt, Zenon
    <2>3. status'[q] = IF q = v THEN "waiting" ELSE status[q]
        BY <2>1, Zenon DEF Structure, QueuesOK
    <2>4. q # v
        BY <1>1, <2>2, <2>3, Zenon DEF HoldsLoad
    <2>5. q \in Admitted
        BY <1>0, <1>1, <2>1, <2>2, <2>3, <2>4, Zenon
    <2> QED BY <2>1, <2>4, <2>5 DEF Admitted, Drop
<1>5. ASSUME NEW F, NEW Kept, Frees(F, Kept) PROVE q \in Admitted'
    <2>1. /\ status' = [r \in Request |-> IF r \in F \cap Kept THEN "aborted"
                                          ELSE IF r \in F THEN "finished" ELSE status[r]]
          /\ table' = [r \in Request |-> IF r \in F \ Kept THEN <<>> ELSE table[r]]
          /\ prefill_limits' = Drop(prefill_limits, F) /\ accounting_active' = accounting_active
        BY <1>5, Zenon DEF Frees, _free_requests
    <2>2. q \notin F
        BY <1>1, <2>1, Zenon DEF HoldsLoad
    <2>3. q \in Admitted
        BY <1>0, <1>1, <2>1, <2>2
    <2> QED BY <2>1, <2>2, <2>3 DEF Admitted, Drop
<1>6. CASE begin_step
    <2>1. /\ Admitted' = Admitted \cup Range(running) /\ UNCHANGED <<status, table>> /\ Managed
        BY <1>1, <1>6, AdmissionBegin DEF request_vars
    <2>2. CASE accounting_active
        BY <1>0, <1>1, <2>1, <2>2
    <2>3. CASE ~accounting_active
        <3>1. RequestOK(status[q], output[q], computed[q], table[q], cached[q], q)
            BY Zenon DEF Structure, RequestsOK
        <3>2. q \in Loading
            BY <1>1, <2>1, <3>1, Zenon DEF RequestOK, HoldsLoad
        <3>3. q \in Annotated /\ Live(q)
            BY <1>1, <2>1, <3>2 DEF AgentsLoad, Live, HoldsLoad
        <3>4. status[q] = "waiting" /\ table[q] = <<>>
            BY <2>3, <3>3 DEF AdmissionOK
        <3> QED BY <1>1, <2>1, <3>4 DEF HoldsLoad
    <2> QED BY <2>2, <2>3
<1> QED BY <1>2, <1>3, <1>4, <1>5, <1>6, Zenon DEF BooksStep

-----------------------------------------------------------------------------
(* Commitments fit *)

\* Blocks request r can still ask for when generation is reserved for all.
FullGrowth == [r \in Request |-> AtLeast0((NumPromptTokens[r] + MaxTokens[r]) - Len(table[r]))]

Promised == SumFunctionOnSet(FullGrowth, Admitted)

\* Commitments exceed the free blocks at most while no agent is admitted.
Covered ==
    mode = "all" /\ accounting_active => uncommitted_blocks >= 0 \/ Admitted \cap Annotated = {}

AllReserved ==
    /\ NumFreeBlocks \in Nat /\ IsFiniteSet(Unused) /\ IsFiniteSet(Admitted) /\ Admitted \subseteq Request
    /\ FullGrowth \in [Request -> Nat] /\ Promised \in Nat
    /\ mode = "all" => uncommitted_blocks = NumFreeBlocks - Promised

\* What is reserved for an admitted request counts all it may still need.
LEMMA AllReservedFacts == Laws /\ Structure /\ AdmissionOK => AllReserved
<1> SUFFICES ASSUME Laws, Structure, AdmissionOK PROVE AllReserved
    OBVIOUS
<1>1. IsFiniteSet(Admitted) /\ Admitted \subseteq Request
    BY GrowthFacts
<1>2. NumFreeBlocks \in Nat /\ IsFiniteSet(Unused)
    BY BlockFacts
<1>3. FullGrowth \in [Request -> Nat]
    <2>1. ASSUME NEW r \in Request PROVE AtLeast0((NumPromptTokens[r] + MaxTokens[r]) - Len(table[r])) \in Nat
        <3>1. NumPromptTokens[r] \in Nat /\ MaxTokens[r] \in Nat /\ Len(table[r]) \in Nat
            BY TokenFacts
        <3> QED BY <3>1 DEF AtLeast0
    <2> QED BY <2>1 DEF FullGrowth
<1>4. Promised \in Nat
    <2>1. \A r \in Admitted : FullGrowth[r] \in Nat
        BY <1>1, <1>3
    <2> QED BY <1>1, <2>1, Zenon DEF Promised, Laws, SumNatLaw
<1>5. ASSUME mode = "all" PROVE uncommitted_blocks = NumFreeBlocks - Promised
    <2> DEFINE a == [r \in Admitted |-> _remaining_growth(r)]
    <2>1. CommittedTo(reclaim_beneficiaries) = SumFunction(a)
        BY <1>5 DEF CommittedTo
    <2>2. \A r \in Admitted : a[r] = FullGrowth[r]
        <3>1. ASSUME NEW r \in Admitted PROVE a[r] = FullGrowth[r]
            <4>1. admission_tokens(r) = NumPromptTokens[r] + MaxTokens[r]
                BY <1>5 DEF admission_tokens
            <4>2. a[r] = AtLeast0(admission_tokens(r) - Len(table[r]))
                BY Zenon DEF _remaining_growth
            <4>3. FullGrowth[r] = AtLeast0((NumPromptTokens[r] + MaxTokens[r]) - Len(table[r]))
                BY <1>1, Zenon DEF FullGrowth
            <4> QED BY <4>1, <4>2, <4>3, Zenon
        <3> QED BY <3>1, Zenon
    <2>3. DOMAIN a = Admitted
        OBVIOUS
    <2> HIDE DEF a
    <2>4. SumFunction(a) = Promised
        BY <1>1, <2>2, <2>3, Zenon DEF SumFunction, Promised, Laws, SumSameLaw
    <2> QED BY <2>1, <2>4 DEF uncommitted_blocks
<1> QED BY <1>1, <1>2, <1>3, <1>4, <1>5 DEF AllReserved

\* The same after a step.
LEMMA AllReservedNext ==
    ASSUME Laws, Structure', AdmissionOK'
    PROVE  AllReserved'
BY AllReservedFacts, PTL

\* Of the tokens t, l have a block, h get a cached one and k a new one.
LEMMA GrowthArithmetic ==
    ASSUME NEW t \in Nat, NEW m \in Nat, m <= t, NEW l \in Nat, NEW h \in Nat, NEW k \in Nat,
           k <= AtLeast0(m - l - h)
    PROVE  /\ AtLeast0(t - (l + h + k)) + k <= AtLeast0(t - l)
           /\ AtLeast0(t - (l + h + k)) + k <= AtLeast0(t - (l + h))
BY DEF AtLeast0

\* Every step keeps what the admitted requests may still need covered by what is free.
LEMMA CoveredNext ==
    ASSUME Laws, Structure, Structure', AdmissionOK, Covered, BooksStep
    PROVE  Covered'
<1>0. AdmissionOK' /\ AllReserved /\ AllReserved'
    BY AllReservedFacts, AllReservedNext DEF BooksStep
<1>1. SUFFICES ASSUME mode' = "all", accounting_active', ~(Admitted' \cap Annotated = {})
               PROVE  Promised' <= NumFreeBlocks'
    <2>1. mode' = "all" => uncommitted_blocks' = NumFreeBlocks' - Promised' /\ NumFreeBlocks' \in Nat /\ Promised' \in Nat
        BY <1>0 DEF AllReserved
    <2> QED BY <2>1 DEF Covered
<1>2. ASSUME mode = "all", accounting_active, ~(Admitted \cap Annotated = {})
      PROVE  Promised <= NumFreeBlocks
    BY <1>0, <1>2 DEF AllReserved, Covered
<1>3. ASSUME table' = table PROVE FullGrowth' = FullGrowth /\ NumFreeBlocks' = NumFreeBlocks
    BY <1>3 DEF FullGrowth, NumFreeBlocks, Unused, Occupied
<1>4. CASE Quiet
    <2>1. UNCHANGED <<mode, table, accounting_active, prefill_limits>>
        BY <1>4, Zenon DEF Quiet, account_vars
    <2>2. Admitted' = Admitted
        BY <2>1 DEF Admitted
    <2>3. Promised' = Promised
        BY <1>3, <2>1, <2>2 DEF Promised
    <2> QED BY <1>1, <1>2, <1>3, <2>1, <2>2, <2>3
<1>5. CASE begin_step
    <2>1. /\ mode' = mode /\ Managed /\ Admitted' = Admitted \cup Range(running) /\ UNCHANGED <<status, table, running>>
        BY <1>1, <1>5, AdmissionBegin, Zenon DEF begin_step, request_vars
    <2>2. CASE accounting_active
        <3>1. Admitted' = Admitted
            BY <2>1, <2>2 DEF AdmissionOK
        <3>2. Promised' = Promised
            BY <1>3, <2>1, <3>1 DEF Promised
        <3> QED BY <1>1, <1>2, <1>3, <2>1, <2>2, <3>1, <3>2
    <2>3. CASE ~accounting_active
        <3>1. Admitted = {} /\ \A r \in Annotated : Live(r) => status[r] = "waiting"
            BY <2>3 DEF AdmissionOK
        <3>2. \A r \in Range(running) : r \in Request /\ status[r] = "running" /\ Live(r)
            BY DEF Structure, QueuesOK, Live
        <3> QED BY <1>1, <2>1, <3>1, <3>2
    <2> QED BY <2>2, <2>3
\* Blocks are freed, and requests leave.
<1>6. ASSUME mode' = mode, accounting_active' = accounting_active, Admitted' \subseteq Admitted,
             Occupied' \subseteq Occupied, \A q \in Admitted' : table'[q] = table[q]
      PROVE  Promised' <= NumFreeBlocks'
    <2>1. Promised <= NumFreeBlocks
        BY <1>1, <1>2, <1>6
    <2>2. NumFreeBlocks <= NumFreeBlocks' /\ NumFreeBlocks' \in Nat /\ NumFreeBlocks \in Nat
        <3>1. Unused \subseteq Unused'
            BY <1>6 DEF Unused
        <3>2. IsFiniteSet(Unused')
            BY <1>0 DEF AllReserved
        <3>3. Cardinality(Unused) <= Cardinality(Unused')
            BY <3>1, <3>2, Zenon DEF Laws, FiniteLaw
        <3> QED BY <1>0, <3>3 DEF AllReserved, NumFreeBlocks
    <2>3. Promised' <= Promised
        <3> DEFINE A == Admitted'  g == FullGrowth'
        <3>1. /\ IsFiniteSet(Admitted) /\ A \in SUBSET Admitted /\ Admitted \subseteq Request
              /\ \A q \in Admitted : FullGrowth[q] \in Nat
            BY <1>0, <1>6 DEF AllReserved
        <3>2. \A q \in A : g[q] = FullGrowth[q]
            BY <1>6, <3>1 DEF FullGrowth
        <3>3. Promised' = SumFunctionOnSet(g, A)
            BY DEF Promised
        <3> HIDE DEF A, g
        <3>4. IsFiniteSet(A)
            BY <3>1, Zenon DEF Laws, FiniteLaw
        <3>5. SumFunctionOnSet(g, A) = SumFunctionOnSet(FullGrowth, A)
            BY <3>2, <3>4, Zenon DEF Laws, SumSameLaw
        <3>6. SumFunctionOnSet(FullGrowth, A) <= SumFunctionOnSet(FullGrowth, Admitted)
            BY <3>1, Zenon DEF Laws, SumNatLaw
        <3> QED BY <3>3, <3>5, <3>6 DEF Promised
    <2> QED BY <1>0, <2>1, <2>2, <2>3 DEF AllReserved
<1>7. ASSUME NEW r \in Range(running), NEW v \in Range(running), _preempt_request(r, v)
      PROVE  Promised' <= NumFreeBlocks'
    <2>1. \A q \in Request : table'[q] = IF q = v THEN <<>> ELSE table[q]
        BY <1>7, StructurePreempt, Zenon
    <2>2. Occupied' \subseteq Occupied
        BY <2>1, FreesOccupied
    <2>3. UNCHANGED <<mode, accounting_active>> /\ prefill_limits' = Drop(prefill_limits, {v})
        BY <1>7 DEF _preempt_request
    <2>4. Admitted' = Admitted \ {v} /\ Admitted \subseteq Request
        BY <1>0, <2>3 DEF Admitted, Drop, AllReserved
    <2> QED BY <1>6, <2>1, <2>2, <2>3, <2>4, Zenon
<1>8. ASSUME NEW F, NEW Kept, Frees(F, Kept) PROVE Promised' <= NumFreeBlocks'
    <2>1. /\ UNCHANGED <<mode, accounting_active>> /\ prefill_limits' = Drop(prefill_limits, F)
          /\ table' = [r \in Request |-> IF r \in F \ Kept THEN <<>> ELSE table[r]]
        BY <1>8, Zenon DEF Frees, _free_requests
    <2>2. Occupied' \subseteq Occupied
        BY <2>1, FreesOccupied
    <2>3. Admitted' = Admitted \ F /\ Admitted \subseteq Request
        BY <1>0, <2>1, Zenon DEF Admitted, Drop, AllReserved
    <2>4. \A q \in Admitted' : table'[q] = table[q]
        BY <2>1, <2>3
    <2> QED BY <1>6, <2>1, <2>2, <2>3, <2>4
<1>9. ASSUME NEW r \in Request, NEW N, NEW h, NEW blocks, NEW borrow, Commits(r, N, h, blocks, borrow)
      PROVE  Promised' <= NumFreeBlocks'
    <2> DEFINE t == NumPromptTokens[r] + MaxTokens[r]
               l == Len(table[r])
               k == Cardinality(N)
               R == SumFunctionOnSet(FullGrowth, Admitted \ {r})
    <2>1. /\ UNCHANGED <<mode, accounting_active>> /\ (accounting_active <=> Managed)
          /\ Admitted' = Admitted \cup {r}
        BY <1>1, <1>9, AdmissionCommit, Zenon DEF Commits
    <2>2. \A q \in Request : q # r => table'[q] = table[q]
        BY <1>9, Zenon DEF Commits
    <2>3. /\ Len(table'[r]) = l + h + k /\ h \in Nat /\ k \in Nat
          /\ k <= AtLeast0(NumTokens(r) - l - h)
        BY <1>9 DEF Commits
    <2>4. NumTokens(r) \in Nat /\ t \in Nat /\ NumTokens(r) <= t /\ l \in Nat
        <3>1. /\ NumPromptTokens[r] \in Nat /\ MaxTokens[r] \in Nat /\ output[r] \in Nat
              /\ output[r] < MaxTokens[r] /\ l \in Nat
            BY TokenFacts
        <3> QED BY <3>1, SMTT(30) DEF NumTokens
    <2>5. FullGrowth'[r] = AtLeast0(t - (l + h + k)) /\ FullGrowth[r] = AtLeast0(t - l)
        <3>1. FullGrowth'[r] = AtLeast0(t - Len(table'[r])) /\ FullGrowth[r] = AtLeast0(t - l)
            BY Zenon DEF FullGrowth
        <3> QED BY <2>3, <3>1, Zenon
    <2>6. r \notin Admitted => AtLeast0(t - (l + h)) <= NumFreeBlocks - Promised
        <3>1. ASSUME r \notin Admitted PROVE AtLeast0(t - (l + h)) <= NumFreeBlocks - Promised
            <4>1. admission_demand(r, l + h) <= uncommitted_blocks
                BY <1>1, <1>9, <2>1, <3>1, Zenon DEF Commits
            <4>2. mode = "all"
                BY <1>1, <2>1
            <4>3. uncommitted_blocks = NumFreeBlocks - Promised
                BY <1>0, <4>2 DEF AllReserved
            <4>4. l + h \in Nat
                BY <2>3, <2>4
            <4> HIDE DEF l
            <4>5. admission_demand(r, l + h) = AtLeast0(admission_tokens(r) - (l + h))
                BY <4>2, <4>4, DemandFacts
            <4>6. admission_tokens(r) = t
                BY <4>2 DEF admission_tokens
            <4> QED BY <4>1, <4>3, <4>5, <4>6, Zenon
        <3> QED BY <3>1
    <2>7. NumFreeBlocks' = NumFreeBlocks - k
        <3>1. Occupied' = Occupied \cup N /\ N \in SUBSET Unused /\ IsFiniteSet(Unused)
            BY <1>0, <1>9, CommitsOccupied, Zenon DEF Commits, AllReserved
        <3>2. Unused' = Unused \ N
            BY <3>1 DEF Unused
        <3>3. Cardinality(Unused \ N) = Cardinality(Unused) - Cardinality(N)
            BY <3>1, Zenon DEF Laws, FiniteLaw
        <3> QED BY <3>2, <3>3, Zenon DEF NumFreeBlocks
    <2>8. /\ AtLeast0(t - (l + h + k)) + k <= AtLeast0(t - l)
          /\ AtLeast0(t - (l + h + k)) + k <= AtLeast0(t - (l + h))
        BY <2>3, <2>4, GrowthArithmetic, Zenon
    <2>9. FullGrowth'[r] \in Nat /\ FullGrowth[r] \in Nat /\ NumFreeBlocks \in Nat /\ Promised \in Nat
        BY <1>0, Zenon DEF AllReserved
    <2>10. R \in Nat /\ Promised' = FullGrowth'[r] + R
        <3> DEFINE A == Admitted'  g == FullGrowth'
        <3>1. IsFiniteSet(A) /\ r \in A /\ A \ {r} = Admitted \ {r}
            BY <1>0, <2>1 DEF AllReserved
        <3>2. \A q \in A : g[q] \in Nat /\ g[q] \in Int
            BY <1>0 DEF AllReserved
        <3>3. \A q \in A \ {r} : g[q] = FullGrowth[q] /\ FullGrowth[q] \in Nat
            <4>1. A \subseteq Request
                BY <1>0 DEF AllReserved
            <4> QED BY <1>0, <2>2, <4>1 DEF FullGrowth, AllReserved
        <3>4. Promised' = SumFunctionOnSet(g, A) /\ g[r] = FullGrowth'[r]
            BY DEF Promised
        <3> HIDE DEF A, g
        <3>5. IsFiniteSet(A \ {r})
            BY <3>1, Zenon DEF Laws, FiniteLaw
        <3>6. SumFunctionOnSet(g, A) = g[r] + SumFunctionOnSet(g, A \ {r})
            BY <3>1, <3>2, Zenon DEF Laws, SumLaw
        <3>7. SumFunctionOnSet(g, A \ {r}) = SumFunctionOnSet(FullGrowth, A \ {r})
            BY <3>3, <3>5, Zenon DEF Laws, SumSameLaw
        <3>8. SumFunctionOnSet(FullGrowth, A \ {r}) \in Nat
            BY <3>3, <3>5, Zenon DEF Laws, SumNatLaw
        <3> QED BY <3>1, <3>4, <3>6, <3>7, <3>8, Zenon
    <2>11. r \in Admitted => Promised = FullGrowth[r] + R
        <3>1. IsFiniteSet(Admitted) /\ \A q \in Admitted : FullGrowth[q] \in Int
            BY <1>0 DEF AllReserved
        <3> QED BY <3>1, Zenon DEF Promised, Laws, SumLaw
    <2>12. r \notin Admitted => Promised = R
        <3>1. r \notin Admitted => Admitted \ {r} = Admitted
            OBVIOUS
        <3> QED BY <3>1, Zenon DEF Promised
    <2>13. r \in Admitted => Promised <= NumFreeBlocks
        <3>1. r \in Admitted => Admitted' = Admitted
            BY <2>1
        <3> QED BY <1>1, <1>2, <2>1, <3>1
    <2> HIDE DEF t, l, k, R
    <2> DEFINE a == AtLeast0(t - (l + h + k))  b == AtLeast0(t - l)  c == AtLeast0(t - (l + h))
    <2>14. a = FullGrowth'[r] /\ b = FullGrowth[r] /\ a + k <= b /\ a + k <= c
        BY <2>5, <2>8, Zenon
    <2>15. c \in Int
        BY <2>3, <2>4 DEF AtLeast0
    <2>16. r \notin Admitted => c <= NumFreeBlocks - Promised
        BY <2>6, Zenon
    <2> HIDE DEF a, b, c
    <2>17. CASE r \in Admitted
        <3> DEFINE x == Promised'  y == NumFreeBlocks'  p == Promised  u == NumFreeBlocks
        <3>1. /\ a \in Nat /\ b \in Nat /\ k \in Nat /\ R \in Nat /\ u \in Nat
              /\ x = a + R /\ y = u - k /\ p = b + R /\ p <= u /\ a + k <= b
            BY <2>3, <2>7, <2>9, <2>10, <2>11, <2>13, <2>14, <2>17, Zenon
        <3> HIDE DEF x, y, p, u
        <3>2. x <= y
            BY <3>1
        <3> QED BY <3>2, Zenon DEF x, y
    <2>18. CASE r \notin Admitted
        <3> DEFINE x == Promised'  y == NumFreeBlocks'  u == NumFreeBlocks
        <3>1. /\ a \in Nat /\ c \in Int /\ k \in Nat /\ R \in Nat /\ u \in Nat
              /\ x = a + R /\ y = u - k /\ c <= u - R /\ a + k <= c
            BY <2>3, <2>7, <2>9, <2>10, <2>12, <2>14, <2>15, <2>16, <2>18, Zenon
        <3> HIDE DEF x, y, u
        <3>2. x <= y
            BY <3>1
        <3> QED BY <3>2, Zenon DEF x, y
    <2> QED BY <2>17, <2>18
<1> QED BY <1>4, <1>5, <1>7, <1>8, <1>9, Zenon DEF BooksStep

-----------------------------------------------------------------------------
(* The partition and the books *)

PlanOK(p) ==
    /\ p.shared \in 0..num_blocks
    /\ DOMAIN p.reserved \subseteq AgentType
    /\ \A t \in DOMAIN p.reserved : p.reserved[t] \in 0..num_blocks

LedgerOK ==
    /\ history \subseteq AgentType /\ reserve_ratio \in 0..100 /\ PlanOK(plan)
    /\ DOMAIN charges \subseteq Block /\ \A b \in DOMAIN charges : charges[b] \in Owner

\* What payers have left.
Purses(a) == DOMAIN a \subseteq Owner /\ \A o \in DOMAIN a : a[o] \in 0..num_blocks

PursesOK == Purses(available) /\ (InStep /\ accounting_active => DOMAIN available = Critical \cup {Shared})

\* A share w of s, taken of a whole number.
LEMMA ShareFacts ==
    ASSUME NEW a \in Nat, NEW w \in Nat, NEW s \in Nat \ {0}, w <= s
    PROVE  (a * w) \div s \in 0..a
<1>1. a * w \in Nat /\ a * s \in Nat /\ a * w <= a * s
    OBVIOUS
<1> DEFINE p == a * w  q == p \div s
<1>2. q \in Nat /\ s * q <= p
    <2> HIDE DEF p
    <2>1. p \in Nat
        BY <1>1 DEF p
    <2> QED BY <2>1
<1>3. s * q <= s * a
    BY <1>1, <1>2
<1> HIDE DEF q
<1>4. q <= a
    BY <1>2, <1>3
<1> QED BY <1>2, <1>4 DEF q

\* A product of positive numbers is positive.
LEMMA ProductFacts ==
    ASSUME NEW a \in Nat \ {0}, NEW b \in Nat \ {0}
    PROVE  a * b \in Nat \ {0}
OBVIOUS

\* A sum of naturals is a natural that bounds each of them.
LEMMA SumBounds ==
    ASSUME Laws, NEW S, IsFiniteSet(S), NEW f, \A x \in S : f[x] \in Nat
    PROVE  SumFunctionOnSet(f, S) \in Nat /\ \A y \in S : f[y] <= SumFunctionOnSet(f, S)
<1>1. \A T \in SUBSET S : SumFunctionOnSet(f, T) \in Nat
    BY Zenon DEF Laws, SumNatLaw
<1>2. \A x \in S : f[x] \in Int
    OBVIOUS
<1>3. \A y \in S : SumFunctionOnSet(f, S) = f[y] + SumFunctionOnSet(f, S \ {y})
    BY <1>2, Zenon DEF Laws, SumLaw
<1>4. ASSUME NEW y \in S PROVE f[y] <= SumFunctionOnSet(f, S)
    <2>1. SumFunctionOnSet(f, S \ {y}) \in Nat /\ SumFunctionOnSet(f, S) = f[y] + SumFunctionOnSet(f, S \ {y})
        BY <1>1, <1>3, Zenon
    <2> QED BY <2>1, SMTT(30)
<1> QED BY <1>1, <1>4

\* partition_capacity gives no part more than the pool has.
LEMMA PartitionFacts ==
    ASSUME Laws, NEW T \in SUBSET AgentType, NEW score \in [AgentType -> Nat \ {0}],
           NEW used, \A t \in T : used[t] \in Nat, NEW ratio \in 0..100
    PROVE  PlanOK(partition_capacity(T, score, used, ratio))
<1> DEFINE Above(t, u) == score[t] > score[u] \/ (score[t] = score[u] /\ t > u)
           size == Larger(1, (Cardinality(T) * critical_ratio) \div 100)
           critical == {t \in T : Cardinality({u \in T : Above(u, t)}) < size}
           reserved == IF critical = {} THEN 0 ELSE (num_blocks * ratio) \div 100
           in_use == SumFunctionOnSet(used, T)
           total == SumFunctionOnSet(score, critical)
           weight == [t \in critical |->
                        IF in_use = 0 THEN score[t]
                        ELSE Larger(2 * score[t] * in_use, used[t] * total + score[t] * in_use)]
           sum == SumFunction(weight)
           count == [t \in critical |-> (reserved * weight[t]) \div sum]
           Rest(t) == (reserved * weight[t]) % sum
           Before(t) == {u \in critical : Rest(u) > Rest(t) \/ (Rest(u) = Rest(t) /\ u > t)}
           rounded == {t \in critical : Cardinality(Before(t)) < reserved - SumFunction(count)}
           part == [scores |-> [t \in T |-> score[t]],
                    reserved |-> [t \in critical |-> count[t] + IF t \in rounded THEN 1 ELSE 0],
                    shared |-> num_blocks - reserved]
<1>1. partition_capacity(T, score, used, ratio) = part
    BY Zenon DEF partition_capacity
<1>2. IsFiniteSet(T) /\ critical \in SUBSET T /\ IsFiniteSet(critical) /\ num_blocks \in Nat
    <2>1. IsFiniteSet(AgentType) /\ num_blocks \in Nat
        BY ControllerAssumption
    <2>2. critical \in SUBSET T
        OBVIOUS
    <2> HIDE DEF critical
    <2>3. IsFiniteSet(T)
        BY <2>1, Zenon DEF Laws, FiniteLaw
    <2>4. IsFiniteSet(critical)
        BY <2>2, <2>3, Zenon DEF Laws, FiniteLaw
    <2> QED BY <2>1, <2>2, <2>3, <2>4
<1> HIDE DEF critical
<1>3. reserved \in 0..num_blocks
    <2>1. (num_blocks * ratio) \div 100 \in 0..num_blocks
        BY <1>2, ShareFacts
    <2> QED BY <1>2, <2>1
<1>4. in_use \in Nat /\ total \in Nat
    <2>1. \A t \in critical : score[t] \in Nat
        BY <1>2
    <2> QED BY <1>2, <2>1, SumBounds
<1> HIDE DEF in_use, total
<1>5. ASSUME NEW t \in critical PROVE weight[t] \in Nat \ {0}
    <2>1. score[t] \in Nat \ {0} /\ used[t] \in Nat
        BY <1>2
    <2>2. weight[t] = IF in_use = 0 THEN score[t]
                      ELSE Larger(2 * score[t] * in_use, used[t] * total + score[t] * in_use)
        BY Zenon
    <2>3. CASE in_use = 0
        BY <2>1, <2>2, <2>3
    <2>4. CASE in_use # 0
        <3> DEFINE x == 2 * score[t] * in_use  y == used[t] * total + score[t] * in_use
        <3>1. in_use \in Nat \ {0}
            BY <1>4, <2>4
        <3>2. 2 * score[t] \in Nat \ {0}
            BY <2>1
        <3>3. x \in Nat \ {0} /\ score[t] * in_use \in Nat \ {0}
            BY <2>1, <3>1, <3>2, ProductFacts
        <3>4. used[t] * total \in Nat
            BY <1>4, <2>1
        <3>5. y \in Nat \ {0}
            BY <3>3, <3>4
        <3>6. weight[t] = Larger(x, y)
            BY <2>2, <2>4, Zenon
        <3> HIDE DEF x, y
        <3> QED BY <3>3, <3>5, <3>6 DEF Larger
    <2> QED BY <2>3, <2>4
<1>6. DOMAIN weight = critical /\ DOMAIN count = critical
    BY Zenon
<1> HIDE DEF weight
<1>7. \A t \in critical : weight[t] \in Nat /\ weight[t] <= sum /\ sum \in Nat \ {0}
    <2>1. \A t \in critical : weight[t] \in Nat \ {0}
        BY <1>5
    <2>2. \A t \in critical : weight[t] \in Nat
        BY <2>1
    <2>3. sum \in Nat /\ \A t \in critical : weight[t] <= sum
        BY <1>2, <1>6, <2>2, SumBounds DEF SumFunction
    <2> HIDE DEF sum
    <2> QED BY <2>1, <2>3
<1> HIDE DEF sum, reserved
<1>r. num_blocks \in Nat /\ reserved \in Nat /\ reserved <= num_blocks
    <2>1. num_blocks \in Nat
        BY <1>2, Zenon
    <2> QED BY <1>3, <2>1
<1>8. \A t \in critical : count[t] \in 0..reserved
    <2>1. ASSUME NEW t \in critical PROVE count[t] \in 0..reserved
        <3>1. count[t] = (reserved * weight[t]) \div sum
            BY Zenon
        <3>2. reserved \in Nat
            BY <1>r, Zenon
        <3>3. (reserved * weight[t]) \div sum \in 0..reserved
            BY <1>7, <3>2, ShareFacts
        <3> QED BY <3>1, <3>3, Zenon
    <2> QED BY <2>1
<1> HIDE DEF count
<1>9. SumFunction(count) \in Nat /\ \A t \in critical : count[t] <= SumFunction(count)
    <2>1. \A t \in critical : count[t] \in Nat
        BY <1>r, <1>8
    <2> QED BY <1>2, <1>6, <2>1, SumBounds DEF SumFunction
<1>10. ASSUME NEW t \in critical PROVE count[t] + (IF t \in rounded THEN 1 ELSE 0) \in 0..num_blocks
    <2>1. count[t] \in Nat /\ reserved \in Nat /\ count[t] <= reserved /\ reserved <= num_blocks /\ count[t] <= SumFunction(count)
        <3>1. count[t] \in 0..reserved /\ count[t] <= SumFunction(count)
            BY <1>8, <1>9, Zenon
        <3> QED BY <1>r, <3>1
    <2> HIDE DEF rounded
    <2>0. count[t] + 0 \in 0..num_blocks
        BY <1>r, <2>1
    <2>2. CASE t \notin rounded
        BY <2>0, <2>2, Zenon
    <2>3. CASE t \in rounded
        <3>1. Before(t) \in SUBSET critical
            OBVIOUS
        <3>2. Cardinality(Before(t)) < reserved - SumFunction(count)
            BY <2>3, Zenon DEF rounded
        <3> HIDE DEF Before
        <3>3. Cardinality(Before(t)) \in Nat
            BY <1>2, <3>1, Zenon DEF Laws, FiniteLaw
        <3>4. count[t] + 1 \in 0..num_blocks
            <4> DEFINE x == Cardinality(Before(t))  y == SumFunction(count)
            <4>1. x \in Nat /\ y \in Nat /\ x < reserved - y
                BY <1>9, <3>2, <3>3, Zenon
            <4> HIDE DEF x, y
            <4>2. count[t] \in Nat /\ count[t] <= y
                BY <2>1, Zenon DEF y
            <4> QED BY <1>r, <4>1, <4>2
        <3> QED BY <2>3, <3>4, Zenon
    <2> QED BY <2>2, <2>3
<1> HIDE DEF rounded
<1>11. /\ part.shared = num_blocks - reserved /\ DOMAIN part.reserved = critical
       /\ \A t \in critical : part.reserved[t] = count[t] + (IF t \in rounded THEN 1 ELSE 0)
    BY Zenon
<1> HIDE DEF part
<1>12. part.shared \in 0..num_blocks
    <2>1. num_blocks - reserved \in 0..num_blocks
        BY <1>r
    <2> QED BY <2>1, <1>11, Zenon
<1>13. PlanOK(part)
    BY <1>2, <1>10, <1>11, <1>12, Zenon DEF PlanOK
<1> QED BY <1>1, <1>13, Zenon

\* A new plan gives no part more than the pool has.
LEMMA ReplanFacts ==
    ASSUME Laws, Structure, LedgerOK, Replan
    PROVE  reserve_ratio' \in 0..100 /\ PlanOK(plan')
<1> DEFINE known == history \cup {TypeOf[r] : r \in metadata}
           Of(t) == {q \in metadata : TypeOf[q] = t}
           used == [t \in known |-> SumFunction([r \in Of(t) |-> Len(table[r])])]
<1>1. CASE UNCHANGED <<plan, reserve_ratio>>
    BY <1>1 DEF LedgerOK
<1>2. CASE ~UNCHANGED <<plan, reserve_ratio>>
    <2>1. /\ reserve_ratio' = AdjustedRatio
          /\ \E score \in TypeScores : plan' = partition_capacity(known, score, used, AdjustedRatio)
        BY <1>2, Zenon DEF Replan
    <2>2. known \in SUBSET AgentType
        BY ControllerAssumption, ZenonT(40) DEF LedgerOK, metadata, Annotated
    <2>3. \A t \in known : used[t] \in Nat
        <3>1. ASSUME NEW t \in known PROVE SumFunction([r \in Of(t) |-> Len(table[r])]) \in Nat
            <4> DEFINE f == [r \in Of(t) |-> Len(table[r])]
            <4>1. Of(t) \in SUBSET Request /\ IsFiniteSet(Request)
                BY ControllerAssumption, Zenon DEF metadata
            <4>2. DOMAIN f = Of(t) /\ \A r \in Of(t) : f[r] \in Nat
                BY <4>1, TokenFacts
            <4> HIDE DEF f, Of
            <4>3. IsFiniteSet(Of(t))
                BY <4>1, Zenon DEF Laws, FiniteLaw
            <4>4. SumFunctionOnSet(f, Of(t)) \in Nat
                BY <4>2, <4>3, SumBounds
            <4>5. SumFunction(f) \in Nat
                BY <4>2, <4>4, Zenon DEF SumFunction
            <4> QED BY <4>5 DEF f
        <3> QED BY <3>1, Zenon
    <2> HIDE DEF known, used
    <2>4. AdjustedRatio \in 0..100
        <3> DEFINE usage == (100 * Cardinality(Occupied)) \div num_blocks
                   moved == IF usage >= gpu_usage_high THEN reserve_ratio + reserve_adjustment_step
                            ELSE IF usage <= gpu_usage_low THEN reserve_ratio - reserve_adjustment_step
                            ELSE reserve_ratio
        <3>1. AdjustedRatio = Lesser(reserve_ratio_max, Larger(reserve_ratio_min, moved))
            BY Zenon DEF AdjustedRatio
        <3>2. /\ reserve_ratio \in 0..100 /\ reserve_adjustment_step \in Nat
              /\ reserve_ratio_min \in 0..100 /\ reserve_ratio_max \in reserve_ratio_min..100
            BY ControllerAssumption DEF LedgerOK
        <3>3. moved \in Int
            <4> HIDE DEF usage
            <4> QED BY <3>2
        <3> HIDE DEF moved
        <3> QED BY <3>1, <3>2, <3>3 DEF Lesser, Larger
    <2>5. PICK score \in TypeScores : plan' = partition_capacity(known, score, used, AdjustedRatio)
        BY <2>1
    <2>6. score \in [AgentType -> Nat \ {0}]
        BY ControllerAssumption
    <2> HIDE DEF AdjustedRatio
    <2>7. PlanOK(partition_capacity(known, score, used, AdjustedRatio))
        BY <2>2, <2>3, <2>4, <2>6, PartitionFacts
    <2> QED BY <2>1, <2>4, <2>5, <2>7, Zenon
<1> QED BY <1>1, <1>2

\* Whoever pays is the shared part or a type with a reserve.
LEMMA PayerFacts ==
    ASSUME NEW r, NEW B, NEW borrow
    PROVE  /\ Payers(r, borrow) \subseteq Critical \cup {Shared}
           /\ DOMAIN Accepted(r, B, borrow) \subseteq Critical \cup {Shared}
<1>1. Payers(r, borrow) \subseteq Critical \cup {Shared}
    BY DEF Payers
<1>2. DOMAIN _consumption(r, Cardinality(B), borrow) = Payers(r, borrow)
    BY Zenon DEF _consumption
<1>3. DOMAIN [o \in {Shared} |-> Cardinality(B)] = {Shared}
    BY Zenon
<1> QED BY <1>1, <1>2, <1>3, Zenon DEF Accepted

\* Every step keeps the ledger sound.
LEMMA LedgerNext ==
    ASSUME Laws, Structure, Structure', AdmissionOK, LedgerOK, BooksStep
    PROVE  LedgerOK'
<1>0. /\ Occupied \subseteq Block /\ Unused = Block \ Occupied
      /\ \A q \in Annotated : TypeOf[q] \in AgentType
      /\ metadata \subseteq Annotated /\ Critical \cup {Shared} \subseteq Owner
    BY OccupiedFacts, ControllerAssumption DEF metadata, LedgerOK, PlanOK, Critical, Owner
<1>1. CASE Quiet
    BY <1>1 DEF Quiet, LedgerOK, account_vars
<1>2. ASSUME NEW r \in Request, NEW N, NEW h, NEW blocks, NEW borrow, Commits(r, N, h, blocks, borrow)
      PROVE  LedgerOK'
    <2>1. /\ commit(r, blocks, borrow) /\ UNCHANGED <<plan, reserve_ratio>>
          /\ Range(blocks) \subseteq Occupied \cup N /\ N \subseteq Unused
        BY <1>2, Zenon DEF Commits
    <2>2. CASE Managed
        <3> DEFINE new == Range(blocks) \ DOMAIN charges
        <3>1. /\ charges' \in ChargedWith(new, Accepted(r, new, borrow))
              /\ history' = history \cup {TypeOf[q] : q \in {r} \cap metadata}
            BY <2>1, <2>2, Zenon DEF commit
        <3>2. new \subseteq Block
            BY <1>0, <2>1
        <3> HIDE DEF new
        <3>3. /\ DOMAIN charges' = DOMAIN charges \cup new
              /\ \A b \in DOMAIN charges' : \/ charges'[b] \in DOMAIN Accepted(r, new, borrow)
                                            \/ (b \in DOMAIN charges /\ charges'[b] = charges[b])
            BY <3>1, ChargedFacts, Zenon
        <3>4. DOMAIN Accepted(r, new, borrow) \subseteq Owner
            BY <1>0, PayerFacts, Zenon
        <3>5. history' \subseteq AgentType
            BY <1>0, <3>1, Zenon DEF LedgerOK
        <3>6. DOMAIN charges' \subseteq Block /\ \A b \in DOMAIN charges' : charges'[b] \in Owner
            BY <3>2, <3>3, <3>4, Zenon DEF LedgerOK
        <3> QED BY <2>1, <3>5, <3>6, Zenon DEF LedgerOK
    <2>3. CASE ~Managed
        BY <2>1, <2>3, Zenon DEF commit, account_vars, LedgerOK
    <2> QED BY <2>2, <2>3
<1>3. ASSUME charges' = IF accounting_active THEN Drop(charges, DOMAIN charges \ Occupied') ELSE charges,
             UNCHANGED <<plan, reserve_ratio, history>>
      PROVE  LedgerOK'
    <2>1. DOMAIN charges' \subseteq DOMAIN charges /\ \A b \in DOMAIN charges' : charges'[b] = charges[b]
        BY <1>3 DEF Drop
    <2> QED BY <1>3, <2>1, Zenon DEF LedgerOK
<1>4. ASSUME NEW r \in Range(running), NEW v \in Range(running), _preempt_request(r, v) PROVE LedgerOK'
    BY <1>3, <1>4 DEF _preempt_request, plan_vars
<1>5. ASSUME NEW F, NEW Kept, Frees(F, Kept) PROVE LedgerOK'
    BY <1>3, <1>5, Zenon DEF Frees, _free_requests
<1>6. CASE begin_step
    <2>1. history' = history
        BY <1>6 DEF begin_step
    <2>2. CASE ~Managed
        <3>1. charges' = <<>> /\ UNCHANGED <<plan, reserve_ratio>>
            BY <1>6, <2>2 DEF begin_step, begin_step_idle
        <3> QED BY <2>1, <3>1 DEF LedgerOK
    <2>3. CASE Managed
        <3> DEFINE adopted == IF accounting_active THEN {}
                              ELSE UNION {Range(table[r]) : r \in Queued \cup Range(running)}
        <3>1. charges' = AdoptedCharges /\ Replan
            BY <1>6, <2>3 DEF begin_step, begin_step_agents
        <3>2. adopted \subseteq Block
            <4>1. Queued \cup Range(running) \subseteq Request
                <5>1. waiting \in Seq(Request) /\ skipped_waiting \in Seq(Request) /\ running \in Seq(Request)
                    BY DEF Structure, QueuesOK
                <5>2. Queued = Range(skipped_waiting) \cup Range(waiting)
                    BY <5>1, ZenonT(40) DEF Queued, Laws, ConcatLaw
                <5>3. Range(waiting) \subseteq Request /\ Range(skipped_waiting) \subseteq Request /\ Range(running) \subseteq Request
                    BY <5>1, Zenon DEF Laws, RangeLaw
                <5> QED BY <5>2, <5>3
            <4>2. \A r \in Request : Range(table[r]) \subseteq Block
                BY <1>0, OccupiedFacts
            <4> QED BY <4>1, <4>2
        <3>3. /\ DOMAIN charges' = (DOMAIN charges \cap Occupied) \cup adopted
              /\ \A b \in DOMAIN charges' : charges'[b] = IF b \in DOMAIN charges THEN charges[b] ELSE Shared
            BY <3>1, Zenon DEF AdoptedCharges
        <3> HIDE DEF adopted
        <3>4. DOMAIN charges' \subseteq Block /\ \A b \in DOMAIN charges' : charges'[b] \in Owner
            BY <1>0, <3>2, <3>3 DEF LedgerOK
        <3>5. reserve_ratio' \in 0..100 /\ PlanOK(plan')
            BY <3>1, ReplanFacts
        <3> QED BY <2>1, <3>4, <3>5, Zenon DEF LedgerOK
    <2> QED BY <2>2, <2>3
<1> QED BY <1>1, <1>2, <1>4, <1>5, <1>6, Zenon DEF BooksStep

AvailableOK == Purses(_update_available) /\ DOMAIN _update_available = Critical \cup {Shared}

\* Nobody has less than nothing left, or more than the pool has.
LEMMA AvailableFacts == Laws /\ Structure /\ AdmissionOK /\ LedgerOK => AvailableOK
<1> SUFFICES ASSUME Laws, Structure, AdmissionOK, LedgerOK PROVE AvailableOK
    OBVIOUS
<1> DEFINE D == Critical \cup {Shared}
           left == [o \in D |-> AtLeast0((IF o = Shared THEN plan.shared ELSE plan.reserved[o]) - Used(o))]
           excess == AtLeast0(SumFunction(left) - AtLeast0(uncommitted_blocks))
           CutBefore(p, o) ==
               \/ p = Shared /\ o # Shared
               \/ /\ p # Shared /\ o # Shared
                  /\ plan.scores[p] < plan.scores[o] \/ (plan.scores[p] = plan.scores[o] /\ p < o)
           Cheaper(o) == {p \in DOMAIN left : CutBefore(p, o)}
           cut(o) == AtLeast0(excess - SumFunctionOnSet(left, Cheaper(o)))
<1>1. _update_available = [o \in DOMAIN left |-> AtLeast0(left[o] - cut(o))]
    BY Zenon DEF _update_available
<1>2. D \subseteq Owner /\ IsFiniteSet(D) /\ num_blocks \in Nat
    <2>1. Critical \in SUBSET AgentType /\ IsFiniteSet(AgentType) /\ num_blocks \in Nat
        BY ControllerAssumption DEF LedgerOK, PlanOK, Critical
    <2>2. IsFiniteSet(Critical)
        BY <2>1, Zenon DEF Laws, FiniteLaw
    <2>3. IsFiniteSet(D)
        BY <2>2, Zenon DEF Laws, AddLaw
    <2> QED BY <2>1, <2>3 DEF Owner
<1>3. DOMAIN left = D /\ \A o \in D : left[o] \in 0..num_blocks
    <2>1. ASSUME NEW o \in D PROVE left[o] \in 0..num_blocks
        <3> DEFINE part == IF o = Shared THEN plan.shared ELSE plan.reserved[o]
                   mine == {b \in DOMAIN charges : charges[b] = o}
        <3>1. part \in 0..num_blocks
            BY DEF LedgerOK, PlanOK, Critical
        <3>2. mine \in SUBSET (1..num_blocks)
            BY DEF LedgerOK, Block
        <3>3. Used(o) = Cardinality(mine)
            BY Zenon DEF Used
        <3> HIDE DEF mine
        <3>4. Used(o) \in 0..num_blocks
            BY <1>2, <3>2, <3>3, Zenon DEF Laws, IntervalLaw
        <3>5. left[o] = AtLeast0(part - Used(o))
            BY Zenon
        <3> HIDE DEF part, left
        <3> QED BY <1>2, <3>1, <3>4, <3>5 DEF AtLeast0
    <2> QED BY <2>1, Zenon
<1> HIDE DEF D, left
<1>4. \A T \in SUBSET D : SumFunctionOnSet(left, T) \in Int
    <2>1. \A o \in D : left[o] \in Int
        BY <1>3
    <2> QED BY <1>2, <2>1, Zenon DEF Laws, SumLaw
<1>5. excess \in Nat
    <2>1. SumFunction(left) \in Int
        BY <1>3, <1>4, Zenon DEF SumFunction
    <2>2. uncommitted_blocks \in Int
        BY CommittedFacts
    <2> QED BY <2>1, <2>2 DEF AtLeast0
<1> HIDE DEF excess
<1>6. ASSUME NEW o \in D PROVE AtLeast0(left[o] - cut(o)) \in 0..num_blocks
    <2>1. Cheaper(o) \in SUBSET D
        BY <1>3
    <2> HIDE DEF Cheaper
    <2>2. SumFunctionOnSet(left, Cheaper(o)) \in Int
        BY <1>4, <2>1, Zenon
    <2>3. cut(o) \in Nat
        BY <1>5, <2>2 DEF AtLeast0
    <2> HIDE DEF cut
    <2> QED BY <1>2, <1>3, <2>3 DEF AtLeast0
<1> HIDE DEF cut
<1>7. DOMAIN _update_available = D /\ \A o \in D : _update_available[o] = AtLeast0(left[o] - cut(o))
    BY <1>1, <1>3, Zenon
<1> QED BY <1>2, <1>6, <1>7, Zenon DEF AvailableOK, Purses, D

\* The same after a step.
LEMMA AvailableNext ==
    ASSUME Laws, Structure', AdmissionOK', LedgerOK'
    PROVE  AvailableOK'
BY AvailableFacts, PTL

\* Every step keeps the purses sound.
LEMMA PursesNext ==
    ASSUME Laws, Structure, Structure', AdmissionOK, LedgerOK', PursesOK, BooksStep
    PROVE  PursesOK'
<1>0. AvailableOK'
    BY AvailableNext DEF BooksStep
<1>1. ASSUME available' = _update_available' PROVE PursesOK'
    <2>1. Purses(_update_available)' /\ DOMAIN _update_available' = Critical' \cup {Shared}
        BY <1>0 DEF AvailableOK
    <2> QED BY <1>1, <2>1, Zenon DEF PursesOK, Purses
<1>2. ASSUME available' = available, InStep' /\ accounting_active' => InStep /\ accounting_active /\ plan' = plan
      PROVE  PursesOK'
    BY <1>2, Zenon DEF PursesOK, Purses, Critical
<1>3. CASE Quiet
    BY <1>2, <1>3 DEF Quiet, account_vars
<1>4. ASSUME NEW r \in Request, NEW N, NEW h, NEW blocks, NEW borrow, Commits(r, N, h, blocks, borrow)
      PROVE  PursesOK'
    <2>1. commit(r, blocks, borrow) /\ plan' = plan /\ InStep
        BY <1>4, Zenon DEF Commits
    <2>2. CASE Managed
        BY <1>1, <2>1, <2>2, Zenon DEF commit
    <2>3. CASE ~Managed
        BY <1>2, <2>1, <2>3, Zenon DEF commit, account_vars
    <2> QED BY <2>2, <2>3
<1>5. ASSUME NEW r \in Range(running), NEW v \in Range(running), _preempt_request(r, v) PROVE PursesOK'
    <2>1. /\ available' = IF accounting_active THEN _update_available' ELSE available
          /\ accounting_active' = accounting_active
        BY <1>5, Zenon DEF _preempt_request
    <2> QED BY <1>1, <1>2, <2>1
<1>6. ASSUME NEW F, NEW Kept, Frees(F, Kept) PROVE PursesOK'
    BY <1>2, <1>6, Zenon DEF Frees, _free_requests
<1>7. CASE begin_step
    <2>1. CASE Managed
        BY <1>1, <1>7, <2>1, Zenon DEF begin_step, begin_step_agents
    <2>2. CASE ~Managed
        BY <1>2, <1>7, <2>2 DEF begin_step, begin_step_idle
    <2> QED BY <2>1, <2>2
<1> QED BY <1>3, <1>4, <1>5, <1>6, <1>7, Zenon DEF BooksStep
=============================================================================
