------------------------ MODULE SchedulingController ------------------------
(***************************************************************************)
(* Agent-aware admission and preemption (vllm/tokencake/scheduling.py)     *)
(* inside the loops of Scheduler.schedule (vllm/v1/core/sched/scheduler.py)*)
(* over the GPU block pool.  A block holds one token.  One scheduling step *)
(* is a sequence of actions, one per iteration of the loops; pc keeps the  *)
(* rest of the engine out until the step ends.                             *)
(*                                                                         *)
(* Free blocks that still hold a cached prefix are plain free blocks here: *)
(* get_num_blocks_to_allocate charges a hit on one like a computed block.  *)
(* Blocks are interchangeable, so any free ones are handed out, and commit *)
(* may charge the blocks of one request to its payers in any order.        *)
(***************************************************************************)
EXTENDS Lists, FiniteSetsExt

CONSTANTS
    num_blocks,
    Request,            \* request ids, naturals in the order of their ids
    AgentType,          \* positive naturals in the order of their names
    TypeOf,             \* annotated request -> agent type
    NumPromptTokens, MaxTokens,
    Sharing, SharedTokens,      \* requests whose prompts start alike, and how far
    Loading, Abortable,
    ReserveModes,       \* "all", "progress", "reclaim"; "inputs": no generation reserved
    Scores,             \* request scores a step may see
    TypeScores,         \* agent-type scores a plan may see
    long_prefill_token_threshold, max_num_running_reqs,
    critical_ratio, reserve_ratio_min, reserve_ratio_max, reserve_adjustment_step,
    gpu_usage_low, gpu_usage_high,                        \* in percent
    priority_borrow_score_margin, cache_affinity_score_band,
    AdjustmentWindow, PreemptionScoreBand

Annotated == DOMAIN TypeOf

ASSUME ControllerAssumption ==
    /\ num_blocks \in Nat \ {0}
    /\ Request \subseteq Nat /\ IsFiniteSet(Request)
    /\ AgentType \subseteq Nat \ {0} /\ IsFiniteSet(AgentType)
    /\ Annotated \subseteq Request /\ TypeOf \in [Annotated -> AgentType]
    /\ NumPromptTokens \in [Request -> Nat \ {0}] /\ MaxTokens \in [Request -> Nat \ {0}]
    /\ Sharing \cup Loading \cup Abortable \subseteq Request
    /\ SharedTokens \in Nat /\ \A r \in Sharing : SharedTokens < NumPromptTokens[r]
    /\ ReserveModes \subseteq {"all", "progress", "reclaim", "inputs"}
    /\ Scores \subseteq [Request -> Nat] /\ TypeScores \subseteq [AgentType -> Nat \ {0}]
    /\ long_prefill_token_threshold \in Nat \ {0} /\ AdjustmentWindow \in Nat \ {0}
    /\ critical_ratio \in Nat /\ reserve_adjustment_step \in Nat
    /\ reserve_ratio_min \in 0..100 /\ reserve_ratio_max \in reserve_ratio_min..100

VARIABLES
    mode,              \* generation_reserve_mode
    (* requests *)
    status, output, computed,
    table,             \* request -> its blocks
    cached,            \* request -> how many of them the prefix cache knows
    (* engine scheduler *)
    running, waiting, skipped_waiting, finished_req_ids,
    (* locals of schedule() *)
    pc, index, scheduled, step_skipped, reservation_deferred, borrow_reserved, preempted,
    (* controller *)
    accounting_active,
    charges,           \* occupied block -> who pays for it
    prefill_limits,    \* admitted request -> tokens it had when admitted
    reclaim_beneficiaries,
    retry_capacity,    \* preempted request -> capacity left then
    available,         \* payer -> blocks it can still pay for
    plan, reserve_ratio, step, waiting_critical, waiting_scores, scores, history

request_vars == <<status, output, computed, table, cached>>
queue_vars == <<running, waiting, skipped_waiting, finished_req_ids>>
loop_vars == <<index, scheduled, step_skipped, reservation_deferred, borrow_reserved, preempted>>
account_vars == <<accounting_active, charges, prefill_limits, reclaim_beneficiaries,
                  retry_capacity, available>>
plan_vars == <<plan, reserve_ratio, step, waiting_critical, waiting_scores, scores>>
vars == <<mode, request_vars, queue_vars, pc, loop_vars, account_vars, plan_vars, history>>

Shared == 0

Block == 1..num_blocks

AtLeast0(n) == IF n > 0 THEN n ELSE 0

Drop(f, S) == [x \in DOMAIN f \ S |-> f[x]]

Put(f, x, v) == [y \in DOMAIN f \cup {x} |-> IF y = x THEN v ELSE f[y]]

NoPlan == [scores |-> <<>>, reserved |-> <<>>, shared |-> 0]

Init ==
    /\ mode \in ReserveModes
    /\ status = [r \in Request |-> "new"]
    /\ output = [r \in Request |-> 0] /\ computed = [r \in Request |-> 0]
    /\ table = [r \in Request |-> <<>>] /\ cached = [r \in Request |-> 0]
    /\ running = <<>> /\ waiting = <<>> /\ skipped_waiting = <<>> /\ finished_req_ids = {}
    /\ pc = "idle" /\ index = 0 /\ scheduled = {} /\ step_skipped = <<>>
    /\ reservation_deferred = <<>> /\ borrow_reserved = FALSE /\ preempted = FALSE
    /\ accounting_active = FALSE /\ charges = <<>> /\ prefill_limits = <<>>
    /\ reclaim_beneficiaries = {} /\ retry_capacity = <<>> /\ available = [o \in {Shared} |-> 0]
    /\ plan = NoPlan /\ reserve_ratio = reserve_ratio_min /\ step = 0
    /\ waiting_critical = {} /\ waiting_scores = <<>>
    /\ scores = [r \in Request |-> 0] /\ history = {}
-----------------------------------------------------------------------------
(* Requests and blocks *)

Live(r) == status[r] \in {"waiting", "loading", "loaded", "running"}

metadata == {r \in Annotated : Live(r)}

\* begin_step found annotated work: the controller takes part in this step.
Managed == metadata # {}

Occupied == UNION {Range(table[r]) : r \in Request}

Unused == Block \ Occupied

NumFreeBlocks == Cardinality(Unused)

RefCount(b) == Cardinality({r \in Request : b \in Range(table[r])})

\* n free blocks.
FreshBlocks(n) == CHOOSE s \in [1..n -> Unused] : IsInjective(s)

NumTokens(r) == NumPromptTokens[r] + output[r]

\* How many blocks that somebody uses the cache returns for r's prompt.
HitLength(r) ==
    Cardinality({i \in 1..SharedTokens : r \in Sharing /\ \E q \in Sharing : cached[q] >= i})

Hits(r) ==
    IF computed[r] > 0 THEN {<<>>}
    ELSE {h \in [1..HitLength(r) -> Occupied] :
             \A i \in DOMAIN h : \E q \in Sharing : cached[q] >= i /\ h[i] = table[q][i]}

-----------------------------------------------------------------------------
(* Commitments *)

Admitted == DOMAIN prefill_limits

admission_tokens(r) ==
    IF mode = "inputs" THEN NumTokens(r) ELSE NumPromptTokens[r] + MaxTokens[r]

_remaining_growth(r) == AtLeast0(admission_tokens(r) - Len(table[r]))

InputGrowth(r) == AtLeast0(prefill_limits[r] - Len(table[r]))

GenerationGrowth(r) == AtLeast0(_remaining_growth(r) - InputGrowth(r))

_generation_headroom ==
    IF Admitted = {} THEN 0 ELSE Min({GenerationGrowth(r) : r \in Admitted})

\* Blocks promised to admitted requests, B being the reclaim beneficiaries.
CommittedTo(B) ==
    LET inputs == SumFunction([r \in Admitted |-> InputGrowth(r)])
    IN  CASE mode = "progress" -> inputs + _generation_headroom
          [] mode = "reclaim" -> inputs + SumFunction([r \in B \cap Admitted |-> GenerationGrowth(r)])
          [] OTHER -> SumFunction([r \in Admitted |-> _remaining_growth(r)])

uncommitted_blocks == NumFreeBlocks - CommittedTo(reclaim_beneficiaries)

\* Seeded fault: no room for the tokens to generate is asked for.
admission_demand_inputs(r, held) == AtLeast0(NumTokens(r) - held)

\* Blocks request r needs to be admitted when it holds, or hits, `held` blocks.
admission_demand(r, held) ==
    LET inputs == AtLeast0(NumTokens(r) - held)
        full == AtLeast0(admission_tokens(r) - held)
        headroom == AtLeast0(full - inputs)
    IN  CASE mode = "reclaim" -> inputs
          [] mode = "progress" ->
                AtLeast0(inputs + IF Admitted = {} THEN headroom
                                  ELSE Lesser(_generation_headroom, headroom) - _generation_headroom)
          [] OTHER -> full

\* Tokens request r computes in a step that starts from `done` of them.
NumNewTokens(r, done) == Lesser(NumTokens(r) - done, long_prefill_token_threshold)

\* Blocks the running request r needs for its next tokens.
GrowthDemand(r) == AtLeast0(computed[r] + NumNewTokens(r, computed[r]) - Len(table[r]))

\* The admitted request nearest to its end.
FirstFinisher ==
    CHOOSE r \in Admitted : \A q \in Admitted \ {r} :
        \/ _remaining_growth(r) < _remaining_growth(q)
        \/ /\ _remaining_growth(r) = _remaining_growth(q)
           /\ scores[r] > scores[q] \/ (scores[r] = scores[q] /\ r < q)

\* Adopted work may exceed the commitments: then the one nearest to its end
\* may grow, through native preemption if need be.
Recovers(r) == uncommitted_blocks < 0 /\ r = FirstFinisher

can_grow(r) ==
    LET demand == GrowthDemand(r)
        Left(q) == LET d == IF q = r THEN demand ELSE 0
                   IN  AtLeast0(_remaining_growth(q) - d) - AtLeast0(InputGrowth(q) - d)
        released == Lesser(demand, InputGrowth(r)) + _generation_headroom
                    - Min({Left(q) : q \in Admitted})
    IN  \/ mode # "progress" \/ demand = 0
        \/ Recovers(r)
        \/ uncommitted_blocks >= 0 /\ demand <= uncommitted_blocks + released

-----------------------------------------------------------------------------
(* Partition and charges *)

Critical == DOMAIN plan.reserved

Used(owner) == Cardinality({b \in DOMAIN charges : charges[b] = owner})

\* What each payer has left, cut down to the uncommitted blocks: the shared
\* part first, then the types by rising score.
_update_available ==
    LET left == [o \in Critical \cup {Shared} |->
                   AtLeast0((IF o = Shared THEN plan.shared ELSE plan.reserved[o]) - Used(o))]
        excess == AtLeast0(SumFunction(left) - AtLeast0(uncommitted_blocks))
        CutBefore(p, o) ==
            \/ p = Shared /\ o # Shared
            \/ /\ p # Shared /\ o # Shared
               /\ plan.scores[p] < plan.scores[o] \/ (plan.scores[p] = plan.scores[o] /\ p < o)
    IN  [o \in DOMAIN left |->
           LET cut == AtLeast0(excess - SumFunctionOnSet(left, {p \in DOMAIN left : CutBefore(p, o)}))
           IN  AtLeast0(left[o] - cut)]

\* Score lead that lets r borrow from a type that waits.
LeadsBy(r, t) ==
    /\ priority_borrow_score_margin > 0 /\ t \in DOMAIN waiting_scores
    /\ scores[r] - waiting_scores[t] >= priority_borrow_score_margin

\* Seeded fault: reserves of waiting critical types are lent out.
Payers_any(r, borrow) == {Shared} \cup {t \in Critical : r \in metadata}

\* Who may pay for blocks of request r.
Payers(r, borrow) ==
    {Shared} \cup {t \in Critical :
        /\ r \in metadata
        /\ t = TypeOf[r] \/ borrow \/ t \notin waiting_critical \/ LeadsBy(r, t)}

Affordable(r, demand, borrow) ==
    demand <= SumFunctionOnSet(available, Payers(r, borrow))

\* Shared capacity pays first, then r's own type, then the richest donor.
_consumption(r, demand, borrow) ==
    LET own == IF r \in metadata THEN TypeOf[r] ELSE Shared
        PaysBefore(p, o) ==
            /\ p # o /\ o # Shared
            /\ \/ p \in {Shared, own}
               \/ /\ o # own
                  /\ \/ available[p] > available[o]
                     \/ /\ available[p] = available[o]
                        /\ plan.scores[p] > plan.scores[o] \/ (plan.scores[p] = plan.scores[o] /\ p < o)
    IN  [o \in Payers(r, borrow) |->
           Lesser(available[o],
                  AtLeast0(demand - SumFunctionOnSet(available, {p \in Payers(r, borrow) : PaysBefore(p, o)})))]

\* The charges once the blocks in B are charged as `usage` says.
ChargedWith(B, usage) ==
    {[b \in DOMAIN charges \cup B |-> IF b \in B THEN owner[b] ELSE charges[b]] :
        owner \in {f \in [B -> DOMAIN usage] :
                     \A o \in DOMAIN usage : Cardinality({b \in B : f[b] = o}) = usage[o]}}

\* Accepted work may outgrow the partition: then shared capacity owes it.
Accepted(r, B, borrow) ==
    IF Affordable(r, Cardinality(B), borrow) THEN _consumption(r, Cardinality(B), borrow)
    ELSE [o \in {Shared} |-> Cardinality(B)]

\* Blocks of request r, to be r's table, are charged.
commit(r, blocks, borrow) ==
    IF Managed
    THEN LET new == Range(blocks) \ DOMAIN charges IN
         /\ charges' \in ChargedWith(new, Accepted(r, new, borrow))
         /\ prefill_limits' = IF r \in Admitted THEN prefill_limits
                              ELSE Put(prefill_limits, r, NumTokens(r))
         /\ retry_capacity' = Drop(retry_capacity, {r})
         /\ history' = history \cup {TypeOf[q] : q \in {r} \cap metadata}
         /\ UNCHANGED <<accounting_active, reclaim_beneficiaries>>
         /\ available' = _update_available'
    ELSE UNCHANGED <<account_vars, history>>

-----------------------------------------------------------------------------
(* begin_step *)

Queued == Range(skipped_waiting \o waiting)

WaitingTypes == {TypeOf[r] : r \in metadata \cap Queued}

\* partition_capacity for the types in T, of which each uses used[t] blocks.
\* Shares are compared after multiplication by their common denominator.
partition_capacity(T, score, used, ratio) ==
    LET Above(t, u) == score[t] > score[u] \/ (score[t] = score[u] /\ t > u)
        size == Larger(1, (Cardinality(T) * critical_ratio) \div 100)
        critical == {t \in T : Cardinality({u \in T : Above(u, t)}) < size}
        reserved == IF critical = {} THEN 0 ELSE (num_blocks * ratio) \div 100
        in_use == SumFunctionOnSet(used, T)
        total == SumFunctionOnSet(score, critical)
        weight == [t \in critical |->
                     IF in_use = 0 THEN score[t]
                     ELSE Larger(2 * score[t] * in_use, used[t] * total + score[t] * in_use)]
        sum == SumFunction(weight)
        count == [t \in critical |-> (reserved * weight[t]) \div sum]
        Rest(t) == (reserved * weight[t]) % sum
        rounded == {t \in critical :
                      Cardinality({u \in critical : Rest(u) > Rest(t) \/ (Rest(u) = Rest(t) /\ u > t)})
                      < reserved - SumFunction(count)}
    IN  [scores |-> [t \in T |-> score[t]],
         reserved |-> [t \in critical |-> count[t] + IF t \in rounded THEN 1 ELSE 0],
         shared |-> num_blocks - reserved]

\* The reserved share moves between its bounds with the use of the GPU.
AdjustedRatio ==
    LET usage == (100 * Cardinality(Occupied)) \div num_blocks
        moved == IF usage >= gpu_usage_high THEN reserve_ratio + reserve_adjustment_step
                 ELSE IF usage <= gpu_usage_low THEN reserve_ratio - reserve_adjustment_step
                 ELSE reserve_ratio
    IN  Lesser(reserve_ratio_max, Larger(reserve_ratio_min, moved))

\* The plan is made when there is none, and again every AdjustmentWindow steps.
Replan ==
    IF DOMAIN plan.scores = {} \/ step' = 0
    THEN LET known == history \cup {TypeOf[r] : r \in metadata}
             used == [t \in known |->
                        SumFunction([r \in {q \in metadata : TypeOf[q] = t} |-> Len(table[r])])]
         IN  /\ reserve_ratio' = AdjustedRatio
             /\ \E score \in TypeScores : plan' = partition_capacity(known, score, used, AdjustedRatio)
    ELSE UNCHANGED <<plan, reserve_ratio>>

\* Work for the engine: requests in the queues, and finished ones that the
\* workers have not been told of or whose blocks wait for a load.
has_requests ==
    \/ running # <<>> \/ Queued # {} \/ finished_req_ids # {}
    \/ \E r \in Request : status[r] = "aborted"

\* Where schedule() is once the running loop is at position i of a list.
RunningLoop(i, list, p) ==
    IF i <= Len(list) THEN "running" ELSE IF p THEN "ending" ELSE "waiting"

\* Without annotated work the controller forgets what it knew.
begin_step_idle ==
    /\ accounting_active' = FALSE
    /\ charges' = <<>> /\ prefill_limits' = <<>>
    /\ reclaim_beneficiaries' = {} /\ retry_capacity' = <<>>
    /\ scores' = [r \in Request |-> 0] /\ waiting_scores' = <<>>
    /\ UNCHANGED <<available, plan, reserve_ratio, step, waiting_critical>>

\* Seeded fault: blocks in use before accounting starts are not adopted.
AdoptedCharges_none == [b \in DOMAIN charges \cap Occupied |-> charges[b]]

\* Blocks charged from now on: those still in use, and, when accounting
\* starts, those of the requests in the queues, which shared capacity pays.
AdoptedCharges ==
    LET adopted == IF accounting_active THEN {}
                   ELSE UNION {Range(table[r]) : r \in Queued \cup Range(running)}
    IN  [b \in (DOMAIN charges \cap Occupied) \cup adopted |->
            IF b \in DOMAIN charges THEN charges[b] ELSE Shared]

\* Seeded fault: only running requests count as admitted.
AdoptedLimits_running == [r \in Range(running) |-> NumTokens(r)]

\* Running requests are admitted, whoever scheduled them.
AdoptedLimits ==
    [r \in Admitted \cup Range(running) |->
        IF r \in Admitted THEN prefill_limits[r] ELSE NumTokens(r)]

begin_step_agents ==
    /\ accounting_active' = TRUE
    /\ prefill_limits' = AdoptedLimits
    /\ charges' = AdoptedCharges
    /\ scores' \in Scores
    /\ step' = (step + 1) % AdjustmentWindow
    /\ Replan
    /\ waiting_critical' = Critical' \cap WaitingTypes
    /\ waiting_scores' = [t \in WaitingTypes |->
                            Max({scores'[r] : r \in {q \in metadata \cap Queued : TypeOf[q] = t}})]
    /\ UNCHANGED <<reclaim_beneficiaries, retry_capacity>>
    /\ available' = _update_available'

begin_step ==
    /\ pc = "idle" /\ has_requests
    /\ pc' = RunningLoop(1, running, FALSE) /\ index' = 1
    /\ UNCHANGED <<mode, request_vars, queue_vars, history, scheduled, step_skipped,
                   reservation_deferred, borrow_reserved, preempted>>
    /\ IF Managed THEN begin_step_agents ELSE begin_step_idle

-----------------------------------------------------------------------------
(* The RUNNING requests *)

Current == running[index]

\* The running loop has reached request r and may allocate for it.
Allocating(r) ==
    /\ pc \in {"running", "allocating"} /\ r = Current
    /\ pc = "running" /\ Managed => can_grow(r)

growth_deferred ==
    /\ pc = "running" /\ Managed /\ ~can_grow(Current)
    /\ index' = index + 1
    /\ pc' = RunningLoop(index', running, preempted)
    /\ UNCHANGED <<mode, request_vars, queue_vars, scheduled, step_skipped, reservation_deferred,
                   borrow_reserved, preempted, account_vars, plan_vars, history>>

schedule_running(r) ==
    /\ Allocating(r)
    /\ GrowthDemand(r) <= NumFreeBlocks
    /\ LET new == FreshBlocks(GrowthDemand(r)) IN
       /\ UNCHANGED <<mode, status, output, computed, queue_vars, plan_vars>>
       /\ table' = [table EXCEPT ![r] = @ \o new]
       /\ cached' = [cached EXCEPT ![r] = Len(table'[r])]
       /\ commit(r, new, FALSE)
    /\ scheduled' = scheduled \cup {r}
    /\ index' = index + 1
    /\ pc' = RunningLoop(index', running, preempted)
    /\ UNCHANGED <<step_skipped, reservation_deferred, borrow_reserved, preempted>>

Releases(v) == Cardinality({b \in Range(table[v]) : RefCount(b) = 1})

\* The beneficiaries once request r has asked for a victim.
BeneficiariesWith(r) ==
    IF mode = "reclaim" /\ Managed THEN reclaim_beneficiaries \cup {r} ELSE reclaim_beneficiaries

\* Whom request r may displace.  Among the victims that would do, the code
\* takes the cheapest to compute again; any of them may be taken here.
victim(r) ==
    LET scored == Range(running) \cap metadata
        lowest == Min({scores[v] : v \in scored})
        band == {v \in scored : scores[v] <= lowest + PreemptionScoreBand}
        short == GrowthDemand(r) - NumFreeBlocks
        needed == IF mode = "reclaim"
                  THEN Larger(short, CommittedTo(BeneficiariesWith(r)) - NumFreeBlocks) ELSE short
        sufficient == {v \in band \ {r} : Releases(v) >= needed}
        positive == {v \in band : Releases(v) > 0}
    IN  IF r \notin metadata THEN {running[Len(running)]}
        ELSE IF sufficient # {} THEN sufficient
        ELSE IF positive # {} THEN positive ELSE band

\* A victim gives up its blocks and goes back to the queue.
_preempt_request(r, v) ==
    LET at == CHOOSE i \in DOMAIN running : running[i] = v IN
    /\ Allocating(r)
    /\ GrowthDemand(r) > NumFreeBlocks
    /\ v \in victim(r)
    /\ running' = Without(running, {v})
    /\ waiting' = <<v>> \o waiting
    /\ status' = [status EXCEPT ![v] = "waiting"]
    /\ computed' = [computed EXCEPT ![v] = 0]
    /\ table' = [table EXCEPT ![v] = <<>>]
    /\ cached' = [cached EXCEPT ![v] = 0]
    /\ scheduled' = scheduled \ {v}
    /\ index' = IF at < index THEN index - 1 ELSE index
    /\ preempted' = TRUE
    /\ pc' = IF v = r THEN "ending" ELSE "allocating"
    /\ UNCHANGED <<mode, output, skipped_waiting, finished_req_ids, plan_vars, history, step_skipped,
                   reservation_deferred, borrow_reserved, accounting_active>>
    /\ prefill_limits' = Drop(prefill_limits, {v})
    /\ reclaim_beneficiaries' = BeneficiariesWith(r) \ {v}
    /\ charges' = IF accounting_active THEN Drop(charges, DOMAIN charges \ Occupied') ELSE charges
    /\ retry_capacity' = Put(retry_capacity, v, uncommitted_blocks')
    /\ available' = IF accounting_active THEN _update_available' ELSE available

-----------------------------------------------------------------------------
(* The WAITING requests *)

Queue == skipped_waiting \o waiting

WaitingLoop == pc = "waiting" /\ Len(running) < max_num_running_reqs

\* annotated_prefix: the first ordinary request is a barrier.
Considered ==
    LET n == Min({Len(Queue)} \cup {i - 1 : i \in {j \in DOMAIN Queue : Queue[j] \notin metadata}})
    IN  {Queue[i] : i \in 1..Larger(1, n)}

Blocked == {r \in Considered : status[r] \in {"loading", "loaded"}}

Dequeued(r) ==
    /\ waiting' = Without(waiting, {r})
    /\ skipped_waiting' = Without(skipped_waiting, {r})

\* The first blocked request is promoted when its load has arrived, and
\* skipped otherwise.
promote_blocked ==
    /\ WaitingLoop /\ Queue # <<>> /\ Blocked # {}
    /\ LET r == Only(Queue, Blocked)[1] IN
       IF status[r] = "loaded"
       THEN /\ status' = [status EXCEPT ![r] = "waiting"]
            /\ cached' = [cached EXCEPT ![r] = Len(table[r])]
            /\ computed' = [computed EXCEPT ![r] = Lesser(@, NumTokens(r) - 1)]
            /\ UNCHANGED <<step_skipped, waiting, skipped_waiting>>
       ELSE /\ Dequeued(r)
            /\ step_skipped' = Append(step_skipped, r)
            /\ UNCHANGED <<status, cached, computed>>
    /\ UNCHANGED <<mode, output, table, running, finished_req_ids, pc, index, scheduled, reservation_deferred,
                   borrow_reserved, preempted, account_vars, plan_vars, history>>

\* The request the loop takes next: by score, within the affinity band.
Candidate(r) ==
    /\ WaitingLoop /\ Queue # <<>> /\ Blocked = {}
    /\ r \in Considered
    /\ \A q \in Considered : scores[q] <= scores[r] + cache_affinity_score_band

\* Seeded fault: the GPU hits are counted a second time.
External_whole(r, hits) == IF r \in Loading /\ computed[r] = 0 THEN {0, NumPromptTokens[r]} ELSE {0}

\* External hits the connector may report.
External(r, hits) ==
    IF r \in Loading /\ computed[r] = 0 THEN {0, NumPromptTokens[r] - Len(hits)} ELSE {0}

\* Blocks for this step of r; an asynchronous load computes nothing yet.
StepDemand(r, hits, external) ==
    LET done == computed[r] + Len(hits) + external
        new == IF external > 0 THEN 0 ELSE NumNewTokens(r, done)
    IN  AtLeast0(done + new - Len(table[r]) - Len(hits))

\* Blocks can_allocate asks for.
Demand(r, hits, external) ==
    Larger(StepDemand(r, hits, external), admission_demand(r, Len(table[r]) + Len(hits)))

\* A preempted request is not resumed into the capacity it was preempted at.
ResumeDeferred(r) ==
    r \in DOMAIN retry_capacity /\ Admitted # {} /\ uncommitted_blocks <= retry_capacity[r]

CapacityDenied(r, demand) == demand > uncommitted_blocks \/ ResumeDeferred(r)

\* Seeded fault: the demand is not compared with what the payers have.
ReservationDenied_never(r, demand) == FALSE

ReservationDenied(r, demand) ==
    ~CapacityDenied(r, demand) /\ ~Affordable(r, demand, borrow_reserved)

can_allocate(r, demand) ==
    ~Managed \/ r \in Admitted \/ ~(CapacityDenied(r, demand) \/ ReservationDenied(r, demand))

\* The request stays in the queue.  Annotated work that only lacks a
\* reservation has a second turn.
defer(r) ==
    /\ Candidate(r)
    /\ \E hits \in Hits(r) : \E external \in External(r, hits) :
       LET demand == Demand(r, hits, external) IN
       /\ ~can_allocate(r, demand)
       /\ reservation_deferred' =
             IF ReservationDenied(r, demand) /\ r \in metadata /\ ~borrow_reserved
             THEN Append(reservation_deferred, r) ELSE reservation_deferred
    /\ Dequeued(r)
    /\ step_skipped' = Append(step_skipped, r)
    /\ history' = history \cup {TypeOf[q] : q \in {r} \cap metadata}
    /\ UNCHANGED <<mode, request_vars, running, finished_req_ids, pc, index, scheduled, borrow_reserved, preempted,
                   account_vars, plan_vars>>

\* allocate_slots wants room for all tokens the request has so far.
Fits(r, hits, external) ==
    Larger(StepDemand(r, hits, external), AtLeast0(NumTokens(r) - Len(table[r]) - Len(hits)))
        <= NumFreeBlocks

\* The request is admitted: it runs, or its load starts.
schedule_waiting(r) ==
    /\ Candidate(r)
    /\ \E hits \in Hits(r) : \E external \in External(r, hits) :
       LET new == FreshBlocks(StepDemand(r, hits, external))
           blocks == table[r] \o hits \o new
           uncharged == Cardinality(Range(blocks) \ DOMAIN charges)
       IN
       /\ can_allocate(r, Demand(r, hits, external))
       /\ Fits(r, hits, external)
       /\ IF Managed /\ r \notin Admitted /\ ~Affordable(r, uncharged, borrow_reserved)
          THEN /\ pc' = "crashed"
               /\ UNCHANGED <<mode, request_vars, queue_vars, loop_vars, account_vars, plan_vars, history>>
          ELSE /\ UNCHANGED <<mode, output, finished_req_ids, plan_vars>>
               /\ table' = [table EXCEPT ![r] = blocks]
               /\ commit(r, blocks, borrow_reserved)
               /\ Dequeued(r)
               /\ computed' = [computed EXCEPT ![r] = @ + Len(hits) + external]
               /\ IF external > 0
                  THEN /\ status' = [status EXCEPT ![r] = "loading"]
                       /\ cached' = [cached EXCEPT ![r] = Len(hits)]
                       /\ step_skipped' = Append(step_skipped, r)
                       /\ UNCHANGED <<running, scheduled>>
                  ELSE /\ status' = [status EXCEPT ![r] = "running"]
                       /\ cached' = [cached EXCEPT ![r] = Len(blocks)]
                       /\ running' = Append(running, r)
                       /\ scheduled' = scheduled \cup {r}
                       /\ UNCHANGED step_skipped
               /\ UNCHANGED <<pc, index, reservation_deferred, borrow_reserved, preempted>>

\* Seeded fault: the second turn may not borrow either.
second_turn_same ==
    /\ WaitingLoop /\ Queue = <<>> /\ reservation_deferred # <<>>
    /\ waiting' = reservation_deferred
    /\ step_skipped' = Without(step_skipped, Range(reservation_deferred))
    /\ reservation_deferred' = <<>>
    /\ UNCHANGED <<mode, request_vars, running, skipped_waiting, finished_req_ids, pc, index, scheduled,
                   borrow_reserved, preempted, account_vars, plan_vars, history>>

\* Every request has had its turn: those that lacked a reservation get
\* another, and may borrow what the others left.
second_turn ==
    /\ WaitingLoop /\ Queue = <<>> /\ reservation_deferred # <<>>
    /\ waiting' = reservation_deferred
    /\ step_skipped' = Without(step_skipped, Range(reservation_deferred))
    /\ reservation_deferred' = <<>>
    /\ borrow_reserved' = TRUE
    /\ UNCHANGED <<mode, request_vars, running, skipped_waiting, finished_req_ids, pc, index, scheduled, preempted,
                   account_vars, plan_vars, history>>

\* The waiting loop stops: nothing is left, the batch is full, or the native
\* allocator has no room.
WaitingLoopEnds ==
    /\ pc = "waiting"
    /\ \/ Len(running) >= max_num_running_reqs
       \/ Queue = <<>> /\ reservation_deferred = <<>>
       \/ \E r \in Request : Candidate(r) /\ \E hits \in Hits(r) : \E external \in External(r, hits) :
             can_allocate(r, Demand(r, hits, external)) /\ ~Fits(r, hits, external)

end_step ==
    /\ pc = "ending" \/ WaitingLoopEnds
    /\ pc' = "executing"
    /\ skipped_waiting' = step_skipped \o skipped_waiting
    /\ finished_req_ids' = {}
    /\ computed' = [r \in Request |-> IF r \in scheduled THEN computed[r] + NumNewTokens(r, computed[r])
                                      ELSE computed[r]]
    /\ index' = 0 /\ step_skipped' = <<>> /\ reservation_deferred' = <<>>
    /\ borrow_reserved' = FALSE /\ preempted' = FALSE
    /\ UNCHANGED <<mode, status, output, table, cached, running, waiting, scheduled, account_vars,
                   plan_vars, history>>

-----------------------------------------------------------------------------
(* Outside schedule() *)

add_request(r) ==
    /\ pc = "idle" /\ status[r] = "new"
    /\ status' = [status EXCEPT ![r] = "waiting"]
    /\ waiting' = Append(waiting, r)
    /\ UNCHANGED <<mode, output, computed, table, cached, running, skipped_waiting, finished_req_ids, pc, loop_vars,
                   account_vars, plan_vars, history>>

\* The requests in F are over.  Those in F \ Kept give their blocks back.
\* (release() also recomputes what is available, which nobody reads before the
\* next begin_step computes it again.)
_free_requests(F, Kept) ==
    /\ running' = Without(running, F)
    /\ waiting' = Without(waiting, F) /\ skipped_waiting' = Without(skipped_waiting, F)
    /\ finished_req_ids' = finished_req_ids \cup {r \in F : Live(r)}
    /\ status' = [r \in Request |-> IF r \in F \cap Kept THEN "aborted"
                                    ELSE IF r \in F THEN "finished" ELSE status[r]]
    /\ table' = [r \in Request |-> IF r \in F \ Kept THEN <<>> ELSE table[r]]
    /\ cached' = [r \in Request |-> IF r \in F \ Kept THEN 0 ELSE cached[r]]
    /\ computed' = [r \in Request |-> IF r \in F THEN 0 ELSE computed[r]]
    /\ prefill_limits' = Drop(prefill_limits, F)
    /\ reclaim_beneficiaries' = reclaim_beneficiaries \ F
    \* A completion allows every preempted request to try again.
    /\ retry_capacity' = IF F \cap Admitted # {} THEN <<>> ELSE Drop(retry_capacity, F)
    /\ charges' = IF accounting_active THEN Drop(charges, DOMAIN charges \ Occupied') ELSE charges
    /\ UNCHANGED <<accounting_active, available>>

\* The requests in S stop early, the others at their last token.
update_from_output(S) ==
    LET sampled == {r \in scheduled : computed[r] = NumTokens(r)}
        over == S \cup {r \in sampled : output[r] + 1 = MaxTokens[r]}
    IN  /\ pc = "executing"
        /\ S \subseteq sampled
        /\ output' = [r \in Request |-> IF r \in over THEN 0
                                        ELSE IF r \in sampled THEN output[r] + 1 ELSE output[r]]
        /\ _free_requests(over, {})
        /\ pc' = "idle" /\ scheduled' = {}
        /\ UNCHANGED <<mode, index, step_skipped, reservation_deferred, borrow_reserved, preempted,
                       plan_vars, history>>

\* A load has arrived.  The blocks of a request aborted meanwhile are freed.
finished_recving(r) ==
    /\ pc = "executing" /\ status[r] \in {"loading", "aborted"}
    /\ IF status[r] = "loading"
       THEN /\ status' = [status EXCEPT ![r] = "loaded"]
            /\ UNCHANGED <<computed, table, cached, queue_vars, account_vars>>
       ELSE _free_requests({r}, {})
    /\ UNCHANGED <<mode, output, pc, loop_vars, plan_vars, history>>

\* A request is aborted.  While its load is in flight its blocks are kept.
finish_requests(r) ==
    /\ pc \in {"idle", "executing"} /\ r \in Abortable /\ Live(r)
    /\ _free_requests({r}, {q \in {r} : status[q] = "loading"})
    /\ output' = [output EXCEPT ![r] = 0]
    /\ scheduled' = scheduled \ {r}
    /\ UNCHANGED <<mode, pc, index, step_skipped, reservation_deferred, borrow_reserved, preempted,
                   plan_vars, history>>

Engine ==
    \/ begin_step
    \/ growth_deferred
    \/ \E r \in Range(running) : schedule_running(r)
    \/ \E r, v \in Range(running) : _preempt_request(r, v)
    \/ promote_blocked
    \/ \E r \in Request : defer(r)
    \/ \E r \in Request : schedule_waiting(r)
    \/ second_turn
    \/ end_step
    \/ \E S \in SUBSET Request : update_from_output(S)

\* The engine waits for input when there is nothing left to do.
Idle == pc = "idle" /\ ~has_requests /\ UNCHANGED vars

Next ==
    \/ Engine
    \/ Idle
    \/ \E r \in Request : add_request(r)
    \/ \E r \in Request : finished_recving(r)
    \/ \E r \in Request : finish_requests(r)

Spec == Init /\ [][Next]_vars

\* run_busy_loop goes on as long as the scheduler has requests, and every load
\* in flight is reported with the output of some later step.  The first
\* conjunct of FairSpec is WF_vars(Engine) spelt out.  Engine is enabled while
\* the engine is busy: one that cannot step would be a deadlock.  Its steps
\* are those inside schedule() and those that enter or leave it, since the
\* other actions of Next are taken outside and leave pc alone.
EngineBusy == pc # "crashed" /\ (pc # "idle" \/ has_requests)

EngineStep == pc \notin {"idle", "executing"} \/ pc' # pc

FairSpec ==
    /\ Spec
    /\ []<>~EngineBusy \/ []<><<EngineStep>>_vars
    /\ \A r \in Loading : SF_vars(finished_recving(r))
-----------------------------------------------------------------------------
Owner == AgentType \cup {Shared}

\* Types of the controller and of the loops; no request is in two queues.
ControllerTypeOK ==
    /\ status \in [Request -> {"new", "waiting", "loading", "loaded", "running", "aborted", "finished"}]
    /\ \A r \in Request : table[r] \in Seq(Block) /\ cached[r] \in 0..Len(table[r])
    /\ \A r \in Request : computed[r] <= NumTokens(r) /\ output[r] < MaxTokens[r]
    /\ DOMAIN charges \subseteq Block /\ Range(charges) \subseteq Owner
    /\ Admitted \subseteq {r \in Request : Live(r)}
    /\ DOMAIN available \subseteq Owner /\ \A o \in DOMAIN available : available[o] \in 0..num_blocks
    /\ LET all == running \o waiting \o skipped_waiting \o step_skipped
       IN  Len(all) = Cardinality(Range(all)) /\ Range(all) = {r \in Request : Live(r)}

\* scheduling.py:176: "One charge per occupied physical block, including
\* shared prefix hits."  While accounting is on, exactly the occupied blocks
\* are charged, whatever was admitted, adopted, shared, preempted or freed.
ChargesExact == accounting_active => DOMAIN charges = Occupied

\* The assertion of commit, "Native allocation exceeded admitted capacity":
\* what can_allocate granted covers what allocate_slots took.
AdmissionCovers == pc # "crashed"

\* With generation reserved for all, admitted work can always finish without
\* preemption, unless work adopted from the native scheduler is among it.
CommitmentsFit ==
    mode = "all" /\ accounting_active /\ Admitted \subseteq Annotated => uncommitted_blocks >= 0

\* In its first turn a request is admitted at no expense of a critical type that
\* waits, unless it is of that type or leads it by the margin: no block is
\* charged to the reserve of such a type, and the other payers have enough for
\* all the blocks that are committed to the request.
ReservesHonoured ==
    [][\A r \in Request \ Admitted :
          r \in Admitted' /\ pc = "waiting" /\ ~borrow_reserved =>
             LET kept == {t \in waiting_critical : r \in metadata => t # TypeOf[r] /\ ~LeadsBy(r, t)} IN
             /\ \A b \in DOMAIN charges' :
                   charges'[b] \in kept => b \in DOMAIN charges /\ charges[b] = charges'[b]
             /\ uncommitted_blocks - uncommitted_blocks'
                   <= SumFunctionOnSet(available, DOMAIN available \ kept)]_vars

\* Whoever is loading from the CPU, or has its blocks from there, is admitted:
\* its remaining growth is among the commitments others must leave alone.
LoadsAdmitted ==
    accounting_active =>
        \A r \in Request : status[r] \in {"loading", "loaded"}
                           \/ (status[r] = "waiting" /\ table[r] # <<>>) => r \in Admitted

\* scheduling.py, can_allocate: "An asynchronous cache load is already
\* admitted and must be allowed to finish admission using the capacity
\* committed before the load."  A request whose load has arrived gets to run.
LoadsFinishAdmission ==
    \A r \in Request : status[r] = "loaded" ~> status[r] \in {"running", "finished"}

\* Nobody is left behind: every request that has arrived is finished in the
\* end, whatever was reserved, deferred or preempted.
AllFinish == \A r \in Request : status[r] # "new" ~> status[r] = "finished"
=============================================================================
