------------------------- MODULE SchedulingTheorems -------------------------
(***************************************************************************)
(* The admission controller keeps its books for any number of requests,    *)
(* blocks and agent types, any scores, thresholds and reserve modes.       *)
(***************************************************************************)
EXTENDS SchedulingControllerProofs, ListsProofs

-----------------------------------------------------------------------------
(* What was granted covers what is taken *)

\* The elements of two sequences put together.
LEMMA TwoRanges ==
    ASSUME Laws, NEW X, NEW s \in Seq(X), NEW t \in Seq(X)
    PROVE  s \o t \in Seq(X) /\ Range(s \o t) = Range(s) \cup Range(t)
BY DEF Laws, ConcatLaw

\* The elements of three sequences put together.
LEMMA ThreeRanges ==
    ASSUME Laws, NEW X, NEW s \in Seq(X), NEW t \in Seq(X), NEW u \in Seq(X)
    PROVE  Range(s \o t \o u) = Range(s) \cup Range(t) \cup Range(u)
<1> DEFINE v == s \o t
<1>1. v \in Seq(X) /\ Range(v) = Range(s) \cup Range(t)
    BY TwoRanges
<1> HIDE DEF v
<1>2. Range(v \o u) = Range(v) \cup Range(u)
    BY <1>1, TwoRanges
<1> QED BY <1>1, <1>2 DEF v

\* No request is granted blocks that its payers cannot pay for.
LEMMA CrashFree ==
    ASSUME Laws, Structure, AdmissionOK, LedgerOK, PursesOK, ChargesExact,
           NEW r \in Request, NEW hits, NEW external, NEW new, Granted(r, hits, external, new)
    PROVE  ~Crashes(r, table[r] \o hits \o new)
<1> DEFINE blocks == table[r] \o hits \o new
           uncharged == Range(blocks) \ DOMAIN charges
           demand == Demand(r, hits, external)
           funds == SumFunctionOnSet(available, Payers(r, borrow_reserved))
<1> SUFFICES ASSUME Managed, r \notin Admitted PROVE Affordable(r, Cardinality(uncharged), borrow_reserved)
    BY Zenon DEF Crashes
<1>1. /\ Affordable(r, demand, borrow_reserved)
      /\ demand \in Nat /\ Len(new) <= demand /\ Len(new) \in Nat
    BY GrantFacts
<1>2. /\ hits \in Seq(Block) /\ Range(hits) \subseteq Occupied
      /\ new \in Seq(Block) /\ IsInjective(new) /\ pc = "waiting"
    BY Zenon DEF Granted
<1>3. table[r] \in Seq(Block) /\ Range(table[r]) \subseteq Occupied
    BY OccupiedFacts
<1>4. Range(blocks) = Range(table[r]) \cup Range(hits) \cup Range(new)
    BY <1>2, <1>3, ThreeRanges
<1> HIDE DEF blocks
<1>5. accounting_active /\ InStep /\ DOMAIN charges = Occupied
    <2>1. InStep
        BY <1>2 DEF InStep
    <2> QED BY <2>1, Zenon DEF AdmissionOK, ChargesExact
<1>6. uncharged \in SUBSET Range(new)
    BY <1>2, <1>3, <1>4, <1>5
<1> HIDE DEF uncharged
<1>7. IsFiniteSet(Range(new)) /\ Cardinality(Range(new)) = Len(new)
    BY <1>2, Zenon DEF Laws, InjectiveLaw
<1>8. Cardinality(uncharged) \in Nat /\ Cardinality(uncharged) <= Len(new)
    BY <1>6, <1>7, Zenon DEF Laws, FiniteLaw
<1>9. funds \in Int
    <2> DEFINE D == Critical \cup {Shared}
    <2>1. Payers(r, borrow_reserved) \in SUBSET D
        BY PayerFacts
    <2>2. Critical \in SUBSET AgentType /\ IsFiniteSet(AgentType)
        BY ControllerAssumption, Zenon DEF LedgerOK, PlanOK, Critical
    <2>3. IsFiniteSet(Critical)
        BY <2>2, Zenon DEF Laws, FiniteLaw
    <2>4. IsFiniteSet(D)
        BY <2>3, Zenon DEF Laws, AddLaw
    <2>5. \A o \in D : available[o] \in Int
        BY <1>5 DEF PursesOK, Purses
    <2> HIDE DEF D
    <2> QED BY <2>1, <2>4, <2>5, Zenon DEF Laws, SumLaw
<1>10. demand <= funds
    BY <1>1, Zenon DEF Affordable
<1> HIDE DEF demand, funds
<1>11. Cardinality(uncharged) <= funds
    BY <1>1, <1>8, <1>9, <1>10
<1> QED BY <1>11 DEF Affordable, funds

\* Where charges are exact, every step keeps the admitted blocks covering the tables.
LEMMA CoversNext ==
    ASSUME Laws, Structure, Structure', AdmissionOK, LedgerOK, PursesOK, ChargesExact, AdmissionCovers, [Next]_vars
    PROVE  AdmissionCovers'
<1>1. ASSUME NEW r \in Request, schedule_waiting(r) PROVE AdmissionCovers'
    <2>1. PICK hits, external, new :
             /\ Granted(r, hits, external, new)
             /\ Crashes(r, table[r] \o hits \o new) \/ Starts(r, table[r] \o hits \o new, hits, external)
        BY <1>1, ScheduleWaitingFacts
    <2>2. Starts(r, table[r] \o hits \o new, hits, external)
        BY <2>1, CrashFree, Zenon
    <2>3. pc' = pc
        BY <2>2, Zenon DEF Starts
    <2> QED BY <2>3 DEF AdmissionCovers
<1>2. ASSUME NEW i, NEW list, NEW p, pc' = RunningLoop(i, list, p) PROVE AdmissionCovers'
    BY <1>2 DEF RunningLoop, AdmissionCovers
<1>3. CASE begin_step \/ growth_deferred \/ \E r \in Range(running) : schedule_running(r)
    BY <1>2, <1>3, Zenon DEF begin_step, growth_deferred, schedule_running
<1>4. CASE \E r, v \in Range(running) : _preempt_request(r, v)
    BY <1>4 DEF _preempt_request, AdmissionCovers
<1>5. CASE promote_blocked \/ (\E r \in Request : defer(r)) \/ second_turn
           \/ (\E r \in Request : add_request(r) \/ finished_recving(r) \/ finish_requests(r))
           \/ UNCHANGED vars
    <2>1. pc' = pc
        BY <1>5, Zenon DEF promote_blocked, defer, second_turn, add_request, finished_recving, finish_requests, vars
    <2> QED BY <2>1 DEF AdmissionCovers
<1>6. CASE end_step \/ \E S \in SUBSET Request : update_from_output(S)
    BY <1>6, Zenon DEF end_step, update_from_output, AdmissionCovers
<1>7. CASE Engine
    BY <1>1, <1>3, <1>4, <1>5, <1>6, <1>7, Zenon DEF Engine
<1> QED BY <1>5, <1>7, Zenon DEF Next, Idle

-----------------------------------------------------------------------------
(* Who pays for an admission *)

\* Whom a preemption is to benefit is admitted, and only agent types wait.
Standing == reclaim_beneficiaries \subseteq Admitted /\ waiting_critical \subseteq AgentType

\* A minimum with one element more.
LEMMA MinWith ==
    ASSUME Laws, NEW S \in SUBSET Nat, NEW g \in Nat
    PROVE  Min(S \cup {g}) = IF S = {} THEN g ELSE Lesser(Min(S), g)
<1> DEFINE T == S \cup {g}
<1>1. Min(T) \in T /\ \A y \in T : Min(T) <= y
    <2>1. T \in SUBSET Nat /\ T # {}
        OBVIOUS
    <2> HIDE DEF T
    <2> QED BY <2>1, MinFacts, Zenon
<1>2. CASE S = {}
    BY <1>1, <1>2
<1>3. CASE S # {}
    <2>1. Min(S) \in S /\ \A y \in S : Min(S) <= y
        BY <1>3, MinFacts, Zenon
    <2> DEFINE a == Min(S)  b == Min(T)
    <2>2. /\ a \in Nat /\ b \in Nat /\ b <= a /\ b <= g
          /\ b = g \/ a <= b
        BY <1>1, <2>1
    <2> HIDE DEF a, b
    <2>3. b = Lesser(a, g)
        BY <2>2 DEF Lesser
    <2> QED BY <1>3, <2>3, Zenon DEF a, b
<1> QED BY <1>2, <1>3

Inputs == [q \in Admitted |-> InputGrowth(q)]

Generations == [q \in reclaim_beneficiaries \cap Admitted |-> GenerationGrowth(q)]

Remainders == [q \in Admitted |-> _remaining_growth(q)]

Split ==
    uncommitted_blocks = NumFreeBlocks -
        CASE mode = "progress" -> SumFunction(Inputs) + _generation_headroom
          [] mode = "reclaim" -> SumFunction(Inputs) + SumFunction(Generations)
          [] OTHER -> SumFunction(Remainders)

\* What is committed, by mode.
LEMMA Splits == Split
BY Zenon DEF Split, uncommitted_blocks, CommittedTo, Inputs, Generations, Remainders

\* The same after a step.
LEMMA SplitsNext == Split'
BY Splits, PTL

\* Admission commits no more blocks to a request than its demand asks for.
LEMMA AdmissionCost ==
    ASSUME Laws, Structure, Structure', AdmissionOK, AdmissionOK', Managed,
           NEW r \in Request, r \notin Admitted, r \notin reclaim_beneficiaries,
           NEW N, NEW h, NEW blocks, NEW borrow, Commits(r, N, h, blocks, borrow)
    PROVE  /\ uncommitted_blocks - uncommitted_blocks' <= admission_demand(r, Len(table[r]) + h)
           /\ uncommitted_blocks \in Int /\ uncommitted_blocks' \in Int
<1> DEFINE m == NumTokens(r)
           t == admission_tokens(r)
           l == Len(table[r])
           k == Cardinality(N)
           inputs == AtLeast0(m - (l + h))
           full == AtLeast0(t - (l + h))
           headroom == AtLeast0(full - inputs)
           most == IF Admitted = {} THEN headroom ELSE Lesser(_generation_headroom, headroom)
<1>1. /\ Admitted' = Admitted \cup {r} /\ prefill_limits'[r] = m
      /\ \A q \in Admitted : prefill_limits'[q] = prefill_limits[q]
    BY AdmissionCommit, Zenon DEF Commits
<1>2. UNCHANGED <<mode, output, reclaim_beneficiaries>>
    BY Zenon DEF Commits, commit
<1>3. /\ \A q \in Request : q # r => table'[q] = table[q]
      /\ Len(table'[r]) = l + h + k /\ h \in Nat /\ k \in Nat /\ k <= AtLeast0(m - l - h)
    BY Zenon DEF Commits
<1>4. /\ IsFiniteSet(Admitted) /\ Admitted \subseteq Request /\ t \in Nat /\ m \in Nat /\ m <= t /\ l \in Nat
      /\ _generation_headroom \in Nat
      /\ \A q \in Admitted : _remaining_growth(q) \in Nat /\ InputGrowth(q) \in Nat /\ GenerationGrowth(q) \in Nat
    BY GrowthFacts, TokenFacts
<1>5. \A q \in Request : admission_tokens(q)' = admission_tokens(q)
    BY <1>2 DEF admission_tokens, NumTokens
<1>6. ASSUME NEW q \in Admitted
      PROVE  /\ InputGrowth(q)' = InputGrowth(q) /\ _remaining_growth(q)' = _remaining_growth(q)
             /\ GenerationGrowth(q)' = GenerationGrowth(q)
    <2>1. q \in Request /\ table'[q] = table[q] /\ prefill_limits'[q] = prefill_limits[q]
        BY <1>1, <1>3, <1>4, Zenon
    <2>2. InputGrowth(q)' = InputGrowth(q) /\ _remaining_growth(q)' = _remaining_growth(q)
        BY <1>5, <2>1, Zenon DEF InputGrowth, _remaining_growth
    <2> QED BY <2>2, Zenon DEF GenerationGrowth
<1>7. /\ InputGrowth(r)' = AtLeast0(m - (l + h + k)) /\ _remaining_growth(r)' = AtLeast0(t - (l + h + k))
      /\ GenerationGrowth(r)' = AtLeast0(AtLeast0(t - (l + h + k)) - AtLeast0(m - (l + h + k)))
    BY <1>1, <1>3, <1>5, Zenon DEF InputGrowth, _remaining_growth, GenerationGrowth
<1>8. NumFreeBlocks' = NumFreeBlocks - k /\ NumFreeBlocks \in Nat
    <2>1. Occupied' = Occupied \cup N /\ N \in SUBSET Unused /\ IsFiniteSet(Unused) /\ NumFreeBlocks \in Nat
        BY CommitsOccupied, BlockFacts, Zenon DEF Commits
    <2>2. Unused' = Unused \ N
        BY <2>1 DEF Unused
    <2>3. Cardinality(Unused \ N) = Cardinality(Unused) - Cardinality(N)
        BY <2>1, Zenon DEF Laws, FiniteLaw
    <2> QED BY <2>1, <2>2, <2>3, Zenon DEF NumFreeBlocks
<1>9. admission_demand(r, l + h) =
         CASE mode = "reclaim" -> inputs
           [] mode = "progress" -> AtLeast0(inputs + IF Admitted = {} THEN headroom
                                                     ELSE Lesser(_generation_headroom, headroom) - _generation_headroom)
           [] OTHER -> full
    BY Zenon DEF admission_demand
<1> HIDE DEF m, t, l, k
<1>counts. t \in Nat /\ m \in Nat /\ m <= t /\ l \in Nat /\ h \in Nat /\ k \in Nat /\ k <= AtLeast0(m - l - h)
    BY <1>3, <1>4, Zenon
<1>10. /\ InputGrowth(r)' + k = inputs /\ GenerationGrowth(r)' = headroom /\ _remaining_growth(r)' + k = full
    <2>1. /\ AtLeast0(m - (l + h + k)) + k = AtLeast0(m - (l + h))
          /\ AtLeast0(AtLeast0(t - (l + h + k)) - AtLeast0(m - (l + h + k)))
                = AtLeast0(AtLeast0(t - (l + h)) - AtLeast0(m - (l + h)))
          /\ AtLeast0(t - (l + h + k)) + k = AtLeast0(t - (l + h))
        BY <1>counts, SMTT(30) DEF AtLeast0
    <2> QED BY <1>7, <2>1, Zenon
<1>11. /\ inputs \in Nat /\ full \in Nat /\ headroom \in Nat
       /\ InputGrowth(r)' \in Nat /\ _remaining_growth(r)' \in Nat /\ GenerationGrowth(r)' \in Nat
    <2>1. inputs \in Nat /\ full \in Nat
        BY <1>counts, SMTT(30) DEF AtLeast0
    <2>2. headroom \in Nat
        BY <2>1 DEF AtLeast0
    <2>3. InputGrowth(r)' \in Nat /\ _remaining_growth(r)' \in Nat
        <3>1. AtLeast0(m - (l + h + k)) \in Nat /\ AtLeast0(t - (l + h + k)) \in Nat
            BY <1>counts, SMTT(30) DEF AtLeast0
        <3> QED BY <1>7, <3>1, Zenon
    <2> QED BY <1>10, <2>1, <2>2, <2>3, Zenon
<1> HIDE DEF inputs, full, headroom
<1>12. SumFunction(Inputs) \in Int /\ SumFunction(Inputs') = InputGrowth(r)' + SumFunction(Inputs)
    <2> DEFINE f == Inputs  g == Inputs'  A == Admitted'
    <2>1. DOMAIN f = Admitted /\ DOMAIN g = A /\ A = Admitted \cup {r} /\ g[r] = InputGrowth(r)'
        BY <1>1 DEF Inputs
    <2>2. g[r] \in Int /\ \A q \in Admitted : f[q] \in Int /\ g[q] = f[q]
        BY <1>1, <1>4, <1>6, <1>11, <2>1 DEF Inputs
    <2> HIDE DEF f, g, A
    <2>3. SumFunctionOnSet(f, Admitted) \in Int /\ SumFunctionOnSet(g, A) = g[r] + SumFunctionOnSet(f, Admitted)
        <3>1. IsFiniteSet(A)
            <4>1. IsFiniteSet(Admitted) /\ AddLaw
                BY <1>4, Zenon DEF Laws
            <4>2. IsFiniteSet(Admitted \cup {r})
                BY <4>1, Zenon DEF AddLaw
            <4> QED BY <2>1, <4>2, Zenon
        <3>2. A \ {r} = Admitted /\ r \in A
            BY <2>1
        <3>3. \A q \in A : g[q] \in Int
            BY <2>1, <2>2
        <3>4. SumFunctionOnSet(g, A) = g[r] + SumFunctionOnSet(g, A \ {r})
            BY <3>1, <3>2, <3>3, Zenon DEF Laws, SumLaw
        <3>5. SumFunctionOnSet(f, Admitted) = SumFunctionOnSet(g, Admitted)
            BY <1>4, <2>2, Zenon DEF Laws, SumSameLaw
        <3>6. SumFunctionOnSet(f, Admitted) \in Int
            BY <1>4, <2>2, Zenon DEF Laws, SumLaw
        <3> QED BY <3>2, <3>4, <3>5, <3>6, Zenon
    <2>4. SumFunction(f) \in Int /\ SumFunction(g) = g[r] + SumFunction(f)
        BY <2>1, <2>3, Zenon DEF SumFunction
    <2> QED BY <2>1, <2>4, Zenon DEF f, g
<1>13. SumFunction(Remainders) \in Int /\ SumFunction(Remainders') = _remaining_growth(r)' + SumFunction(Remainders)
    <2> DEFINE f == Remainders  g == Remainders'  A == Admitted'
    <2>1. DOMAIN f = Admitted /\ DOMAIN g = A /\ A = Admitted \cup {r} /\ g[r] = _remaining_growth(r)'
        BY <1>1 DEF Remainders
    <2>2. g[r] \in Int /\ \A q \in Admitted : f[q] \in Int /\ g[q] = f[q]
        BY <1>1, <1>4, <1>6, <1>11, <2>1 DEF Remainders
    <2> HIDE DEF f, g, A
    <2>3. SumFunctionOnSet(f, Admitted) \in Int /\ SumFunctionOnSet(g, A) = g[r] + SumFunctionOnSet(f, Admitted)
        <3>1. IsFiniteSet(A)
            <4>1. IsFiniteSet(Admitted) /\ AddLaw
                BY <1>4, Zenon DEF Laws
            <4>2. IsFiniteSet(Admitted \cup {r})
                BY <4>1, Zenon DEF AddLaw
            <4> QED BY <2>1, <4>2, Zenon
        <3>2. A \ {r} = Admitted /\ r \in A
            BY <2>1
        <3>3. \A q \in A : g[q] \in Int
            BY <2>1, <2>2
        <3>4. SumFunctionOnSet(g, A) = g[r] + SumFunctionOnSet(g, A \ {r})
            BY <3>1, <3>2, <3>3, Zenon DEF Laws, SumLaw
        <3>5. SumFunctionOnSet(f, Admitted) = SumFunctionOnSet(g, Admitted)
            BY <1>4, <2>2, Zenon DEF Laws, SumSameLaw
        <3>6. SumFunctionOnSet(f, Admitted) \in Int
            BY <1>4, <2>2, Zenon DEF Laws, SumLaw
        <3> QED BY <3>2, <3>4, <3>5, <3>6, Zenon
    <2>4. SumFunction(f) \in Int /\ SumFunction(g) = g[r] + SumFunction(f)
        BY <2>1, <2>3, Zenon DEF SumFunction
    <2> QED BY <2>1, <2>4, Zenon DEF f, g
<1>14. SumFunction(Generations) \in Int /\ SumFunction(Generations') = SumFunction(Generations)
    <2> DEFINE B == reclaim_beneficiaries \cap Admitted
    <2>1. (reclaim_beneficiaries \cap Admitted)' = B
        BY <1>1, <1>2
    <2>2. Generations' = [q \in B |-> GenerationGrowth(q)']
        BY <2>1, Zenon DEF Generations
    <2>3. \A q \in B : GenerationGrowth(q)' = GenerationGrowth(q) /\ GenerationGrowth(q) \in Int
        BY <1>4, <1>6
    <2>4. Generations = [q \in B |-> GenerationGrowth(q)]
        BY Zenon DEF Generations
    <2>5. IsFiniteSet(B)
        BY <1>4, Zenon DEF Laws, FiniteLaw
    <2> HIDE DEF B
    <2>6. Generations' = Generations
        BY <2>2, <2>3, <2>4
    <2>7. DOMAIN Generations = B /\ \A q \in B : Generations[q] \in Int
        BY <2>3, <2>4
    <2>8. SumFunctionOnSet(Generations, B) \in Int
        BY <2>5, <2>7, Zenon DEF Laws, SumLaw
    <2> QED BY <2>6, <2>7, <2>8, Zenon DEF SumFunction
<1>15. _generation_headroom' = most
    <2> DEFINE S == {GenerationGrowth(q) : q \in Admitted}
               S2 == {GenerationGrowth(q) : q \in Admitted}'
    <2>1. S2 = S \cup {headroom}
        BY <1>1, <1>6, <1>10
    <2>2. _generation_headroom' = Min(S2)
        <3>1. Admitted' # {}
            BY <1>1
        <3> QED BY <3>1, Zenon DEF _generation_headroom
    <2>3. S \in SUBSET Nat /\ (S = {} <=> Admitted = {}) /\ (Admitted # {} => _generation_headroom = Min(S))
        BY <1>4 DEF _generation_headroom
    <2> HIDE DEF S, S2
    <2>4. Min(S \cup {headroom}) = IF S = {} THEN headroom ELSE Lesser(Min(S), headroom)
        BY <1>11, <2>3, MinWith, Zenon
    <2> QED BY <2>1, <2>2, <2>3, <2>4
<1>16. most \in Nat /\ (Admitted = {} => _generation_headroom = 0)
    BY <1>4, <1>11 DEF Lesser, _generation_headroom
<1>17. /\ uncommitted_blocks = NumFreeBlocks -
            CASE mode = "progress" -> SumFunction(Inputs) + _generation_headroom
              [] mode = "reclaim" -> SumFunction(Inputs) + SumFunction(Generations)
              [] OTHER -> SumFunction(Remainders)
       /\ uncommitted_blocks' = NumFreeBlocks' -
            CASE mode = "progress" -> SumFunction(Inputs') + _generation_headroom'
              [] mode = "reclaim" -> SumFunction(Inputs') + SumFunction(Generations')
              [] OTHER -> SumFunction(Remainders')
    BY <1>2, Splits, SplitsNext, Zenon DEF Split
<1>18. CASE mode = "progress"
    <2>1. uncommitted_blocks = NumFreeBlocks - (SumFunction(Inputs) + _generation_headroom)
        BY <1>17, <1>18
    <2>2. uncommitted_blocks' = NumFreeBlocks' - (SumFunction(Inputs') + _generation_headroom')
        BY <1>17, <1>18
    <2>3. admission_demand(r, l + h) = AtLeast0(inputs + (most - _generation_headroom))
        <3>1. admission_demand(r, l + h) = AtLeast0(inputs + IF Admitted = {} THEN headroom
                                                             ELSE Lesser(_generation_headroom, headroom) - _generation_headroom)
            BY <1>9, <1>18
        <3> QED BY <1>4, <1>11, <1>16, <3>1 DEF most, Lesser
    <2> HIDE DEF most
    <2>4. inputs + (most - _generation_headroom) <= AtLeast0(inputs + (most - _generation_headroom))
        BY <1>4, <1>11, <1>16 DEF AtLeast0
    <2> DEFINE u == uncommitted_blocks  u2 == uncommitted_blocks'  n == NumFreeBlocks
               s == SumFunction(Inputs)  i == InputGrowth(r)'  g == _generation_headroom
    <2>5. u = n - (s + g) /\ u2 = (n - k) - ((i + s) + most) /\ i + k = inputs
        BY <1>8, <1>10, <1>12, <1>15, <2>1, <2>2, Zenon
    <2>6. n \in Nat /\ s \in Int /\ g \in Nat /\ i \in Nat /\ k \in Nat /\ most \in Nat
        BY <1>3, <1>4, <1>8, <1>11, <1>12, <1>16, Zenon
    <2> HIDE DEF u, u2, n, s, i, g
    <2>7. u \in Int /\ u2 \in Int /\ u - u2 = inputs + (most - g)
        BY <2>5, <2>6
    <2> QED BY <2>3, <2>4, <2>7, Zenon DEF l, u, u2, g
<1>19. CASE mode = "reclaim"
    <2>1. uncommitted_blocks = NumFreeBlocks - (SumFunction(Inputs) + SumFunction(Generations))
        BY <1>17, <1>19
    <2>2. uncommitted_blocks' = NumFreeBlocks' - (SumFunction(Inputs') + SumFunction(Generations'))
        BY <1>17, <1>19
    <2>3. admission_demand(r, l + h) = inputs
        BY <1>9, <1>19
    <2> DEFINE u == uncommitted_blocks  u2 == uncommitted_blocks'  n == NumFreeBlocks
               s == SumFunction(Inputs)  i == InputGrowth(r)'  g == SumFunction(Generations)
    <2>4. u = n - (s + g) /\ u2 = (n - k) - ((i + s) + g) /\ i + k = inputs
        BY <1>8, <1>10, <1>12, <1>14, <2>1, <2>2, Zenon
    <2>5. n \in Nat /\ s \in Int /\ g \in Int /\ i \in Nat /\ k \in Nat
        BY <1>3, <1>8, <1>11, <1>12, <1>14, Zenon
    <2> HIDE DEF u, u2, n, s, i, g
    <2>6. u \in Int /\ u2 \in Int /\ u - u2 <= inputs
        BY <2>4, <2>5
    <2> QED BY <2>3, <2>6, Zenon DEF l, u, u2
<1>20. CASE mode \notin {"progress", "reclaim"}
    <2>1. uncommitted_blocks = NumFreeBlocks - SumFunction(Remainders)
        BY <1>17, <1>20
    <2>2. uncommitted_blocks' = NumFreeBlocks' - SumFunction(Remainders')
        BY <1>17, <1>20
    <2>3. admission_demand(r, l + h) = full
        BY <1>9, <1>20
    <2> DEFINE u == uncommitted_blocks  u2 == uncommitted_blocks'  n == NumFreeBlocks
               s == SumFunction(Remainders)  i == _remaining_growth(r)'
    <2>4. u = n - s /\ u2 = (n - k) - (i + s) /\ i + k = full
        BY <1>8, <1>10, <1>13, <2>1, <2>2, Zenon
    <2>5. n \in Nat /\ s \in Int /\ i \in Nat /\ k \in Nat
        BY <1>3, <1>8, <1>11, <1>13, Zenon
    <2> HIDE DEF u, u2, n, s, i
    <2>6. u \in Int /\ u2 \in Int /\ u - u2 <= full
        BY <2>4, <2>5
    <2> QED BY <2>3, <2>6, Zenon DEF l, u, u2
<1> QED BY <1>18, <1>19, <1>20

\* In its first turn a request is charged to nobody whose reserve is kept, and
\* the others can afford it.
LEMMA FirstTurn ==
    ASSUME Laws, Structure, Structure', AdmissionOK, AdmissionOK', LedgerOK, PursesOK, Standing, Managed,
           NEW r \in Request, r \notin Admitted, ~borrow_reserved,
           NEW N, NEW h, NEW blocks, NEW borrow, Commits(r, N, h, blocks, borrow),
           NEW kept, kept = {t \in waiting_critical : r \in metadata => t # TypeOf[r] /\ ~LeadsBy(r, t)}
    PROVE  /\ \A b \in DOMAIN charges' :
                 charges'[b] \in kept => b \in DOMAIN charges /\ charges[b] = charges'[b]
           /\ uncommitted_blocks - uncommitted_blocks'
                 <= SumFunctionOnSet(available, DOMAIN available \ kept)
<1>1. PICK d \in Nat : admission_demand(r, Len(table[r]) + h) <= d /\ Affordable(r, d, borrow)
    BY Zenon DEF Commits, Paid
<1>2. /\ borrow = borrow_reserved /\ InStep /\ accounting_active /\ commit(r, blocks, borrow) /\ h \in Nat
    BY Zenon DEF Commits, Paid, AdmissionOK
<1>3. Payers(r, borrow) \cap kept = {} /\ Shared \notin kept
    <2>1. Shared \notin kept
        BY ControllerAssumption DEF Standing, Shared
    <2>2. ASSUME NEW t \in Payers(r, borrow), t \in kept PROVE FALSE
        BY <1>2, <2>1, <2>2, Zenon DEF Payers
    <2> QED BY <2>1, <2>2
<1>4. \A b \in DOMAIN charges' : charges'[b] \in kept => b \in DOMAIN charges /\ charges[b] = charges'[b]
    <2> DEFINE new == Range(blocks) \ DOMAIN charges
    <2>1. charges' \in ChargedWith(new, Accepted(r, new, borrow))
        BY <1>2, Zenon DEF commit
    <2> HIDE DEF new
    <2>2. \A b \in DOMAIN charges' : \/ charges'[b] \in DOMAIN Accepted(r, new, borrow)
                                     \/ (b \in DOMAIN charges /\ charges'[b] = charges[b])
        BY <2>1, ChargedFacts, Zenon
    <2>3. DOMAIN Accepted(r, new, borrow) \subseteq Payers(r, borrow) \cup {Shared}
        <3>1. DOMAIN _consumption(r, Cardinality(new), borrow) = Payers(r, borrow)
            BY Zenon DEF _consumption
        <3>2. DOMAIN [o \in {Shared} |-> Cardinality(new)] = {Shared}
            BY Zenon
        <3> QED BY <3>1, <3>2, Zenon DEF Accepted
    <2> QED BY <1>3, <2>2, <2>3, Zenon
<1>5. /\ uncommitted_blocks - uncommitted_blocks' <= admission_demand(r, Len(table[r]) + h)
      /\ uncommitted_blocks \in Int /\ uncommitted_blocks' \in Int
    <2>1. r \notin reclaim_beneficiaries
        BY DEF Standing
    <2> QED BY <2>1, AdmissionCost, Zenon
<1>6. admission_demand(r, Len(table[r]) + h) \in Nat
    <2>1. Len(table[r]) \in Nat
        BY TokenFacts, Zenon
    <2>2. Len(table[r]) + h \in Nat
        BY <1>2, <2>1
    <2> QED BY <2>2, DemandFacts, Zenon
<1> DEFINE P == Payers(r, borrow)
           D == DOMAIN available \ kept
<1>7. P \in SUBSET D /\ IsFiniteSet(D) /\ \A o \in D : available[o] \in Nat
    <2>1. DOMAIN available = Critical \cup {Shared} /\ \A o \in DOMAIN available : available[o] \in Nat
        BY <1>2, ControllerAssumption DEF PursesOK, Purses
    <2>2. Critical \in SUBSET AgentType /\ IsFiniteSet(AgentType)
        BY ControllerAssumption, Zenon DEF LedgerOK, PlanOK, Critical
    <2>3. IsFiniteSet(Critical)
        BY <2>2, Zenon DEF Laws, FiniteLaw
    <2>4. IsFiniteSet(DOMAIN available)
        BY <2>1, <2>3, Zenon DEF Laws, AddLaw
    <2>5. D \in SUBSET DOMAIN available
        BY Zenon
    <2>6. IsFiniteSet(D)
        BY <2>4, <2>5, Zenon DEF Laws, FiniteLaw
    <2>7. P \subseteq Critical \cup {Shared}
        BY PayerFacts, Zenon
    <2> QED BY <1>3, <2>1, <2>6, <2>7
<1>8. d <= SumFunctionOnSet(available, P)
    BY <1>1, Zenon DEF Affordable
<1> HIDE DEF P
<1>9. uncommitted_blocks - uncommitted_blocks' <= SumFunctionOnSet(available, D)
    <2> HIDE DEF D
    <2>1. /\ SumFunctionOnSet(available, P) \in Nat /\ SumFunctionOnSet(available, D) \in Nat
          /\ SumFunctionOnSet(available, P) <= SumFunctionOnSet(available, D)
        BY <1>7, Zenon DEF Laws, SumNatLaw
    <2> QED BY <1>1, <1>5, <1>6, <1>8, <2>1
<1> QED BY <1>4, <1>9

\* Every step keeps the beneficiaries admitted, and agent types in waiting_critical.
LEMMA StandingNext ==
    ASSUME Laws, Structure, Structure', AdmissionOK, Standing, BooksStep, [Next]_vars
    PROVE  Standing'
<1>1. reclaim_beneficiaries' \subseteq Admitted'
    <2>1. CASE Quiet
        BY <2>1 DEF Quiet, account_vars, Standing, Admitted
    <2>2. ASSUME NEW r \in Request, NEW N, NEW h, NEW blocks, NEW borrow, Commits(r, N, h, blocks, borrow)
          PROVE  reclaim_beneficiaries' \subseteq Admitted'
        <3>1. CASE Managed
            <4>1. accounting_active /\ Admitted' = Admitted \cup {r}
                BY <2>2, <3>1, AdmissionCommit, Zenon DEF Commits
            <4>2. reclaim_beneficiaries' = reclaim_beneficiaries
                BY <2>2, <3>1, Zenon DEF Commits, commit
            <4> QED BY <4>1, <4>2 DEF Standing
        <3>2. CASE ~Managed
            <4>1. UNCHANGED <<reclaim_beneficiaries, prefill_limits>>
                BY <2>2, <3>2, Zenon DEF Commits, commit, account_vars
            <4> QED BY <4>1 DEF Standing, Admitted
        <3> QED BY <3>1, <3>2
    <2>3. ASSUME NEW r \in Range(running), NEW v \in Range(running), _preempt_request(r, v)
          PROVE  reclaim_beneficiaries' \subseteq Admitted'
        <3>1. /\ reclaim_beneficiaries' = BeneficiariesWith(r) \ {v} /\ prefill_limits' = Drop(prefill_limits, {v})
              /\ InStep
            BY <2>3, Zenon DEF _preempt_request, Allocating, InStep
        <3>2. Admitted' = Admitted \ {v}
            BY <3>1, Zenon DEF Admitted, Drop
        <3>3. Managed => r \in Admitted
            BY <3>1 DEF AdmissionOK
        <3>4. BeneficiariesWith(r) \subseteq Admitted
            BY <3>3 DEF BeneficiariesWith, Standing
        <3> QED BY <3>1, <3>2, <3>4
    <2>4. ASSUME NEW F, NEW Kept, Frees(F, Kept) PROVE reclaim_beneficiaries' \subseteq Admitted'
        <3>1. reclaim_beneficiaries' = reclaim_beneficiaries \ F /\ prefill_limits' = Drop(prefill_limits, F)
            BY <2>4, Zenon DEF Frees, _free_requests
        <3>2. Admitted' = Admitted \ F
            BY <3>1, Zenon DEF Admitted, Drop
        <3> QED BY <3>1, <3>2 DEF Standing
    <2>5. CASE begin_step
        <3>1. CASE Managed
            <4>1. Admitted \subseteq Admitted' /\ reclaim_beneficiaries' = reclaim_beneficiaries
                BY <2>5, <3>1 DEF begin_step, begin_step_agents, AdoptedLimits, Admitted
            <4> QED BY <4>1 DEF Standing
        <3>2. CASE ~Managed
            BY <2>5, <3>2 DEF begin_step, begin_step_idle
        <3> QED BY <3>1, <3>2
    <2> QED BY <2>1, <2>2, <2>3, <2>4, <2>5, Zenon DEF BooksStep
<1>2. waiting_critical' = waiting_critical \/ waiting_critical' \subseteq AgentType
    <2>1. ASSUME NEW r \in Request, schedule_waiting(r) PROVE waiting_critical' = waiting_critical
        BY <2>1, ScheduleWaitingFacts, Zenon DEF Crashes, Starts, plan_vars
    <2>2. CASE begin_step
        <3>1. CASE Managed
            <4>1. WaitingTypes \subseteq AgentType
                BY ControllerAssumption DEF WaitingTypes, metadata, Annotated
            <4> QED BY <2>2, <3>1, <4>1 DEF begin_step, begin_step_agents
        <3>2. CASE ~Managed
            BY <2>2, <3>2 DEF begin_step, begin_step_idle
        <3> QED BY <3>1, <3>2
    <2>3. CASE growth_deferred \/ (\E r \in Range(running) : schedule_running(r)) \/ promote_blocked
               \/ (\E r, v \in Range(running) : _preempt_request(r, v))
               \/ (\E r \in Request : defer(r)) \/ second_turn \/ end_step
               \/ \E S \in SUBSET Request : update_from_output(S)
        BY <2>3, Zenon DEF growth_deferred, schedule_running, promote_blocked, _preempt_request, defer, second_turn,
           end_step, update_from_output, plan_vars
    <2>4. CASE UNCHANGED vars \/ \E r \in Request : add_request(r) \/ finished_recving(r) \/ finish_requests(r)
        BY <2>4, Zenon DEF add_request, finished_recving, finish_requests, plan_vars, vars
    <2>5. CASE Engine
        BY <2>1, <2>2, <2>3, <2>5, Zenon DEF Engine
    <2> QED BY <2>4, <2>5, Zenon DEF Next, Idle
<1> QED BY <1>1, <1>2 DEF Standing

\* In the waiting loop, whoever is admitted by a step has been committed blocks by it.
LEMMA Admits ==
    ASSUME Laws, Structure, Structure', AdmissionOK, BooksStep, pc = "waiting",
           NEW r \in Request, r \notin Admitted, r \in Admitted'
    PROVE  Managed /\ \E N, h, blocks, borrow : Commits(r, N, h, blocks, borrow)
<1>1. ~begin_step
    BY DEF begin_step
<1>2. ~Quiet
    BY DEF Quiet, account_vars, Admitted
<1>3. ASSUME NEW F, NEW Kept, Frees(F, Kept) PROVE FALSE
    BY <1>3 DEF Frees, _free_requests, Drop, Admitted
<1>4. ASSUME NEW q \in Range(running), NEW v \in Range(running), _preempt_request(q, v) PROVE FALSE
    BY <1>4 DEF _preempt_request, Allocating
<1>5. PICK q \in Request : \E N, h, blocks, borrow : Commits(q, N, h, blocks, borrow)
    BY <1>1, <1>2, <1>3, <1>4, Zenon DEF BooksStep
<1>6. PICK N, h, blocks, borrow : Commits(q, N, h, blocks, borrow)
    BY <1>5
<1>7. Managed
    <2>1. ASSUME ~Managed PROVE FALSE
        <3>1. prefill_limits' = prefill_limits
            BY <1>6, <2>1, Zenon DEF Commits, commit, account_vars
        <3> QED BY <3>1 DEF Admitted
    <2> QED BY <2>1
<1>8. accounting_active => Admitted' = Admitted \cup {q}
    BY <1>6, AdmissionCommit, Zenon DEF Commits
<1>9. accounting_active
    BY <1>6, <1>7, Zenon DEF Commits, AdmissionOK
<1>10. q = r
    BY <1>8, <1>9
<1> QED BY <1>6, <1>7, <1>10, Zenon

-----------------------------------------------------------------------------
(* What the invariants say *)

\* The books are balanced at the start, when nothing is committed.
LEMMA BooksInit ==
    ASSUME Laws, Init
    PROVE  AdmissionOK /\ LedgerOK /\ PursesOK /\ ChargesExact /\ AdmissionCovers /\ LoadsAdmitted /\ Covered
<1>1. /\ pc = "idle" /\ accounting_active = FALSE /\ charges = <<>> /\ prefill_limits = <<>>
      /\ available = [o \in {Shared} |-> 0] /\ plan = NoPlan /\ reserve_ratio = reserve_ratio_min
      /\ history = {} /\ status = [r \in Request |-> "new"] /\ running = <<>>
    BY DEF Init
<1>2. Annotated \subseteq Request /\ num_blocks \in Nat /\ reserve_ratio_min \in 0..100
    BY ControllerAssumption
<1>3. AdmissionOK
    <2>1. \A r \in Annotated : ~Live(r)
        BY <1>1, <1>2 DEF Live
    <2>2. Admitted = {} /\ ~InStep
        BY <1>1 DEF Admitted, InStep
    <2> QED BY <1>1, <2>1, <2>2, Zenon DEF AdmissionOK
<1>4. LedgerOK
    <2>1. PlanOK(NoPlan)
        BY <1>2 DEF PlanOK, NoPlan
    <2> QED BY <1>1, <1>2, <2>1 DEF LedgerOK
<1>5. PursesOK
    <2>1. Purses(available)
        BY <1>1, <1>2 DEF Purses, Owner
    <2> QED BY <1>1, <2>1 DEF PursesOK
<1>6. ChargesExact /\ AdmissionCovers /\ LoadsAdmitted /\ Covered
    BY <1>1 DEF ChargesExact, AdmissionCovers, LoadsAdmitted, Covered
<1> QED BY <1>3, <1>4, <1>5, <1>6

\* Two lists without repetition and without a common element, put together, repeat nothing.
LEMMA Joined ==
    ASSUME Laws, NEW X, NEW s \in Seq(X), NEW t \in Seq(X),
           IsInjective(s), IsInjective(t), Range(s) \cap Range(t) = {}
    PROVE  s \o t \in Seq(X) /\ Range(s \o t) = Range(s) \cup Range(t) /\ IsInjective(s \o t)
<1>1. s \o t \in Seq(X) /\ Range(s \o t) = Range(s) \cup Range(t)
    BY TwoRanges
<1>2. IsInjective(s \o t)
    BY Zenon DEF Laws, JoinLaw
<1> QED BY <1>1, <1>2

\* A sound engine is well typed.
LEMMA TypesHold ==
    ASSUME Laws, Structure, AdmissionOK, LedgerOK, PursesOK
    PROVE  ControllerTypeOK
<1> DEFINE two == running \o waiting
           three == two \o skipped_waiting
           all == three \o step_skipped
<1>1. /\ status \in [Request -> Statuses]
      /\ running \in Seq(Request) /\ waiting \in Seq(Request) /\ skipped_waiting \in Seq(Request)
      /\ step_skipped \in Seq(Request)
      /\ IsInjective(running) /\ IsInjective(waiting) /\ IsInjective(skipped_waiting) /\ IsInjective(step_skipped)
      /\ Range(running) = {r \in Request : status[r] = "running"}
      /\ Range(waiting) \cup Range(skipped_waiting) \cup Range(step_skipped)
            = {r \in Request : status[r] \in {"waiting", "loading", "loaded"}}
      /\ Range(waiting) \cap Range(skipped_waiting) = {} /\ Range(waiting) \cap Range(step_skipped) = {}
      /\ Range(skipped_waiting) \cap Range(step_skipped) = {}
    BY Zenon DEF Structure, QueuesOK
<1>2. /\ Range(running) \cap Range(waiting) = {} /\ Range(running) \cap Range(skipped_waiting) = {}
      /\ Range(running) \cap Range(step_skipped) = {}
    BY <1>1, Zenon
<1>3. two \in Seq(Request) /\ Range(two) = Range(running) \cup Range(waiting) /\ IsInjective(two)
    BY <1>1, <1>2, Joined, Zenon
<1> HIDE DEF two
<1>4. three \in Seq(Request) /\ Range(three) = Range(two) \cup Range(skipped_waiting) /\ IsInjective(three)
    <2>1. Range(two) \cap Range(skipped_waiting) = {}
        BY <1>1, <1>2, <1>3
    <2> QED BY <1>1, <1>3, <2>1, Joined, Zenon
<1> HIDE DEF three
<1>5. all \in Seq(Request) /\ Range(all) = Range(three) \cup Range(step_skipped) /\ IsInjective(all)
    <2>1. Range(three) \cap Range(step_skipped) = {}
        BY <1>1, <1>2, <1>3, <1>4
    <2> QED BY <1>1, <1>4, <2>1, Joined, Zenon
<1> HIDE DEF all
<1>6. Len(all) = Cardinality(Range(all))
    BY <1>5, Zenon DEF Laws, InjectiveLaw
<1>7. Range(all) = {r \in Request : Live(r)}
    BY <1>1, <1>3, <1>4, <1>5 DEF Live
<1>8. all = running \o waiting \o skipped_waiting \o step_skipped
    BY DEF all, three, two
<1>9. \A r \in Request : /\ table[r] \in Seq(Block) /\ cached[r] \in 0..Len(table[r])
                         /\ computed[r] <= NumTokens(r) /\ output[r] < MaxTokens[r]
    <2>1. ASSUME NEW r \in Request
          PROVE  /\ table[r] \in Seq(Block) /\ cached[r] \in 0..Len(table[r])
                 /\ computed[r] <= NumTokens(r) /\ output[r] < MaxTokens[r]
        <3>1. RequestOK(status[r], output[r], computed[r], table[r], cached[r], r)
            BY Zenon DEF Structure, RequestsOK
        <3>2. Len(table[r]) \in Nat
            BY TokenFacts, Zenon
        <3> QED BY <3>1, <3>2 DEF RequestOK, NumTokens
    <2> QED BY <2>1, Zenon
<1>10. DOMAIN charges \subseteq Block /\ Range(charges) \subseteq Owner
    BY DEF LedgerOK, Range
<1>11. Admitted \subseteq {r \in Request : Live(r)}
    BY DEF AdmissionOK
<1>12. DOMAIN available \subseteq Owner /\ \A o \in DOMAIN available : available[o] \in 0..num_blocks
    BY DEF PursesOK, Purses
<1> QED BY <1>1, <1>6, <1>7, <1>8, <1>9, <1>10, <1>11, <1>12, Zenon DEF ControllerTypeOK, Statuses

\* What is covered fits.
LEMMA CommitmentsHold ==
    ASSUME Laws, Structure, AdmissionOK, Covered
    PROVE  CommitmentsFit
<1> SUFFICES ASSUME mode = "all", accounting_active, Admitted \subseteq Annotated PROVE uncommitted_blocks >= 0
    BY DEF CommitmentsFit
<1>1. NumFreeBlocks \in Nat /\ uncommitted_blocks = NumFreeBlocks - Promised
    BY AllReservedFacts DEF AllReserved
<1>2. CASE Admitted = {}
    <2>1. Promised = 0
        BY <1>2, Zenon DEF Promised, Laws, NoSumLaw
    <2> QED BY <1>1, <2>1
<1>3. CASE Admitted # {}
    BY <1>3 DEF Covered
<1> QED BY <1>2, <1>3

-----------------------------------------------------------------------------
(* The theorems *)

\* The queues, the requests and the books of the controller.
ControllerInv == Structure /\ AdmissionOK /\ LedgerOK /\ PursesOK

\* The inductive invariant holds initially.
LEMMA InvInit == Init => ControllerInv
BY LawsHold, StructureInit, BooksInit DEF ControllerInv

\* Every step keeps the inductive invariant.
LEMMA InvNext == ControllerInv /\ [Next]_vars => ControllerInv' /\ BooksStep
<1> SUFFICES ASSUME ControllerInv, [Next]_vars PROVE ControllerInv' /\ BooksStep
    OBVIOUS
<1>1. Laws /\ Structure /\ AdmissionOK /\ LedgerOK /\ PursesOK
    BY LawsHold, Zenon DEF ControllerInv
<1>2. Structure'
    BY <1>1, StructureNext, Zenon
<1>3. BooksStep
    BY <1>1, <1>2, StepKinds, Zenon
<1>4. AdmissionOK'
    BY <1>3, Zenon DEF BooksStep
<1>5. LedgerOK'
    BY <1>1, <1>2, <1>3, LedgerNext, Zenon
<1>6. PursesOK'
    BY <1>1, <1>2, <1>3, <1>5, PursesNext, Zenon
<1> QED BY <1>2, <1>3, <1>4, <1>5, <1>6, Zenon DEF ControllerInv

\* Whatever arrives, is admitted, deferred, preempted, loaded or aborted, each
\* live request is in exactly one queue of the scheduler, only live requests
\* and aborted loads hold blocks, and no request computes more tokens than it
\* has.
THEOREM QueuesAreSound == Spec => []Structure
<1>1. Init => Structure
    BY LawsHold, StructureInit, Zenon
<1>2. Structure /\ [Next]_vars => Structure'
    BY LawsHold, StructureNext, Zenon
<1> QED BY <1>1, <1>2, PTL DEF Spec

\* The loops of schedule() and the controller keep their types: no request is
\* in two queues, who is admitted is live, and no payer has less than nothing
\* left or more than the pool has.
THEOREM ControllerTypes == Spec => []ControllerTypeOK
<1>1. Init => ControllerInv
    BY InvInit
<1>2. ControllerInv /\ [Next]_vars => ControllerInv'
    BY InvNext, Zenon
<1>3. ControllerInv => ControllerTypeOK
    BY LawsHold, TypesHold, Zenon DEF ControllerInv
<1> QED BY <1>1, <1>2, <1>3, PTL DEF Spec

\* With generation reserved for all (mode "all"), what is promised to admitted
\* agent requests never exceeds the free blocks.
THEOREM CommitmentsAlwaysFit == Spec => []CommitmentsFit
<1> DEFINE Inv == ControllerInv /\ Covered
<1>1. Init => Inv
    BY LawsHold, InvInit, BooksInit, Zenon
<1>2. Inv /\ [Next]_vars => Inv'
    <2>1. SUFFICES ASSUME ControllerInv, Covered, [Next]_vars PROVE ControllerInv' /\ Covered'
        OBVIOUS
    <2>2. ControllerInv' /\ BooksStep
        BY <2>1, InvNext, Zenon
    <2>3. Covered'
        BY <2>1, <2>2, LawsHold, CoveredNext, Zenon DEF ControllerInv
    <2> QED BY <2>2, <2>3
<1>3. Inv => CommitmentsFit
    BY LawsHold, CommitmentsHold, Zenon DEF ControllerInv
<1> QED BY <1>1, <1>2, <1>3, PTL DEF Spec

\* Where no request is aborted while it loads, a step of the engine keeps one
\* charge per occupied block, and what can_allocate granted covers what
\* allocate_slots took.
LEMMA ExactNext ==
    ASSUME NoLoadAborted, ControllerInv, ChargesExact, AdmissionCovers, [Next]_vars
    PROVE  ControllerInv' /\ ChargesExact' /\ AdmissionCovers'
<1>1. Laws /\ Structure /\ AdmissionOK /\ LedgerOK /\ PursesOK
    BY LawsHold, Zenon DEF ControllerInv
<1>2. ControllerInv' /\ BooksStep
    BY InvNext, Zenon
<1>3. ChargesExact'
    BY <1>1, <1>2, ChargesNext, Zenon
<1>4. AdmissionCovers'
    BY <1>1, <1>2, CoversNext, Zenon DEF ControllerInv
<1> QED BY <1>2, <1>3, <1>4

\* Where no request is aborted while its load is in flight, exactly the
\* occupied blocks are charged while accounting is on.
THEOREM ChargesAreExact ==
    ASSUME NoLoadAborted
    PROVE  Spec => []ChargesExact
<1> DEFINE Inv == ControllerInv /\ ChargesExact /\ AdmissionCovers
<1>1. Init => Inv
    BY LawsHold, InvInit, BooksInit, Zenon
<1>2. Inv /\ [Next]_vars => Inv'
    BY ExactNext, Zenon
<1> QED BY <1>1, <1>2, PTL DEF Spec

\* Where no request is aborted while its load is in flight, the assertion of
\* commit, "Native allocation exceeded admitted capacity", never fails.
THEOREM AdmissionAlwaysCovers ==
    ASSUME NoLoadAborted
    PROVE  Spec => []AdmissionCovers
<1> DEFINE Inv == ControllerInv /\ ChargesExact /\ AdmissionCovers
<1>1. Init => Inv
    BY LawsHold, InvInit, BooksInit, Zenon
<1>2. Inv /\ [Next]_vars => Inv'
    BY ExactNext, Zenon
<1> QED BY <1>1, <1>2, PTL DEF Spec

\* Where only annotated requests load from the CPU, whoever loads, or has its
\* blocks from a load, is admitted while accounting is on.
THEOREM LoadsAreAdmitted ==
    ASSUME AgentsLoad
    PROVE  Spec => []LoadsAdmitted
<1> DEFINE Inv == ControllerInv /\ LoadsAdmitted
<1>1. Init => Inv
    BY LawsHold, InvInit, BooksInit, Zenon
<1>2. Inv /\ [Next]_vars => Inv'
    <2>1. SUFFICES ASSUME ControllerInv, LoadsAdmitted, [Next]_vars PROVE ControllerInv' /\ LoadsAdmitted'
        OBVIOUS
    <2>2. ControllerInv' /\ BooksStep
        BY <2>1, InvNext, Zenon
    <2>3. LoadsAdmitted'
        BY <2>1, <2>2, LawsHold, LoadsNext, Zenon DEF ControllerInv
    <2> QED BY <2>2, <2>3
<1> QED BY <1>1, <1>2, PTL DEF Spec
\* In its first turn a request is admitted at no expense of a critical type
\* that waits, unless it is of that type or leads it by the margin: no block is
\* charged to such a type, and the purses of the others cover all that the
\* admission commits.
THEOREM ReservesAreHonoured == Spec => ReservesHonoured
<1> DEFINE Inv == ControllerInv /\ Standing
           Honoured ==
               \A r \in Request \ Admitted :
                  r \in Admitted' /\ pc = "waiting" /\ ~borrow_reserved =>
                     LET kept == {t \in waiting_critical : r \in metadata => t # TypeOf[r] /\ ~LeadsBy(r, t)} IN
                     /\ \A b \in DOMAIN charges' :
                           charges'[b] \in kept => b \in DOMAIN charges /\ charges[b] = charges'[b]
                     /\ uncommitted_blocks - uncommitted_blocks'
                           <= SumFunctionOnSet(available, DOMAIN available \ kept)
<1>1. Init => Inv
    <2>1. Init => Standing
        BY DEF Init, Standing
    <2> QED BY <2>1, InvInit
<1>2. Inv /\ [Next]_vars => Inv' /\ Honoured
    <2>1. SUFFICES ASSUME ControllerInv, Standing, [Next]_vars PROVE ControllerInv' /\ Standing' /\ Honoured
        OBVIOUS
    <2>2. ControllerInv' /\ BooksStep
        BY <2>1, InvNext, Zenon
    <2>3. /\ Laws /\ Structure /\ AdmissionOK /\ LedgerOK /\ PursesOK
          /\ Structure' /\ AdmissionOK'
        BY <2>1, <2>2, LawsHold, Zenon DEF ControllerInv
    <2>4. Standing'
        BY <2>1, <2>2, <2>3, StandingNext, Zenon
    <2>5. ASSUME NEW r \in Request, r \notin Admitted, r \in Admitted', pc = "waiting", ~borrow_reserved
          PROVE  Managed /\ \E N, h, blocks, borrow : Commits(r, N, h, blocks, borrow)
        BY <2>2, <2>3, <2>5, Admits, Zenon
    <2>6. ASSUME NEW r \in Request, r \notin Admitted, r \in Admitted', pc = "waiting", ~borrow_reserved, NEW kept,
                 kept = {t \in waiting_critical : r \in metadata => t # TypeOf[r] /\ ~LeadsBy(r, t)}
          PROVE  /\ \A b \in DOMAIN charges' :
                       charges'[b] \in kept => b \in DOMAIN charges /\ charges[b] = charges'[b]
                 /\ uncommitted_blocks - uncommitted_blocks'
                       <= SumFunctionOnSet(available, DOMAIN available \ kept)
        <3>1. PICK N, h, blocks, borrow : Commits(r, N, h, blocks, borrow)
            BY <2>5, <2>6, Zenon
        <3>2. Managed
            BY <2>5, <2>6, Zenon
        <3> QED BY <2>1, <2>3, <2>6, <3>1, <3>2, FirstTurn, Zenon
    <2>7. Honoured
        BY <2>6, Zenon
    <2> QED BY <2>2, <2>4, <2>7
<1>3. ReservesHonoured <=> [][Honoured]_vars
    BY DEF ReservesHonoured
<1> HIDE DEF Inv, Honoured
<1> QED BY <1>1, <1>2, <1>3, PTL DEF Spec
=============================================================================
