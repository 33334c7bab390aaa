------------------------------- MODULE Queues -------------------------------
(***************************************************************************)
(* The queues a live request can be in, and the laws of lists, finite sets *)
(* and queues that the proofs about the scheduler use.  The laws are       *)
(* proved in ListsProofs.  The proofs about the scheduler assume them by   *)
(* name and SchedulingTheorems discharges them, because the provers get    *)
(* slow where the theorems of the library and the definitions of the       *)
(* scheduler are around at the same time.                                  *)
(***************************************************************************)
EXTENDS Lists

Statuses == {"new", "waiting", "loading", "loaded", "running", "aborted", "finished"}

\* The queues ru, wa, sk and ss hold each live request once, ru the running
\* ones; rd are some of the requests skipped in this step.
QueuesOK(R, st, ru, wa, sk, ss, rd) ==
    /\ st \in [R -> Statuses]
    /\ ru \in Seq(R) /\ wa \in Seq(R) /\ sk \in Seq(R)
    /\ ss \in Seq(R) /\ rd \in Seq(R)
    /\ IsInjective(ru) /\ IsInjective(wa) /\ IsInjective(sk) /\ IsInjective(ss) /\ IsInjective(rd)
    /\ Range(ru) = {r \in R : st[r] = "running"}
    /\ Range(wa) \cup Range(sk) \cup Range(ss) = {r \in R : st[r] \in {"waiting", "loading", "loaded"}}
    /\ Range(wa) \cap Range(sk) = {} /\ Range(wa) \cap Range(ss) = {} /\ Range(sk) \cap Range(ss) = {}
    /\ Range(rd) \subseteq Range(ss)

-----------------------------------------------------------------------------
\* A set of naturals has a least element.
LeastLaw == \A S \in SUBSET Nat : S # {} => \E x \in S : \A y \in S : x <= y

\* Part of an interval is finite, and as many of its elements can be listed.
IntervalLaw ==
    \A n \in Nat : \A S \in SUBSET (1..n) :
        /\ IsFiniteSet(S) /\ Cardinality(S) \in 0..n
        /\ \A k \in Nat : k <= Cardinality(S) => \E s \in [1..k -> S] : IsInjective(s)

EmptyLaw == Cardinality({}) = 0 /\ Range(<<>>) = {} /\ IsInjective(<<>>) /\ \A X : <<>> \in Seq(X)

\* Finite sets and their parts.
FiniteLaw ==
    \A S : IsFiniteSet(S) =>
        /\ Cardinality(S) \in Nat
        /\ \A T \in SUBSET S :
              /\ IsFiniteSet(T) /\ Cardinality(T) \in Nat /\ Cardinality(T) <= Cardinality(S)
              /\ Cardinality(S \ T) = Cardinality(S) - Cardinality(T)

AddLaw == \A S, x : IsFiniteSet(S) => IsFiniteSet(S \cup {x})

\* Sums of integers over a finite set.
SumLaw ==
    \A S, f : IsFiniteSet(S) /\ (\A x \in S : f[x] \in Int) =>
        /\ \A T \in SUBSET S : SumFunctionOnSet(f, T) \in Int
        /\ \A y \in S : SumFunctionOnSet(f, S) = f[y] + SumFunctionOnSet(f, S \ {y})

NoSumLaw == \A f : SumFunctionOnSet(f, {}) = 0

SumSameLaw ==
    \A S, f, g : IsFiniteSet(S) /\ (\A x \in S : f[x] = g[x]) =>
        SumFunctionOnSet(f, S) = SumFunctionOnSet(g, S)

\* Sums of naturals grow with the set.
SumNatLaw ==
    \A S, f : IsFiniteSet(S) /\ (\A x \in S : f[x] \in Nat) =>
        \A T \in SUBSET S :
            SumFunctionOnSet(f, T) \in Nat /\ SumFunctionOnSet(f, T) <= SumFunctionOnSet(f, S)

\* A list without repetitions is as long as its set of elements is large.
InjectiveLaw ==
    \A X : \A s \in Seq(X) : IsInjective(s) => IsFiniteSet(Range(s)) /\ Cardinality(Range(s)) = Len(s)

RangeLaw ==
    \A X : \A s \in Seq(X) :
        /\ Range(s) \subseteq X /\ Len(s) \in Nat
        /\ \A i \in 1..Len(s) : s[i] \in Range(s)
        /\ Range(s) = {} <=> Len(s) = 0

ConcatLaw ==
    \A X : \A s, t \in Seq(X) :
        s \o t \in Seq(X) /\ Range(s \o t) = Range(s) \cup Range(t) /\ Len(s \o t) = Len(s) + Len(t)

JoinLaw ==
    \A X : \A s, t \in Seq(X) :
        IsInjective(s) /\ IsInjective(t) /\ Range(s) \cap Range(t) = {} => IsInjective(s \o t)

OnlyLaw ==
    \A X, K : \A s \in Seq(X) : Only(s, K) \in Seq(X) /\ Range(Only(s, K)) = Range(s) \cap K

-----------------------------------------------------------------------------
\* The requests in F are over and leave the queues.
FreedLaw ==
    \A R, st, ru, wa, sk, F : \A st2 \in [R -> Statuses] :
        /\ QueuesOK(R, st, ru, wa, sk, <<>>, <<>>)
        /\ \A q \in R : IF q \in F THEN st2[q] \in {"aborted", "finished"} ELSE st2[q] = st[q]
        => QueuesOK(R, st2, Without(ru, F), Without(wa, F), Without(sk, F), <<>>, <<>>)

\* Request r has a new status of the kind it had.
RelabelledLaw ==
    \A R, st, ru, wa, sk, ss, rd : \A r \in R : \A x \in {"waiting", "loaded"} :
        QueuesOK(R, st, ru, wa, sk, ss, rd) /\ st[r] \in {"loading", "loaded"}
        => QueuesOK(R, [st EXCEPT ![r] = x], ru, wa, sk, ss, rd)

\* Request r leaves the queue for the skipped ones.
SkippedLaw ==
    \A R, st, ru, wa, sk, ss, rd : \A r \in Range(wa) \cup Range(sk) : \A st2 \in [R -> Statuses] :
        /\ QueuesOK(R, st, ru, wa, sk, ss, rd)
        /\ st2[r] \in {"waiting", "loading", "loaded"} /\ \A q \in R : q # r => st2[q] = st[q]
        => /\ QueuesOK(R, st2, ru, Without(wa, {r}), Without(sk, {r}), Append(ss, r), rd)
           /\ QueuesOK(R, st2, ru, Without(wa, {r}), Without(sk, {r}), Append(ss, r), Append(rd, r))

\* Request r leaves the queue and runs.
StartedLaw ==
    \A R, st, ru, wa, sk, ss, rd : \A r \in Range(wa) \cup Range(sk) :
        QueuesOK(R, st, ru, wa, sk, ss, rd)
        => QueuesOK(R, [st EXCEPT ![r] = "running"], Append(ru, r), Without(wa, {r}), Without(sk, {r}), ss, rd)

\* A running request goes back to the front of the queue.
PreemptedLaw ==
    \A R, st, ru, wa, sk, ss, rd : \A v \in Range(ru) :
        QueuesOK(R, st, ru, wa, sk, ss, rd)
        => QueuesOK(R, [st EXCEPT ![v] = "waiting"], Without(ru, {v}), <<v>> \o wa, sk, ss, rd)

\* A new request goes to the end of the queue.
AddedLaw ==
    \A R, st, ru, wa, sk, ss, rd : \A r \in R :
        QueuesOK(R, st, ru, wa, sk, ss, rd) /\ st[r] = "new"
        => QueuesOK(R, [st EXCEPT ![r] = "waiting"], ru, Append(wa, r), sk, ss, rd)

\* The second turn, and the end of the step.
TurnedLaw ==
    \A R, st, ru, wa, sk, ss, rd : QueuesOK(R, st, ru, wa, sk, ss, rd) =>
        /\ Range(wa) = {} => QueuesOK(R, st, ru, rd, sk, Without(ss, Range(rd)), <<>>)
        /\ QueuesOK(R, st, ru, wa, ss \o sk, <<>>, <<>>)

Laws ==
    /\ LeastLaw /\ IntervalLaw /\ FiniteLaw /\ AddLaw /\ SumLaw /\ SumSameLaw /\ SumNatLaw
    /\ NoSumLaw /\ EmptyLaw /\ InjectiveLaw /\ RangeLaw /\ ConcatLaw /\ JoinLaw /\ OnlyLaw
    /\ FreedLaw /\ RelabelledLaw /\ SkippedLaw /\ StartedLaw /\ PreemptedLaw /\ AddedLaw /\ TurnedLaw
=============================================================================
