--------------------- MODULE CPUOffloadingManagerProofs ---------------------
(***************************************************************************)
(* What the operations of the CPU block pool are made of, for any keys and *)
(* capacity: the eviction policies keep their lists sound and take the     *)
(* oldest keys they may take, block ids are never lost or given out twice, *)
(* and each change of the pool keeps it sound.                             *)
(***************************************************************************)
EXTENDS CPUOffloadingManager, ListsProofs

-----------------------------------------------------------------------------
(* The eviction policies *)

\* The function that computes Unit.
IsFactorial(f, n) == f = [i \in 0..n |-> IF i = 0 THEN 1 ELSE i * f[i - 1]]

\* Up to every bound the recursion of the factorial has a solution.
LEMMA FactorialExists == \A n \in Nat : \E f : IsFactorial(f, n)
<1> DEFINE S == {n \in Nat : \E f : IsFactorial(f, n)}
<1>1. 0 \in S
    <2>1. IsFactorial([i \in 0..0 |-> 1], 0)
        BY DEF IsFactorial
    <2> QED BY <2>1
<1>2. ASSUME NEW n \in Nat, n \in S
      PROVE  n + 1 \in S
    <2>1. PICK f : IsFactorial(f, n)
        BY <1>2
    <2> DEFINE last == (n + 1) * f[n]
               g == [i \in 0..(n + 1) |-> IF i = n + 1 THEN last ELSE f[i]]
    <2>2. \A i \in 0..n : f[i] = IF i = 0 THEN 1 ELSE i * f[i - 1]
        BY <2>1 DEF IsFactorial
    <2> HIDE DEF last
    <2>3. (\A i \in 0..n : g[i] = f[i]) /\ g[n + 1] = last /\ g = [i \in 0..(n + 1) |-> g[i]]
        OBVIOUS
    <2> HIDE DEF g
    <2>4. \A i \in 0..(n + 1) : g[i] = IF i = 0 THEN 1 ELSE i * g[i - 1]
        <3> TAKE i \in 0..(n + 1)
        <3>1. CASE i = n + 1
            <4>1. g[i - 1] = f[n] /\ i # 0
                BY <2>3, <3>1, SMTT(30)
            <4> QED BY <4>1, <2>3, <3>1 DEF last
        <3>2. CASE i = 0
            <4>1. 0 \in 0..n
                OBVIOUS
            <4>2. g[0] = f[0] /\ f[0] = 1
                BY <4>1, <2>2, <2>3, Zenon
            <4> QED BY <4>2, <3>2
        <3>3. CASE i \in 1..n
            <4>1. i - 1 \in 0..n /\ i \in 0..n
                BY <3>3
            <4> QED BY <4>1, <2>2, <2>3, <3>3, Zenon
        <3> QED BY <3>1, <3>2, <3>3
    <2>5. IsFactorial(g, n + 1)
        BY <2>3, <2>4, Zenon DEF IsFactorial
    <2> QED BY <2>5
<1> HIDE DEF S
<1>3. \A n \in Nat : n \in S
    BY <1>1, <1>2, NatSetInduction
<1> QED BY <1>3 DEF S

\* The target's scale is a positive number.
LEMMA UnitPositive == Unit \in Nat \ {0}
<1> DEFINE f == CHOOSE f : IsFactorial(f, num_blocks)
<1>1. IsFactorial(f, num_blocks)
    <2>1. \E g : IsFactorial(g, num_blocks)
        BY CapacityAssumption, FactorialExists
    <2> QED BY <2>1
<1>2. Unit = f[num_blocks]
    BY DEF Unit, IsFactorial
<1> HIDE DEF f
<1> DEFINE S == {n \in Nat : n <= num_blocks => f[n] \in Nat \ {0}}
<1>3. 0 \in S
    BY <1>1, CapacityAssumption DEF IsFactorial
<1>4. ASSUME NEW n \in Nat, n \in S
      PROVE  n + 1 \in S
    <2>1. SUFFICES ASSUME n < num_blocks PROVE f[n + 1] \in Nat \ {0}
        BY CapacityAssumption
    <2>2. f[n + 1] = (n + 1) * f[n]
        BY <1>1, <2>1, CapacityAssumption DEF IsFactorial
    <2>3. f[n] \in Nat \ {0}
        BY <1>4, <2>1, CapacityAssumption
    <2>4. \A a, b \in Nat \ {0} : a * b \in Nat \ {0}
        OBVIOUS
    <2> QED BY <2>2, <2>3, <2>4
<1> HIDE DEF S
<1>5. \A n \in Nat : n \in S
    BY <1>3, <1>4, NatSetInduction
<1>6. num_blocks \in S
    BY <1>5, CapacityAssumption
<1> QED BY <1>2, <1>6, CapacityAssumption DEF S

\* The parts of a policy's state.
LEMMA PolicySelect ==
    ASSUME NEW a, NEW b, NEW x, NEW y, NEW z
    PROVE  /\ Policy(a, b, x, y, z).t1 = a /\ Policy(a, b, x, y, z).t2 = b
           /\ Policy(a, b, x, y, z).b1 = x /\ Policy(a, b, x, y, z).b2 = y
           /\ Policy(a, b, x, y, z).target_t1_size = z
    BY DEF Policy

\* What it takes for given lists to be sound.
LEMMA PolicySound ==
    ASSUME NEW U, NEW K, NEW R,
           NEW t1 \in Seq(U), NEW t2 \in Seq(U), NEW b1 \in Seq(U), NEW b2 \in Seq(U),
           NEW z \in 0..(num_blocks * Unit),
           IsInjective(t1), IsInjective(t2), IsInjective(b1), IsInjective(b2),
           Range(t1) \cap Range(t2) = {}, Range(t1) \cup Range(t2) = K, Range(t2) \subseteq R,
           Range(b1) \cap Range(b2) = {}, (Range(b1) \cup Range(b2)) \cap K = {},
           Len(b1) <= num_blocks, Len(b2) <= num_blocks
    PROVE  SoundCache(Policy(t1, t2, b1, b2, z), U, K, R)
<1>1. Policy(t1, t2, b1, b2, z) \in Cache(U)
    BY DEF Policy, Cache
<1> QED BY <1>1, PolicySelect DEF SoundCache

\* What soundness says of the fields.
SoundParts(c, U, K, R) ==
    /\ c.t1 \in Seq(U) /\ c.t2 \in Seq(U) /\ c.b1 \in Seq(U) /\ c.b2 \in Seq(U)
    /\ c.target_t1_size \in 0..(num_blocks * Unit)
    /\ c = Policy(c.t1, c.t2, c.b1, c.b2, c.target_t1_size)
    /\ IsInjective(c.t1) /\ IsInjective(c.t2) /\ IsInjective(c.b1) /\ IsInjective(c.b2)
    /\ Range(c.t1) \cap Range(c.t2) = {} /\ Range(c.t1) \cup Range(c.t2) = K
    /\ Range(c.t2) \subseteq R
    /\ Range(c.b1) \cap Range(c.b2) = {} /\ (Range(c.b1) \cup Range(c.b2)) \cap K = {}
    /\ Len(c.b1) <= num_blocks /\ Len(c.b2) <= num_blocks
    /\ Len(c.b1) \in Nat /\ Len(c.b2) \in Nat

\* The parts of a sound cache.
LEMMA SoundHasParts ==
    ASSUME NEW U, NEW K, NEW R, NEW c, SoundCache(c, U, K, R)
    PROVE  SoundParts(c, U, K, R)
<1>1. c \in Cache(U)
    BY DEF SoundCache
<1>2. /\ c.t1 \in Seq(U) /\ c.t2 \in Seq(U) /\ c.b1 \in Seq(U) /\ c.b2 \in Seq(U)
      /\ c.target_t1_size \in 0..(num_blocks * Unit)
      /\ c = Policy(c.t1, c.t2, c.b1, c.b2, c.target_t1_size)
    BY <1>1 DEF Cache, Policy
<1>3. Len(c.b1) \in Nat /\ Len(c.b2) \in Nat
    BY <1>2
<1> QED BY <1>2, <1>3 DEF SoundCache, SoundParts

\* The empty cache is sound.
LEMMA EmptyCacheSound ==
    ASSUME NEW U, NEW R
    PROVE  SoundCache(EmptyCache, U, {}, R)
<1>1. 0 \in 0..(num_blocks * Unit)
    BY UnitPositive, CapacityAssumption
<1> DEFINE e == <<>>
<1>2. EmptyCache = Policy(e, e, e, e, 0)
    BY DEF EmptyCache, Policy
<1>3. e \in Seq(U) /\ IsInjective(e) /\ Range(e) = {} /\ Len(e) <= num_blocks
    BY CapacityAssumption DEF IsInjective, Range
<1> HIDE DEF e
<1> QED BY <1>1, <1>2, <1>3, PolicySound

\* More keys may become ready.
LEMMA SoundMonotone ==
    ASSUME NEW U, NEW K, NEW R, NEW Q, NEW c, SoundCache(c, U, K, R), R \cap K \subseteq Q
    PROVE  SoundCache(c, U, K, Q)
<1>1. Range(c.t2) \subseteq Q
    BY DEF SoundCache
<1> QED BY <1>1 DEF SoundCache

\* Inserting a block that is not cached keeps the cache sound.
LEMMA InsertSound ==
    ASSUME NEW U, NEW K, NEW R, NEW c, SoundCache(c, U, K, R),
           NEW new \in Seq(U), IsInjective(new), Range(new) \cap K = {}
    PROVE  SoundCache(insert(c, new), U, K \cup Range(new), R)
<1>0. SoundParts(c, U, K, R)
    BY SoundHasParts
<1> DEFINE t == c.t1 \o new
           g1 == Without(c.b1, Range(new))
           g2 == Without(c.b2, Range(new))
<1>2. t \in Seq(U) /\ Range(t) = Range(c.t1) \cup Range(new) /\ IsInjective(t)
    <2>1. IsInjective(c.t1) /\ c.t1 \in Seq(U) /\ Range(c.t1) \cap Range(new) = {}
        BY <1>0 DEF SoundParts
    <2> QED BY <2>1, ConcatFacts
<1>3. /\ g1 \in Seq(U) /\ Range(g1) = Range(c.b1) \ Range(new)
      /\ Len(g1) <= Len(c.b1) /\ IsInjective(g1)
    BY <1>0, WithoutFacts DEF SoundParts
<1>4. /\ g2 \in Seq(U) /\ Range(g2) = Range(c.b2) \ Range(new)
      /\ Len(g2) <= Len(c.b2) /\ IsInjective(g2)
    BY <1>0, WithoutFacts DEF SoundParts
<1> HIDE DEF t, g1, g2
<1>5. Len(g1) <= num_blocks /\ Len(g2) <= num_blocks
    <2>1. Len(g1) \in Nat /\ Len(g2) \in Nat
        BY <1>3, <1>4
    <2> QED BY <2>1, <1>0, <1>3, <1>4, CapacityAssumption DEF SoundParts
<1>6. /\ Range(t) \cap Range(c.t2) = {} /\ Range(t) \cup Range(c.t2) = K \cup Range(new)
      /\ Range(g1) \cap Range(g2) = {}
      /\ (Range(g1) \cup Range(g2)) \cap (K \cup Range(new)) = {}
    BY <1>0, <1>2, <1>3, <1>4 DEF SoundParts
<1>7. insert(c, new) = Policy(t, c.t2, g1, g2, c.target_t1_size)
    BY DEF insert, t, g1, g2
<1>8. /\ c.t2 \in Seq(U) /\ IsInjective(c.t2) /\ Range(c.t2) \subseteq R
      /\ c.target_t1_size \in 0..(num_blocks * Unit)
    BY <1>0 DEF SoundParts
<1>9. SoundCache(Policy(t, c.t2, g1, g2, c.target_t1_size), U, K \cup Range(new), R)
    BY <1>8, <1>2, <1>3, <1>4, <1>5, <1>6, PolicySound, Zenon
<1> QED BY <1>7, <1>9

\* Removing a block keeps the cache sound.
LEMMA RemoveSound ==
    ASSUME NEW U, NEW K, NEW R, NEW c, SoundCache(c, U, K, R), NEW J
    PROVE  SoundCache(remove(c, J), U, K \ J, R \ J)
<1>0. SoundParts(c, U, K, R)
    BY SoundHasParts
<1> DEFINE u1 == Without(c.t1, J)
           u2 == Without(c.t2, J)
<1>2. u1 \in Seq(U) /\ Range(u1) = Range(c.t1) \ J /\ IsInjective(u1)
    BY <1>0, WithoutFacts DEF SoundParts
<1>3. u2 \in Seq(U) /\ Range(u2) = Range(c.t2) \ J /\ IsInjective(u2)
    BY <1>0, WithoutFacts DEF SoundParts
<1> HIDE DEF u1, u2
<1>4. /\ Range(u1) \cap Range(u2) = {} /\ Range(u1) \cup Range(u2) = K \ J
      /\ Range(u2) \subseteq R \ J
      /\ (Range(c.b1) \cup Range(c.b2)) \cap (K \ J) = {}
    BY <1>0, <1>2, <1>3 DEF SoundParts
<1>5. remove(c, J) = Policy(u1, u2, c.b1, c.b2, c.target_t1_size)
    BY DEF remove, u1, u2
<1>6. SoundCache(Policy(u1, u2, c.b1, c.b2, c.target_t1_size), U, K \ J, R \ J)
    BY <1>0, <1>2, <1>3, <1>4, PolicySound, Zenon DEF SoundParts
<1> QED BY <1>5, <1>6


\* A hit moves the ARC target by a number that keeps it within its range.
LEMMA DeltaPositive ==
    ASSUME NEW m \in Nat \ {0}, NEW n \in Nat
    PROVE  Delta(m, n) \in Nat
<1>1. Unit \in Nat
    BY UnitPositive
<1>2. n * Unit \in Nat
    BY <1>1
<1>3. \A p \in Nat : p \div m \in Nat
    OBVIOUS
<1>4. (n * Unit) \div m \in Nat
    BY <1>2, <1>3
<1> QED BY <1>1, <1>4 DEF Delta, Larger

\* Touching a key moves it within or between lists and keeps them sound.
LEMMA ArcTouchedSound ==
    ASSUME NEW U, NEW K, NEW R, NEW c, SoundCache(c, U, K, R), NEW k \in U
    PROVE  SoundCache(ArcTouched(c, k, R), U, K, R)
<1>0. SoundParts(c, U, K, R)
    BY SoundHasParts
<1> DEFINE t1 == c.t1  t2 == c.t2  b1 == c.b1  b2 == c.b2  z == c.target_t1_size
<1>a. /\ t1 \in Seq(U) /\ t2 \in Seq(U) /\ b1 \in Seq(U) /\ b2 \in Seq(U)
      /\ z \in 0..(num_blocks * Unit)
      /\ IsInjective(t1) /\ IsInjective(t2) /\ IsInjective(b1) /\ IsInjective(b2)
      /\ Range(t1) \cap Range(t2) = {} /\ Range(t1) \cup Range(t2) = K
      /\ Range(t2) \subseteq R
      /\ Range(b1) \cap Range(b2) = {} /\ (Range(b1) \cup Range(b2)) \cap K = {}
      /\ Len(b1) <= num_blocks /\ Len(b2) <= num_blocks
      /\ Len(b1) \in Nat /\ Len(b2) \in Nat
    BY <1>0 DEF SoundParts
<1>b. num_blocks * Unit \in Nat
    BY UnitPositive, CapacityAssumption
<1> HIDE DEF t1, t2, b1, b2, z
<1>1. CASE k \in Range(t1) /\ k \in R
    <2> DEFINE u1 == Without(t1, {k})
               u2 == Append(t2, k)
    <2>1. ArcTouched(c, k, R) = Policy(u1, u2, b1, b2, z)
        BY <1>1, <1>a DEF ArcTouched, t1, t2, b1, b2, z
    <2>2. u1 \in Seq(U) /\ Range(u1) = Range(t1) \ {k} /\ IsInjective(u1)
        BY <1>a, WithoutFacts
    <2>3. k \notin Range(t2)
        BY <1>1, <1>a
    <2>4. u2 \in Seq(U) /\ Range(u2) = Range(t2) \cup {k} /\ IsInjective(u2)
        BY <1>a, <2>3, AppendFacts
    <2> HIDE DEF u1, u2
    <2>5. /\ Range(u1) \cap Range(u2) = {} /\ Range(u1) \cup Range(u2) = K
          /\ Range(u2) \subseteq R
        BY <1>1, <1>a, <2>2, <2>4
    <2>6. SoundCache(Policy(u1, u2, b1, b2, z), U, K, R)
        BY <1>a, <2>2, <2>4, <2>5, PolicySound, Zenon
    <2> QED BY <2>1, <2>6
<1>2. CASE k \in Range(t1) /\ k \notin R
    <2> DEFINE u1 == MovedToEnd(t1, k)
    <2>1. ArcTouched(c, k, R) = Policy(u1, t2, b1, b2, z)
        BY <1>2, <1>a DEF ArcTouched, t1, t2, b1, b2, z
    <2>2. u1 \in Seq(U) /\ Range(u1) = Range(t1) /\ IsInjective(u1)
        BY <1>2, <1>a, MovedToEndFacts
    <2> HIDE DEF u1
    <2>6. SoundCache(Policy(u1, t2, b1, b2, z), U, K, R)
        BY <1>a, <2>2, PolicySound, Zenon
    <2> QED BY <2>1, <2>6
<1>3. CASE k \in Range(t2)
    <2> DEFINE u2 == MovedToEnd(t2, k)
    <2>0. k \notin Range(t1) /\ k \notin Range(b1) /\ k \notin Range(b2)
        BY <1>3, <1>a
    <2>1. ArcTouched(c, k, R) = Policy(t1, u2, b1, b2, z)
        BY <1>3, <2>0 DEF ArcTouched, t1, t2, b1, b2, z
    <2>2. u2 \in Seq(U) /\ Range(u2) = Range(t2) /\ IsInjective(u2)
        BY <1>3, <1>a, MovedToEndFacts
    <2> HIDE DEF u2
    <2>6. SoundCache(Policy(t1, u2, b1, b2, z), U, K, R)
        BY <1>a, <2>2, PolicySound, Zenon
    <2> QED BY <2>1, <2>6
<1>4. CASE k \in Range(b1)
    <2> DEFINE g == MovedToEnd(b1, k)
               y == Lesser(z + Delta(Len(b1), Len(b2)), num_blocks * Unit)
    <2>0. k \notin Range(t1) /\ k \notin Range(t2) /\ k \notin Range(b2)
        BY <1>4, <1>a
    <2>1. ArcTouched(c, k, R) = Policy(t1, t2, g, b2, y)
        BY <1>4, <2>0 DEF ArcTouched, t1, t2, b1, b2, z
    <2>2. g \in Seq(U) /\ Range(g) = Range(b1) /\ IsInjective(g) /\ Len(g) <= Len(b1)
        BY <1>4, <1>a, MovedToEndFacts
    <2>3. Len(b1) # 0
        BY <1>4, <1>a, RangeFacts
    <2>4. y \in 0..(num_blocks * Unit)
        <3>1. Delta(Len(b1), Len(b2)) \in Nat
            BY <1>a, <2>3, DeltaPositive
        <3> QED BY <3>1, <1>a, <1>b DEF Lesser
    <2> HIDE DEF g, y
    <2>5. Len(g) <= num_blocks
        <3>1. Len(g) \in Nat
            BY <2>2
        <3> QED BY <3>1, <2>2, <1>a, CapacityAssumption
    <2>6. SoundCache(Policy(t1, t2, g, b2, y), U, K, R)
        BY <1>a, <2>2, <2>4, <2>5, PolicySound
    <2> QED BY <2>1, <2>6
<1>5. CASE k \in Range(b2)
    <2> DEFINE g == MovedToEnd(b2, k)
               y == Larger(z - Delta(Len(b2), Len(b1)), 0)
    <2>0. k \notin Range(t1) /\ k \notin Range(t2) /\ k \notin Range(b1)
        BY <1>5, <1>a
    <2>1. ArcTouched(c, k, R) = Policy(t1, t2, b1, g, y)
        BY <1>5, <2>0 DEF ArcTouched, t1, t2, b1, b2, z
    <2>2. g \in Seq(U) /\ Range(g) = Range(b2) /\ IsInjective(g) /\ Len(g) <= Len(b2)
        BY <1>5, <1>a, MovedToEndFacts
    <2>3. Len(b2) # 0
        BY <1>5, <1>a, RangeFacts
    <2>4. y \in 0..(num_blocks * Unit)
        <3>1. Delta(Len(b2), Len(b1)) \in Nat
            BY <1>a, <2>3, DeltaPositive
        <3> QED BY <3>1, <1>a, <1>b DEF Larger
    <2> HIDE DEF g, y
    <2>5. Len(g) <= num_blocks
        <3>1. Len(g) \in Nat
            BY <2>2
        <3> QED BY <3>1, <2>2, <1>a, CapacityAssumption
    <2>6. SoundCache(Policy(t1, t2, b1, g, y), U, K, R)
        BY <1>a, <2>2, <2>4, <2>5, PolicySound
    <2> QED BY <2>1, <2>6
<1>6. CASE k \notin Range(t1) /\ k \notin Range(t2) /\ k \notin Range(b1) /\ k \notin Range(b2)
    <2>1. ArcTouched(c, k, R) = c
        BY <1>6 DEF ArcTouched, t1, t2, b1, b2
    <2> QED BY <2>1
<1> QED BY <1>1, <1>2, <1>3, <1>4, <1>5, <1>6

\* The function that computes arc_touch, over the keys in the order it takes them.
IsTouched(f, c, r, R, n) ==
    f = [i \in 0..n |-> IF i = 0 THEN c ELSE ArcTouched(f[i - 1], r[i], R)]

\* Up to every length the recursion of touch has a solution.
LEMMA TouchedExists ==
    ASSUME NEW c, NEW r, NEW R
    PROVE  \A n \in Nat : \E f : IsTouched(f, c, r, R, n)
<1> DEFINE S == {n \in Nat : \E f : IsTouched(f, c, r, R, n)}
<1>1. 0 \in S
    <2>1. IsTouched([i \in 0..0 |-> c], c, r, R, 0)
        BY DEF IsTouched
    <2> QED BY <2>1
<1>2. ASSUME NEW n \in Nat, n \in S
      PROVE  n + 1 \in S
    <2>1. PICK f : IsTouched(f, c, r, R, n)
        BY <1>2
    <2> DEFINE last == ArcTouched(f[n], r[n + 1], R)
               g == [i \in 0..(n + 1) |-> IF i = n + 1 THEN last ELSE f[i]]
    <2>2. \A i \in 0..n : f[i] = IF i = 0 THEN c ELSE ArcTouched(f[i - 1], r[i], R)
        BY <2>1 DEF IsTouched
    <2> HIDE DEF last
    <2>3. (\A i \in 0..n : g[i] = f[i]) /\ g[n + 1] = last /\ g = [i \in 0..(n + 1) |-> g[i]]
        OBVIOUS
    <2> HIDE DEF g
    <2>4. \A i \in 0..(n + 1) : g[i] = IF i = 0 THEN c ELSE ArcTouched(g[i - 1], r[i], R)
        <3> TAKE i \in 0..(n + 1)
        <3>1. CASE i = n + 1
            <4>1. g[i - 1] = f[n] /\ i # 0
                BY <2>3, <3>1, SMTT(30)
            <4> QED BY <4>1, <2>3, <3>1 DEF last
        <3>2. CASE i = 0
            <4>1. 0 \in 0..n
                OBVIOUS
            <4>2. g[0] = f[0] /\ f[0] = c
                BY <4>1, <2>2, <2>3, Zenon
            <4> QED BY <4>2, <3>2
        <3>3. CASE i \in 1..n
            <4>1. i - 1 \in 0..n /\ i \in 0..n
                BY <3>3
            <4> QED BY <4>1, <2>2, <2>3, <3>3, Zenon
        <3> QED BY <3>1, <3>2, <3>3
    <2>5. IsTouched(g, c, r, R, n + 1)
        BY <2>3, <2>4 DEF IsTouched
    <2> QED BY <2>5
<1> HIDE DEF S
<1>3. \A n \in Nat : n \in S
    BY <1>1, <1>2, NatSetInduction
<1> QED BY <1>3 DEF S

\* Touching blocks in ARC keeps the cache sound and its blocks the same.
LEMMA ArcTouchSound ==
    ASSUME NEW U, NEW K, NEW R, NEW c, SoundCache(c, U, K, R), NEW ks \in Seq(U)
    PROVE  SoundCache(arc_touch(c, ks, R), U, K, R)
<1> DEFINE r == Reverse(ks)
           n == Len(ks)
           f == CHOOSE f : IsTouched(f, c, r, R, n)
<1>1. n \in Nat /\ \A i \in 1..n : r[i] \in U
    <2>1. r \in Seq(U) /\ Len(r) = n
        BY ReverseFacts
    <2> HIDE DEF r
    <2> QED BY <2>1
<1>2. IsTouched(f, c, r, R, n)
    <2> HIDE DEF n, r
    <2>1. \E g : IsTouched(g, c, r, R, n)
        BY <1>1, TouchedExists, Zenon
    <2> QED BY <2>1
<1>3. arc_touch(c, ks, R) = f[n]
    BY DEF arc_touch, IsTouched
<1> HIDE DEF f, n, r
<1> DEFINE S == {i \in Nat : i <= n => SoundCache(f[i], U, K, R)}
<1>4. 0 \in S
    <2>1. f[0] = c
        BY <1>1, <1>2 DEF IsTouched
    <2> QED BY <2>1
<1>5. ASSUME NEW i \in Nat, i \in S
      PROVE  i + 1 \in S
    <2>1. SUFFICES ASSUME i < n PROVE SoundCache(f[i + 1], U, K, R)
        BY <1>1
    <2>2. f[i + 1] = ArcTouched(f[i], r[i + 1], R)
        BY <1>1, <1>2, <2>1 DEF IsTouched
    <2>3. SoundCache(f[i], U, K, R) /\ r[i + 1] \in U
        BY <1>1, <1>5, <2>1
    <2> QED BY <2>2, <2>3, ArcTouchedSound
<1> HIDE DEF S
<1>6. \A i \in Nat : i \in S
    BY <1>4, <1>5, NatSetInduction
<1>7. n \in S
    BY <1>1, <1>6
<1> QED BY <1>1, <1>3, <1>7 DEF S


\* LRU: the touched keys move to the recent end, the others keep their order.
LEMMA LruTouchSound ==
    ASSUME NEW U, NEW K, NEW R, NEW c, SoundCache(c, U, K, R), NEW ks \in Seq(U), IsInjective(ks)
    PROVE  SoundCache(lru_touch(c, ks), U, K, R)
<1>0. SoundParts(c, U, K, R)
    BY SoundHasParts
<1> DEFINE t1 == c.t1
           r == Reverse(ks)
           moved == Only(r, Range(t1))
           rest == Without(t1, Range(moved))
           u == rest \o moved
<1>1. lru_touch(c, ks) = Policy(u, c.t2, c.b1, c.b2, c.target_t1_size)
    BY DEF lru_touch
<1>2. t1 \in Seq(U) /\ IsInjective(t1)
    BY <1>0 DEF SoundParts
<1>3. r \in Seq(U) /\ IsInjective(r)
    BY ReverseFacts
<1> HIDE DEF t1, r
<1>4. moved \in Seq(U) /\ Range(moved) = Range(r) \cap Range(t1) /\ IsInjective(moved)
    BY <1>3, OnlyFacts
<1> HIDE DEF moved
<1>5. rest \in Seq(U) /\ Range(rest) = Range(t1) \ Range(moved) /\ IsInjective(rest)
    BY <1>2, WithoutFacts
<1> HIDE DEF rest
<1>6. Range(rest) \cap Range(moved) = {} /\ Range(rest) \cup Range(moved) = Range(t1)
    BY <1>4, <1>5
<1>7. u \in Seq(U) /\ Range(u) = Range(t1) /\ IsInjective(u)
    <2>1. /\ u \in Seq(U) /\ Range(u) = Range(rest) \cup Range(moved)
          /\ IsInjective(rest) /\ IsInjective(moved) /\ Range(rest) \cap Range(moved) = {}
             <=> IsInjective(u)
        BY <1>4, <1>5, ConcatFacts
    <2> QED BY <2>1, <1>4, <1>5, <1>6
<1> HIDE DEF u
<1>8. SoundCache(Policy(u, c.t2, c.b1, c.b2, c.target_t1_size), U, K, R)
    BY <1>0, <1>7, PolicySound, Zenon DEF SoundParts, t1
<1> QED BY <1>1, <1>8

\* Keys an eviction may take, each once.
IsVictims(v, U, K, n, free) ==
    /\ v \in Seq(U) /\ IsInjective(v) /\ Range(v) \subseteq K \cap free /\ Len(v) <= n

\* The older idle keys of a list go before the younger ones.
OldestFirst(v, list, free) ==
    \A i, j \in DOMAIN list :
        j < i /\ list[i] \in Range(v) /\ list[j] \in free => list[j] \in Range(v)

\* The first free elements of a list are victims of it.
LEMMA TakeOnly ==
    ASSUME NEW U, NEW s \in Seq(U), IsInjective(s), NEW free, NEW n \in Nat
    PROVE  IsVictims(Take(Only(s, free), n), U, Range(s), n, free)
<1> DEFINE o == Only(s, free)
<1>1. o \in Seq(U) /\ Range(o) = Range(s) \cap free /\ IsInjective(o)
    BY OnlyFacts
<1> HIDE DEF o
<1> DEFINE v == Take(o, n)
<1>2. v \in Seq(U) /\ Len(v) = Lesser(n, Len(o)) /\ Range(v) \subseteq Range(o) /\ IsInjective(v)
    BY <1>1, TakeFacts
<1>3. Lesser(n, Len(o)) <= n
    <2>1. Len(o) \in Nat
        BY <1>1
    <2> QED BY <2>1 DEF Lesser
<1> HIDE DEF v
<1>4. IsVictims(v, U, Range(s), n, free)
    BY <1>1, <1>2, <1>3 DEF IsVictims
<1> QED BY <1>4 DEF v, o

\* LRU picks as many free blocks as asked for and there are, the oldest of each list first.
LEMMA LruCandidates ==
    ASSUME NEW U, NEW K, NEW R, NEW c, SoundCache(c, U, K, R), NEW n \in Nat, NEW free
    PROVE  /\ IsVictims(lru_candidates(c, n, free), U, K, n, free)
           /\ OldestFirst(lru_candidates(c, n, free), c.t1, free)
           /\ OldestFirst(lru_candidates(c, n, free), c.t2, free)
<1>0. SoundParts(c, U, K, R)
    BY SoundHasParts
<1> DEFINE v == lru_candidates(c, n, free)
           t1 == c.t1
<1>1. v = Take(Only(t1, free), n)
    BY DEF lru_candidates
<1>2. t1 \in Seq(U) /\ IsInjective(t1) /\ Range(t1) \subseteq K /\ Range(c.t2) \cap Range(t1) = {}
    BY <1>0 DEF SoundParts
<1> HIDE DEF v, t1
<1>3. IsVictims(v, U, Range(t1), n, free)
    BY <1>1, <1>2, TakeOnly
<1>4. IsVictims(v, U, K, n, free)
    BY <1>2, <1>3 DEF IsVictims
<1>5. OldestFirst(v, t1, free)
    BY <1>1, <1>2, TakeOnlyOldest DEF OldestFirst
<1>6. OldestFirst(v, c.t2, free)
    <2> SUFFICES ASSUME NEW i \in DOMAIN c.t2, c.t2[i] \in Range(v) PROVE FALSE
        BY DEF OldestFirst
    <2>1. c.t2[i] \in Range(c.t2) /\ c.t2[i] \in Range(t1)
        BY <1>3, Zenon DEF IsVictims, Range
    <2> QED BY <2>1, <1>2
<1> QED BY <1>4, <1>5, <1>6 DEF v, t1

\* ARC picks as many free blocks as asked for and there are, the oldest of each list first.
LEMMA ArcCandidates ==
    ASSUME NEW U, NEW K, NEW R, NEW c, SoundCache(c, U, K, R), NEW n \in Nat, NEW free
    PROVE  /\ IsVictims(arc_candidates(c, n, free), U, K, n, free)
           /\ OldestFirst(arc_candidates(c, n, free), c.t1, free)
           /\ OldestFirst(arc_candidates(c, n, free), c.t2, free)
<1>0. SoundParts(c, U, K, R)
    BY SoundHasParts
<1> DEFINE t1 == c.t1
           t2 == c.t2
           above == Larger(Len(t1) - (c.target_t1_size \div Unit) + 1, 0)
           m == Lesser(n, above)
           first == Take(Only(t1, free), m)
           then == Take(Only(t2, free), n - Len(first))
           v == first \o then
<1>1. arc_candidates(c, n, free) = v
    BY DEF arc_candidates
<1>2. /\ t1 \in Seq(U) /\ IsInjective(t1) /\ t2 \in Seq(U) /\ IsInjective(t2)
      /\ Range(t1) \cap Range(t2) = {} /\ Range(t1) \cup Range(t2) = K
      /\ c.target_t1_size \in Nat
    BY <1>0, UnitPositive, CapacityAssumption DEF SoundParts
<1> HIDE DEF t1, t2
<1>3. above \in Nat
    <2>1. Len(t1) \in Nat
        BY <1>2
    <2>2. \A p \in Nat, q \in Nat \ {0} : p \div q \in Nat
        OBVIOUS
    <2>3. c.target_t1_size \div Unit \in Nat
        BY <1>2, <2>2, UnitPositive
    <2> QED BY <2>1, <2>3 DEF Larger
<1> HIDE DEF above
<1>4. m \in Nat /\ m <= n
    BY <1>3 DEF Lesser
<1> HIDE DEF m
<1>5. IsVictims(first, U, Range(t1), m, free)
    BY <1>2, <1>4, TakeOnly
<1>5o. OldestFirst(first, t1, free)
    BY <1>2, <1>4, TakeOnlyOldest DEF OldestFirst
<1> HIDE DEF first
<1>6. Len(first) \in Nat /\ n - Len(first) \in Nat
    <2>1. first \in Seq(U) /\ Len(first) <= m
        BY <1>5 DEF IsVictims
    <2> QED BY <2>1, <1>4
<1>7. IsVictims(then, U, Range(t2), n - Len(first), free)
    BY <1>2, <1>6, TakeOnly
<1>7o. OldestFirst(then, t2, free)
    BY <1>2, <1>6, TakeOnlyOldest DEF OldestFirst
<1> HIDE DEF then
<1>8. /\ first \in Seq(U) /\ then \in Seq(U) /\ IsInjective(first) /\ IsInjective(then)
      /\ Range(first) \subseteq Range(t1) \cap free /\ Range(then) \subseteq Range(t2) \cap free
      /\ Len(then) <= n - Len(first)
    BY <1>5, <1>7 DEF IsVictims
<1>9. Range(first) \cap Range(then) = {}
    BY <1>2, <1>8
<1>10. v \in Seq(U) /\ Len(v) = Len(first) + Len(then) /\ Range(v) = Range(first) \cup Range(then)
       /\ IsInjective(v)
    BY <1>8, <1>9, ConcatFacts
<1> HIDE DEF v
<1>11. Len(v) <= n
    <2>1. Len(then) \in Nat
        BY <1>8
    <2> QED BY <2>1, <1>6, <1>8, <1>10
<1>12. Range(v) \subseteq K \cap free
    BY <1>2, <1>8, <1>10
<1>13. IsVictims(v, U, K, n, free)
    BY <1>10, <1>11, <1>12 DEF IsVictims
<1>14. OldestFirst(v, t1, free)
    <2> SUFFICES ASSUME NEW i \in DOMAIN t1, NEW j \in DOMAIN t1, j < i,
                        t1[i] \in Range(v), t1[j] \in free
                 PROVE  t1[j] \in Range(v)
        BY DEF OldestFirst
    <2>1. t1[i] \in Range(t1)
        BY DEF Range
    <2>2. t1[i] \in Range(first)
        BY <2>1, <1>2, <1>8, <1>10
    <2> QED BY <2>2, <1>5o, <1>10 DEF OldestFirst
<1>15. OldestFirst(v, t2, free)
    <2> SUFFICES ASSUME NEW i \in DOMAIN t2, NEW j \in DOMAIN t2, j < i,
                        t2[i] \in Range(v), t2[j] \in free
                 PROVE  t2[j] \in Range(v)
        BY DEF OldestFirst
    <2>1. t2[i] \in Range(t2)
        BY DEF Range
    <2>2. t2[i] \in Range(then)
        BY <2>1, <1>2, <1>8, <1>10
    <2> QED BY <2>2, <1>7o, <1>10 DEF OldestFirst
<1> QED BY <1>1, <1>13, <1>14, <1>15 DEF t1, t2

\* A ghost list takes in the victims of its list and stays within the capacity.
LEMMA GhostsFacts ==
    ASSUME NEW U, NEW g \in Seq(U), NEW v \in Seq(U), NEW s \in Seq(U),
           IsInjective(g), IsInjective(v), Range(g) \cap Range(v) = {}
    PROVE  /\ Ghosts(g, v, s) \in Seq(U) /\ IsInjective(Ghosts(g, v, s))
           /\ Range(Ghosts(g, v, s)) \subseteq Range(g) \cup (Range(v) \cap Range(s))
           /\ Len(Ghosts(g, v, s)) <= num_blocks
<1> DEFINE o == Only(v, Range(s))
           all == g \o o
           m == Larger(Len(all) - num_blocks, 0) + 1
           r == SubSeq(all, m, Len(all))
<1>1. Ghosts(g, v, s) = r
    BY DEF Ghosts
<1>2. o \in Seq(U) /\ Range(o) = Range(v) \cap Range(s) /\ IsInjective(o)
    BY OnlyFacts
<1> HIDE DEF o
<1>3. Range(g) \cap Range(o) = {}
    BY <1>2
<1>4. all \in Seq(U) /\ Range(all) = Range(g) \cup Range(o) /\ IsInjective(all)
    BY <1>2, <1>3, ConcatFacts
<1> HIDE DEF all
<1>5. Len(all) \in Nat /\ Len(all) <= Len(all)
    BY <1>4
<1>6. /\ m \in Nat \ {0}
      /\ (IF m <= Len(all) THEN Len(all) - m + 1 ELSE 0) <= num_blocks
    BY <1>5, CapacityAssumption DEF Larger
<1> HIDE DEF m
<1>7. /\ r \in Seq(U) /\ Len(r) = IF m <= Len(all) THEN Len(all) - m + 1 ELSE 0
      /\ Range(r) \subseteq Range(all) /\ IsInjective(r)
    BY <1>4, <1>5, <1>6, SubSeqFacts
<1> HIDE DEF r
<1> QED BY <1>1, <1>2, <1>4, <1>6, <1>7

\* Evicting from an ARC cache keeps it sound.
LEMMA ArcEvictedSound ==
    ASSUME NEW U, NEW K, NEW R, NEW c, SoundCache(c, U, K, R),
           NEW v \in Seq(U), IsInjective(v), Range(v) \subseteq K
    PROVE  SoundCache(arc_evicted(c, v), U, K \ Range(v), R \ Range(v))
<1>0. SoundParts(c, U, K, R)
    BY SoundHasParts
<1> DEFINE J == Range(v)
           u1 == Without(c.t1, J)
           u2 == Without(c.t2, J)
           g1 == Ghosts(c.b1, v, c.t1)
           g2 == Ghosts(c.b2, v, c.t2)
<1>1. arc_evicted(c, v) = Policy(u1, u2, g1, g2, c.target_t1_size)
    BY DEF arc_evicted
<1>2. u1 \in Seq(U) /\ Range(u1) = Range(c.t1) \ J /\ IsInjective(u1)
    BY <1>0, WithoutFacts DEF SoundParts
<1>3. u2 \in Seq(U) /\ Range(u2) = Range(c.t2) \ J /\ IsInjective(u2)
    BY <1>0, WithoutFacts DEF SoundParts
<1> HIDE DEF u1, u2
<1>4. Range(c.b1) \cap J = {} /\ Range(c.b2) \cap J = {}
    BY <1>0 DEF SoundParts
<1>5. /\ g1 \in Seq(U) /\ IsInjective(g1) /\ Len(g1) <= num_blocks
      /\ Range(g1) \subseteq Range(c.b1) \cup (J \cap Range(c.t1))
    BY <1>0, <1>4, GhostsFacts DEF SoundParts
<1>6. /\ g2 \in Seq(U) /\ IsInjective(g2) /\ Len(g2) <= num_blocks
      /\ Range(g2) \subseteq Range(c.b2) \cup (J \cap Range(c.t2))
    BY <1>0, <1>4, GhostsFacts DEF SoundParts
<1> HIDE DEF g1, g2, J
<1>7. /\ Range(u1) \cap Range(u2) = {} /\ Range(u1) \cup Range(u2) = K \ J
      /\ Range(u2) \subseteq R \ J
    BY <1>0, <1>2, <1>3 DEF SoundParts
<1>8. Range(g1) \cap Range(g2) = {}
    BY <1>0, <1>4, <1>5, <1>6, Zenon DEF SoundParts
<1>9. (Range(g1) \cup Range(g2)) \cap (K \ J) = {}
    BY <1>0, <1>4, <1>5, <1>6 DEF SoundParts
<1>10. c.target_t1_size \in 0..(num_blocks * Unit)
    BY <1>0 DEF SoundParts
<1>11. SoundCache(Policy(u1, u2, g1, g2, c.target_t1_size), U, K \ J, R \ J)
    BY <1>2, <1>3, <1>5, <1>6, <1>7, <1>8, <1>9, <1>10, PolicySound, Zenon
<1> QED BY <1>1, <1>11 DEF J

-----------------------------------------------------------------------------
(* What a sound pool is *)

\* Of the ids 0..n-1 handed out, each is on the free list f or belongs to a
\* key of b, and only once.
PoolSound(b, f, n) ==
    /\ n \in 0..num_blocks
    /\ f \in Seq(0..(n - 1)) /\ IsInjective(f)
    /\ \A k \in DOMAIN b : b[k].block_id \in (0..(n - 1)) \ Range(f)
    /\ \A k, l \in DOMAIN b : b[k].block_id = b[l].block_id => k = l
    /\ \A i \in 0..(n - 1) : i \in Range(f) \/ \E k \in DOMAIN b : b[k].block_id = i

\* The pool b, f, n and the policy's lists c agree with each other and with what
\* the callers still owe: loads l, retentions h and stores s.
Sound(b, c, f, n, l, h, s) ==
    /\ l \in [Key -> 0..MaxRefs] /\ h \in [Key -> 0..MaxRefs] /\ s \subseteq Key
    /\ DOMAIN b \subseteq Key
    /\ \A k \in DOMAIN b : b[k] = Block(b[k].block_id, b[k].ref_cnt)
    /\ PoolSound(b, f, n)
    /\ SoundCache(c, Key, DOMAIN b, DOMAIN b \ s)
    /\ \A k \in Key \ DOMAIN b : k \notin s /\ l[k] + h[k] = 0
    /\ \A k \in DOMAIN b : b[k].ref_cnt = IF k \in s THEN NotReady ELSE l[k] + h[k]
    /\ \A k \in s : l[k] + h[k] = 0

\* The inductive invariant.
ManagerInv ==
    /\ config \in Config
    /\ counts \in Seq([key : Key, n : 1..store_threshold]) /\ Len(counts) <= max_tracker_size
    /\ Sound(blocks, cache, free_list, num_allocated_blocks, loads, holds, stores)
-----------------------------------------------------------------------------
(* The block pool *)

\* Reference counts do not matter to the pool.
LEMMA PoolSame ==
    ASSUME NEW b, NEW f, NEW n, PoolSound(b, f, n), NEW d, DOMAIN d = DOMAIN b,
           \A k \in DOMAIN b : d[k].block_id = b[k].block_id
    PROVE  PoolSound(d, f, n)
    BY DEF PoolSound

\* The blocks of the keys v.
IdsOf(b, v) == [i \in DOMAIN v |-> b[v[i]].block_id]

\* Without the keys v, b is d.
Returning(b, v, d) ==
    /\ v \in Seq(DOMAIN b) /\ IsInjective(v)
    /\ DOMAIN d = DOMAIN b \ Range(v) /\ \A k \in DOMAIN d : d[k].block_id = b[k].block_id

\* Blocks of removed keys go to the free list.
LEMMA PoolReturn ==
    ASSUME NEW b, NEW f, NEW n, PoolSound(b, f, n),
           NEW v, NEW d, Returning(b, v, d)
    PROVE  /\ PoolSound(d, f \o IdsOf(b, v), n)
           /\ Len(f \o IdsOf(b, v)) = Len(f) + Len(v)
<1> DEFINE r == IdsOf(b, v)
           X == 0..(n - 1)
           g == f \o r
<1>0. /\ v \in Seq(DOMAIN b) /\ IsInjective(v)
      /\ DOMAIN d = DOMAIN b \ Range(v) /\ \A k \in DOMAIN d : d[k].block_id = b[k].block_id
    BY DEF Returning
<1>1. /\ n \in 0..num_blocks
      /\ f \in Seq(X) /\ IsInjective(f)
      /\ \A k \in DOMAIN b : b[k].block_id \in X /\ b[k].block_id \notin Range(f)
      /\ \A k, l \in DOMAIN b : b[k].block_id = b[l].block_id => k = l
      /\ \A i \in X : i \in Range(f) \/ \E k \in DOMAIN b : b[k].block_id = i
    BY DEF PoolSound
<1>2. /\ DOMAIN v = 1..Len(v) /\ Len(v) \in Nat /\ \A i \in 1..Len(v) : v[i] \in DOMAIN b
      /\ \A i, j \in 1..Len(v) : v[i] = v[j] => i = j
      /\ \A k : k \in Range(v) <=> \E i \in 1..Len(v) : v[i] = k
    <2>1. DOMAIN v = 1..Len(v) /\ Len(v) \in Nat /\ \A i \in 1..Len(v) : v[i] \in DOMAIN b
        BY <1>0
    <2> QED BY <1>0, <2>1 DEF IsInjective, Range
<1> HIDE DEF X
<1>3. r \in Seq(X) /\ Len(r) = Len(v) /\ \A i \in 1..Len(v) : r[i] = b[v[i]].block_id
    <2>1. r = [i \in 1..Len(v) |-> b[v[i]].block_id]
        BY <1>2 DEF IdsOf
    <2>2. \A i \in 1..Len(v) : b[v[i]].block_id \in X
        BY <1>1, <1>2
    <2> QED BY <1>2, <2>1, <2>2, SMTT(30)
<1> HIDE DEF r
<1>4. DOMAIN r = 1..Len(v)
    BY <1>3
<1>5. IsInjective(r)
    <2> SUFFICES ASSUME NEW i \in 1..Len(v), NEW j \in 1..Len(v), r[i] = r[j] PROVE i = j
        BY <1>4 DEF IsInjective
    <2>1. v[i] \in DOMAIN b /\ v[j] \in DOMAIN b /\ b[v[i]].block_id = b[v[j]].block_id
        BY <1>2, <1>3
    <2> QED BY <2>1, <1>1, <1>2
<1>6. \A x : x \in Range(r) <=> \E k \in Range(v) : b[k].block_id = x
    BY <1>2, <1>3, <1>4 DEF Range
<1>7. \A k \in Range(v) : k \in DOMAIN b
    BY <1>2
<1>8. Range(f) \cap Range(r) = {}
    BY <1>1, <1>6, <1>7
<1>9. g \in Seq(X) /\ Len(g) = Len(f) + Len(r) /\ Range(g) = Range(f) \cup Range(r) /\ IsInjective(g)
    <2>1. /\ g \in Seq(X) /\ Len(g) = Len(f) + Len(r) /\ Range(g) = Range(f) \cup Range(r)
          /\ IsInjective(f) /\ IsInjective(r) /\ Range(f) \cap Range(r) = {} <=> IsInjective(g)
        <3>1. f \in Seq(X) /\ r \in Seq(X)
            BY <1>1, <1>3
        <3> QED BY <3>1, ConcatFacts
    <2> QED BY <2>1, <1>1, <1>5, <1>8
<1> HIDE DEF g
<1>10. \A k \in DOMAIN d : d[k].block_id \in X /\ d[k].block_id \notin Range(g)
    <2> SUFFICES ASSUME NEW k \in DOMAIN d PROVE d[k].block_id \in X /\ d[k].block_id \notin Range(g)
        OBVIOUS
    <2>1. k \in DOMAIN b /\ k \notin Range(v) /\ d[k].block_id = b[k].block_id
        BY <1>0
    <2>2. b[k].block_id \notin Range(r)
        BY <2>1, <1>1, <1>6, <1>7
    <2> QED BY <2>1, <2>2, <1>1, <1>9
<1>11. \A k, l \in DOMAIN d : d[k].block_id = d[l].block_id => k = l
    BY <1>0, <1>1
<1>12. \A i \in X : i \in Range(g) \/ \E k \in DOMAIN d : d[k].block_id = i
    <2> SUFFICES ASSUME NEW i \in X, i \notin Range(g) PROVE \E k \in DOMAIN d : d[k].block_id = i
        OBVIOUS
    <2>1. PICK k \in DOMAIN b : b[k].block_id = i
        BY <1>1, <1>9
    <2>2. k \notin Range(v)
        BY <2>1, <1>6, <1>9
    <2> QED BY <2>1, <2>2, <1>0
<1>13. PoolSound(d, g, n)
    BY <1>1, <1>9, <1>10, <1>11, <1>12 DEF PoolSound, X
<1> QED BY <1>3, <1>9, <1>13 DEF g, r

\* New keys take fresh ids first and the top of the free list next: m of the
\* ids are fresh.
Allocation(b, f, n, new, m, ids, d) ==
    /\ new \in Seq(Range(new)) /\ IsInjective(new) /\ Range(new) \cap DOMAIN b = {}
    /\ m = IF Len(new) < num_blocks - n THEN Len(new) ELSE num_blocks - n
    /\ Len(new) <= Len(f) + (num_blocks - n)
    /\ ids = [i \in 1..Len(new) |-> IF i <= m THEN n + i - 1 ELSE f[Len(f) - (i - m) + 1]]
    /\ DOMAIN d = DOMAIN b \cup Range(new)
    /\ \A k \in DOMAIN b : d[k].block_id = b[k].block_id
    /\ \A i \in 1..Len(new) : d[new[i]].block_id = ids[i]

\* They do not share a block with anything, and no id is lost.
LEMMA PoolAllocate ==
    ASSUME NEW b, NEW f, NEW n, PoolSound(b, f, n),
           NEW new, NEW m, NEW ids, NEW d, Allocation(b, f, n, new, m, ids, d)
    PROVE  /\ {i \in DOMAIN ids : ids[i] >= n} = 1..m
           /\ m \in Nat
           /\ PoolSound(d, SubSeq(f, 1, Len(f) - (Len(new) - m)), n + m)
<1> DEFINE X == 0..(n - 1)
           Y == 0..((n + m) - 1)
           N == Len(new)
           L == Len(f)
           left == L - (N - m)
           g == SubSeq(f, 1, left)
<1>1. /\ n \in Nat /\ n <= num_blocks
      /\ f \in Seq(X) /\ IsInjective(f)
      /\ \A k \in DOMAIN b : b[k].block_id \in X /\ b[k].block_id \notin Range(f)
      /\ \A k, l \in DOMAIN b : b[k].block_id = b[l].block_id => k = l
      /\ \A i \in X : i \in Range(f) \/ \E k \in DOMAIN b : b[k].block_id = i
    BY CapacityAssumption DEF PoolSound
<1>2. /\ DOMAIN new = 1..N /\ N \in Nat
      /\ \A k : k \in Range(new) <=> \E i \in 1..N : new[i] = k
    <2>1. DOMAIN new = 1..N /\ N \in Nat
        BY DEF Allocation
    <2> QED BY <2>1 DEF Range
<1>3. /\ DOMAIN f = 1..L /\ L \in Nat /\ \A i \in 1..L : f[i] \in X
      /\ \A i, j \in 1..L : f[i] = f[j] => i = j
      /\ \A x : x \in Range(f) <=> \E i \in 1..L : f[i] = x
    <2>1. f \in Seq(X) /\ IsInjective(f)
        BY <1>1
    <2> HIDE DEF X
    <2>2. DOMAIN f = 1..L /\ L \in Nat /\ \A i \in 1..L : f[i] \in X
        BY <2>1
    <2>3. \A i, j \in 1..L : f[i] = f[j] => i = j
        BY <2>1, <2>2 DEF IsInjective
    <2>4. \A x : x \in Range(f) <=> \E i \in 1..L : f[i] = x
        BY <2>2 DEF Range
    <2> QED BY <2>2, <2>3, <2>4
<1>x. n \in Nat /\ n <= num_blocks /\ N \in Nat /\ L \in Nat
    BY <1>1, <1>2, <1>3
<1>y. N <= L + (num_blocks - n) /\ m = IF N < num_blocks - n THEN N ELSE num_blocks - n
    BY DEF Allocation
<1>z. ids = [i \in 1..N |-> IF i <= m THEN n + i - 1 ELSE f[L - (i - m) + 1]]
    BY DEF Allocation
<1> HIDE DEF N, L
<1>4. /\ m \in Nat /\ m <= N /\ left \in Nat /\ left <= L /\ n + m <= num_blocks /\ n + m \in Nat
      /\ left + (N - m) = L /\ n \in Nat /\ N \in Nat /\ L \in Nat
    BY <1>x, <1>y, CapacityAssumption
<1> HIDE DEF left
<1> DEFINE at(i) == L - (i - m) + 1
<1>a. \A i \in (m + 1)..N : at(i) \in 1..L /\ at(i) \notin 1..left /\ i \in 1..N /\ ~(i <= m)
    BY <1>4
<1>b. \A i, j \in (m + 1)..N : at(i) = at(j) => i = j
    BY <1>4
<1>c. \A j \in 1..L : j \notin 1..left => \E i \in (m + 1)..N : at(i) = j
    <2> TAKE j \in 1..L
    <2> HAVE j \notin 1..left
    <2>1. m + (L - j) + 1 \in (m + 1)..N /\ at(m + (L - j) + 1) = j
        BY <1>4
    <2> QED BY <2>1
<1>d. \A i \in 1..m : i \in 1..N
    BY <1>4
<1>5. /\ DOMAIN ids = 1..N
      /\ \A i \in 1..m : ids[i] = n + i - 1
      /\ \A i \in (m + 1)..N : ids[i] = f[at(i)]
    BY <1>a, <1>d, <1>z
<1>e. \A i \in 1..N : i \in 1..m \/ i \in (m + 1)..N
    BY <1>4
<1> HIDE DEF at
<1>6. \A i \in (m + 1)..N : ids[i] \in X
    BY <1>3, <1>5, <1>a
<1>7. {i \in DOMAIN ids : ids[i] >= n} = 1..m
    <2>1. ASSUME NEW i \in (m + 1)..N PROVE ~(ids[i] >= n)
        <3>1. ids[i] \in X
            BY <1>6
        <3> QED BY <3>1, <1>4
    <2>2. ASSUME NEW i \in 1..m PROVE ids[i] >= n
        <3>1. ids[i] = n + i - 1
            BY <1>5
        <3> QED BY <3>1, <1>4
    <2> QED BY <2>1, <2>2, <1>5, <1>d, <1>e
<1>8. /\ g \in Seq(X) /\ Len(g) = left /\ IsInjective(g) /\ Range(g) \subseteq Range(f)
      /\ DOMAIN g = 1..left /\ \A i \in 1..left : g[i] = f[i] /\ g[i] \in X
    <2>0. f \in Seq(X) /\ IsInjective(f) /\ left <= Len(f) /\ left \in Nat
        BY <1>1, <1>4 DEF L
    <2>1. g \in Seq(X) /\ Len(g) = (IF 1 <= left THEN left - 1 + 1 ELSE 0) /\ IsInjective(g)
          /\ Range(g) \subseteq Range(f) /\ \A i \in 1..Len(g) : g[i] = f[1 + i - 1]
        <3> HIDE DEF X
        <3>1. 1 \in Nat \ {0}
            OBVIOUS
        <3> QED BY <2>0, <3>1, SubSeqFacts
    <2>2. Len(g) = left
        BY <2>0, <2>1
    <2>3. \A i \in 1..left : 1 + i - 1 = i
        BY <2>0
    <2> HIDE DEF g, X
    <2>4. DOMAIN g = 1..left /\ \A i \in 1..left : g[i] \in X
        BY <2>1, <2>2
    <2> QED BY <2>1, <2>2, <2>3, <2>4
<1> HIDE DEF g
<1>9. \A x : x \in Range(g) <=> \E i \in 1..left : f[i] = x
    <2>1. DOMAIN g = 1..left /\ \A i \in 1..left : g[i] = f[i]
        BY <1>8
    <2> QED BY <2>1 DEF Range
<1>10. (\A x \in X : x \in Y) /\ \A i \in 1..m : n + i - 1 \in Y /\ n + i - 1 \notin X
    BY <1>4
<1>10y. \A x \in Y : x \notin X => \E i \in 1..m : n + i - 1 = x
    <2> TAKE x \in Y
    <2> HAVE x \notin X
    <2>1. x - n + 1 \in 1..m /\ n + (x - n + 1) - 1 = x
        BY <1>4
    <2> QED BY <2>1
<1>10z. Y = 0..((n + m) - 1) /\ X = 0..(n - 1)
    OBVIOUS
<1> HIDE DEF X, Y
<1>11. g \in Seq(Y)
    <2>1. \A i \in 1..left : g[i] \in Y
        BY <1>8, <1>10
    <2>2. g = [i \in 1..left |-> g[i]]
        BY <1>8
    <2> QED BY <2>1, <2>2, <1>4
<1>12. \A i \in 1..m : ids[i] \in Y /\ ids[i] \notin X
    BY <1>5, <1>10
<1>13. \A i \in 1..N : /\ ids[i] \in Y /\ ids[i] \notin Range(g)
                       /\ \A k \in DOMAIN b : b[k].block_id # ids[i]
    <2> TAKE i \in 1..N
    <2>0. (\A k \in DOMAIN b : b[k].block_id \in X /\ b[k].block_id \notin Range(f))
        BY <1>1
    <2>1. CASE i \in 1..m
        <3>2. \A x \in Range(g) : x \in X
            BY <1>8 DEF Range
        <3> QED BY <2>0, <3>2, <2>1, <1>12
    <2>2. CASE i \in (m + 1)..N
        <3>1. at(i) \in 1..L /\ at(i) \notin 1..left /\ ids[i] = f[at(i)]
            BY <2>2, <1>5, <1>a
        <3>2. ids[i] \in Range(f)
            BY <3>1, <1>3
        <3>3. ids[i] \notin Range(g)
            <4> SUFFICES ASSUME NEW p \in 1..left, f[p] = f[at(i)] PROVE FALSE
                BY <3>1, <1>9
            <4>1. p \in 1..L
                BY <1>4
            <4> QED BY <4>1, <3>1, <1>3
        <3> QED BY <2>0, <3>2, <3>3, <2>2, <1>6, <1>10
    <2> QED BY <2>1, <2>2, <1>e
<1>14. \A i, j \in 1..N : ids[i] = ids[j] => i = j
    <2> SUFFICES ASSUME NEW i \in 1..N, NEW j \in 1..N, ids[i] = ids[j] PROVE i = j
        OBVIOUS
    <2>1. CASE i \in 1..m /\ j \in 1..m
        <3>1. n + i - 1 = n + j - 1
            BY <2>1, <1>5
        <3> QED BY <3>1, <1>4
    <2>2. CASE i \in (m + 1)..N /\ j \in (m + 1)..N
        <3>1. at(i) \in 1..L /\ at(j) \in 1..L /\ f[at(i)] = f[at(j)]
            BY <2>2, <1>5, <1>a
        <3>2. at(i) = at(j)
            BY <3>1, <1>3
        <3> QED BY <3>2, <2>2, <1>b
    <2>3. CASE i \in 1..m /\ j \in (m + 1)..N
        BY <2>3, <1>6, <1>12
    <2>4. CASE j \in 1..m /\ i \in (m + 1)..N
        BY <2>4, <1>6, <1>12
    <2> QED BY <2>1, <2>2, <2>3, <2>4, <1>e
<1>15. /\ DOMAIN d = DOMAIN b \cup Range(new)
       /\ \A k \in DOMAIN b : d[k].block_id = b[k].block_id
       /\ \A i \in 1..N : d[new[i]].block_id = ids[i]
    BY DEF Allocation, N
<1>16. /\ \A k \in DOMAIN d : k \in DOMAIN b \/ \E i \in 1..N : k = new[i]
       /\ \A i \in 1..N : new[i] \in DOMAIN d /\ d[new[i]].block_id = ids[i]
       /\ \A k \in DOMAIN b : k \in DOMAIN d /\ d[k].block_id = b[k].block_id
    BY <1>2, <1>15
<1>17. \A k \in DOMAIN d : d[k].block_id \in Y /\ d[k].block_id \notin Range(g)
    <2> TAKE k \in DOMAIN d
    <2>1. CASE k \in DOMAIN b
        BY <2>1, <1>1, <1>8, <1>10, <1>16
    <2>2. ASSUME NEW i \in 1..N, k = new[i]
          PROVE  d[k].block_id \in Y /\ d[k].block_id \notin Range(g)
        BY <2>2, <1>13, <1>16
    <2> QED BY <2>1, <2>2, <1>16
<1>18. \A k, l \in DOMAIN d : d[k].block_id = d[l].block_id => k = l
    <2> SUFFICES ASSUME NEW k \in DOMAIN d, NEW l \in DOMAIN d, d[k].block_id = d[l].block_id
                 PROVE  k = l
        OBVIOUS
    <2>1. CASE k \in DOMAIN b /\ l \in DOMAIN b
        BY <2>1, <1>1, <1>16
    <2>2. ASSUME k \in DOMAIN b, NEW i \in 1..N, l = new[i] PROVE k = l
        <3>1. b[k].block_id = ids[i]
            BY <2>2, <1>16, Zenon
        <3> QED BY <2>2, <3>1, <1>13, Zenon
    <2>3. ASSUME l \in DOMAIN b, NEW i \in 1..N, k = new[i] PROVE k = l
        BY <2>3, <1>13, <1>16, ZenonT(40)
    <2>4. ASSUME NEW i \in 1..N, NEW j \in 1..N, k = new[i], l = new[j] PROVE k = l
        <3>1. ids[i] = ids[j]
            BY <2>4, <1>16
        <3>2. i = j
            BY <3>1, <1>14
        <3> QED BY <2>4, <3>2
    <2> QED BY <2>1, <2>2, <2>3, <2>4, <1>16
<1>19. \A x \in Y : x \in Range(g) \/ \E k \in DOMAIN d : d[k].block_id = x
    <2> SUFFICES ASSUME NEW x \in Y, x \notin Range(g) PROVE \E k \in DOMAIN d : d[k].block_id = x
        OBVIOUS
    <2>0. ASSUME NEW i \in 1..N, ids[i] = x PROVE \E k \in DOMAIN d : d[k].block_id = x
        BY <2>0, <1>16
    <2>1. CASE x \in X /\ x \in Range(f)
        <3>1. PICK j \in 1..L : f[j] = x
            BY <2>1, <1>3
        <3>2. j \notin 1..left
            BY <3>1, <1>9
        <3>3. PICK i \in (m + 1)..N : at(i) = j
            BY <3>2, <1>c DEF at
        <3>4. i \in 1..N /\ ids[i] = x
            BY <3>1, <3>3, <1>5, <1>a
        <3> QED BY <3>4, <2>0
    <2>2. CASE x \in X /\ x \notin Range(f)
        <3>1. PICK k \in DOMAIN b : b[k].block_id = x
            BY <2>2, <1>1
        <3> QED BY <3>1, <1>16
    <2>3. CASE x \notin X
        <3>1. PICK i \in 1..m : n + i - 1 = x
            BY <2>3, <1>10y
        <3>2. i \in 1..N /\ ids[i] = x
            BY <3>1, <1>5, <1>d
        <3> QED BY <3>2, <2>0
    <2> QED BY <2>1, <2>2, <2>3
<1>20. PoolSound(d, g, n + m)
    <2>1. n + m \in 0..num_blocks
        BY <1>4, CapacityAssumption
    <2>4. \A k \in DOMAIN d : d[k].block_id \in Y \ Range(g)
        BY <1>17
    <2> QED BY <2>1, <2>4, <1>8, <1>10z, <1>11, <1>18, <1>19 DEF PoolSound
<1> QED BY <1>4, <1>7, <1>20 DEF g, left, N, L

-----------------------------------------------------------------------------
(* Each operation keeps the manager sound. *)

\* The parts of a block record.
LEMMA BlockParts ==
    ASSUME NEW i, NEW r
    PROVE  Block(i, r).block_id = i /\ Block(i, r).ref_cnt = r
    BY DEF Block

\* A key is ready when no store of it is in flight.
LEMMA ReadyKeys ==
    ASSUME NEW b, NEW c, NEW f, NEW n, NEW l, NEW h, NEW s, Sound(b, c, f, n, l, h, s)
    PROVE  /\ {k \in DOMAIN b : b[k].ref_cnt >= 0} = DOMAIN b \ s
           /\ \A k \in s : k \in DOMAIN b /\ b[k].ref_cnt = NotReady
           /\ \A k \in DOMAIN b : b[k].ref_cnt \in NotReady..(2 * MaxRefs)
<1>1. \A k \in Key : l[k] \in 0..MaxRefs /\ h[k] \in 0..MaxRefs
    BY DEF Sound
<1>2. \A k \in Key : l[k] + h[k] \in 0..(2 * MaxRefs)
    BY <1>1, ManagerAssumption
<1>3. /\ \A k \in DOMAIN b : b[k].ref_cnt = IF k \in s THEN NotReady ELSE l[k] + h[k]
      /\ DOMAIN b \subseteq Key /\ s \subseteq Key /\ \A k \in Key \ DOMAIN b : k \notin s
    BY DEF Sound
<1>4. \A k \in s : k \in DOMAIN b /\ b[k].ref_cnt = NotReady
    BY <1>3
<1>5. \A k \in DOMAIN b : b[k].ref_cnt >= 0 <=> k \notin s
    <2> TAKE k \in DOMAIN b
    <2>1. CASE k \in s
        BY <2>1, <1>4 DEF NotReady
    <2>2. CASE k \notin s
        <3>1. b[k].ref_cnt = l[k] + h[k] /\ l[k] + h[k] \in 0..(2 * MaxRefs)
            BY <2>2, <1>2, <1>3
        <3> QED BY <3>1, <2>2, ManagerAssumption
    <2> QED BY <2>1, <2>2
<1>6. \A k \in DOMAIN b : b[k].ref_cnt \in NotReady..(2 * MaxRefs)
    <2> TAKE k \in DOMAIN b
    <2>1. CASE k \in s
        BY <2>1, <1>4, ManagerAssumption DEF NotReady
    <2>2. CASE k \notin s
        <3>1. b[k].ref_cnt = l[k] + h[k] /\ l[k] + h[k] \in 0..(2 * MaxRefs)
            BY <2>2, <1>2, <1>3
        <3> QED BY <3>1, <2>2, ManagerAssumption DEF NotReady
    <2> QED BY <2>1, <2>2
<1> QED BY <1>4, <1>5, <1>6

\* One reference more, or one less, on the ready keys K.
Referencing(b, s, K, d, l, h, m, g, e) ==
    /\ K \subseteq DOMAIN b \ s /\ d \in {1, -1}
    /\ m \in [Key -> 0..MaxRefs] /\ g \in [Key -> 0..MaxRefs]
    /\ \A k \in Key : m[k] + g[k] = l[k] + h[k] + (IF k \in K THEN d ELSE 0)
    /\ e = [k \in DOMAIN b |-> IF k \in K THEN Block(b[k].block_id, b[k].ref_cnt + d) ELSE b[k]]

\* Counting references up or down keeps the manager sound.
LEMMA SoundRefs ==
    ASSUME NEW b, NEW c, NEW f, NEW n, NEW l, NEW h, NEW s, Sound(b, c, f, n, l, h, s),
           NEW K, NEW d, NEW m, NEW g, NEW e, Referencing(b, s, K, d, l, h, m, g, e)
    PROVE  Sound(e, c, f, n, m, g, s)
<1>0. /\ K \subseteq DOMAIN b \ s /\ d \in {1, -1}
      /\ m \in [Key -> 0..MaxRefs] /\ g \in [Key -> 0..MaxRefs]
      /\ \A k \in Key : m[k] + g[k] = l[k] + h[k] + (IF k \in K THEN d ELSE 0)
      /\ e = [k \in DOMAIN b |-> IF k \in K THEN Block(b[k].block_id, b[k].ref_cnt + d) ELSE b[k]]
    BY DEF Referencing
<1>1. /\ l \in [Key -> 0..MaxRefs] /\ h \in [Key -> 0..MaxRefs] /\ s \subseteq Key
      /\ DOMAIN b \subseteq Key
      /\ \A k \in DOMAIN b : b[k] = Block(b[k].block_id, b[k].ref_cnt)
      /\ PoolSound(b, f, n)
      /\ SoundCache(c, Key, DOMAIN b, DOMAIN b \ s)
      /\ \A k \in Key \ DOMAIN b : k \notin s /\ l[k] + h[k] = 0
      /\ \A k \in DOMAIN b : b[k].ref_cnt = IF k \in s THEN NotReady ELSE l[k] + h[k]
      /\ \A k \in s : l[k] + h[k] = 0
    BY Zenon DEF Sound
<1>2. /\ DOMAIN e = DOMAIN b
      /\ \A k \in K : e[k] = Block(b[k].block_id, b[k].ref_cnt + d)
      /\ \A k \in DOMAIN b \ K : e[k] = b[k] /\ K \subseteq DOMAIN b \ s
    BY <1>0
<1>3. \A k \in DOMAIN b : e[k].block_id = b[k].block_id
    <2> TAKE k \in DOMAIN b
    <2>1. CASE k \in K
        <3>1. e[k] = Block(b[k].block_id, b[k].ref_cnt + d)
            BY <2>1, <1>2, Zenon
        <3>2. Block(b[k].block_id, b[k].ref_cnt + d).block_id = b[k].block_id
            BY BlockParts, Zenon
        <3> QED BY <3>1, <3>2, Zenon
    <2>2. CASE k \notin K
        BY <2>2, <1>2, Zenon
    <2> QED BY <2>1, <2>2, Zenon
<1>4. PoolSound(e, f, n)
    BY <1>1, <1>2, <1>3, PoolSame
<1>5. \A k \in DOMAIN e : e[k] = Block(e[k].block_id, e[k].ref_cnt)
    <2> TAKE k \in DOMAIN e
    <2>1. CASE k \in K
        <3> DEFINE x == b[k].block_id  y == b[k].ref_cnt + d
        <3>1. e[k] = Block(x, y)
            BY <2>1, <1>2, Zenon
        <3> HIDE DEF x, y
        <3>2. Block(x, y).block_id = x /\ Block(x, y).ref_cnt = y
            BY BlockParts, Zenon
        <3> QED BY <3>1, <3>2, Zenon
    <2>2. CASE k \notin K
        BY <2>2, <1>1, <1>2, Zenon
    <2> QED BY <2>1, <2>2, Zenon
<1>6. \A k \in Key : l[k] + h[k] \in Int /\ (k \notin K => m[k] + g[k] = l[k] + h[k])
                     /\ (k \in K => m[k] + g[k] = l[k] + h[k] + d)
    <2> TAKE k \in Key
    <2>1. l[k] \in Int /\ h[k] \in Int
        <3>1. l \in [Key -> 0..MaxRefs] /\ h \in [Key -> 0..MaxRefs]
            BY <1>1, Zenon
        <3> QED BY <3>1, ManagerAssumption
    <2>2. m[k] + g[k] = l[k] + h[k] + (IF k \in K THEN d ELSE 0)
        BY <1>0, Zenon
    <2>3. l[k] + h[k] \in Int /\ l[k] + h[k] + 0 = l[k] + h[k]
        BY <2>1
    <2> QED BY <2>2, <2>3, Zenon
<1>7. \A k \in Key \ DOMAIN e : k \notin s /\ m[k] + g[k] = 0
    BY <1>0, <1>1, <1>2, <1>6
<1>8. \A k \in s : m[k] + g[k] = 0
    BY <1>0, <1>1, <1>6
<1>9. \A k \in DOMAIN e : e[k].ref_cnt = IF k \in s THEN NotReady ELSE m[k] + g[k]
    <2> TAKE k \in DOMAIN e
    <2>1. CASE k \in K
        <3>1. e[k].ref_cnt = b[k].ref_cnt + d /\ k \notin s /\ k \in Key
            <4>1. e[k] = Block(b[k].block_id, b[k].ref_cnt + d) /\ k \notin s /\ k \in Key
                BY <2>1, <1>0, <1>1, <1>2, Zenon
            <4>2. Block(b[k].block_id, b[k].ref_cnt + d).ref_cnt = b[k].ref_cnt + d
                BY BlockParts, Zenon
            <4> QED BY <4>1, <4>2, Zenon
        <3>2. b[k].ref_cnt = l[k] + h[k]
            BY <2>1, <1>0, <1>1
        <3>3. m[k] + g[k] = l[k] + h[k] + d
            BY <2>1, <3>1, <1>6
        <3> QED BY <3>1, <3>2, <3>3
    <2>2. CASE k \notin K
        <3>1. e[k] = b[k] /\ k \in Key /\ m[k] + g[k] = l[k] + h[k]
            BY <2>2, <1>1, <1>2, <1>6
        <3> QED BY <3>1, <1>1, <1>2
    <2> QED BY <2>1, <2>2
<1> QED BY <1>0, <1>1, <1>2, <1>4, <1>5, <1>7, <1>8, <1>9 DEF Sound

\* Stores that complete make their keys ready.
LEMMA SoundCompleted ==
    ASSUME NEW b, NEW c, NEW f, NEW n, NEW l, NEW h, NEW s, Sound(b, c, f, n, l, h, s),
           NEW K, K \subseteq s,
           NEW e, e = [k \in DOMAIN b |->
                         IF k \in K /\ b[k].ref_cnt = NotReady THEN Block(b[k].block_id, 0) ELSE b[k]]
    PROVE  Sound(e, c, f, n, l, h, s \ K)
<1>1. /\ l \in [Key -> 0..MaxRefs] /\ h \in [Key -> 0..MaxRefs] /\ s \subseteq Key
      /\ DOMAIN b \subseteq Key
      /\ \A k \in DOMAIN b : b[k] = Block(b[k].block_id, b[k].ref_cnt)
      /\ PoolSound(b, f, n)
      /\ SoundCache(c, Key, DOMAIN b, DOMAIN b \ s)
      /\ \A k \in Key \ DOMAIN b : k \notin s /\ l[k] + h[k] = 0
      /\ \A k \in DOMAIN b : b[k].ref_cnt = IF k \in s THEN NotReady ELSE l[k] + h[k]
      /\ \A k \in s : l[k] + h[k] = 0
    BY DEF Sound
<1>2. /\ DOMAIN e = DOMAIN b /\ \A k \in K : k \in DOMAIN b /\ e[k] = Block(b[k].block_id, 0)
      /\ \A k \in DOMAIN b \ K : e[k] = b[k]
    <2>1. \A k \in K : k \in DOMAIN b /\ b[k].ref_cnt = NotReady
        BY ReadyKeys
    <2> QED BY <2>1
<1>3. \A k \in DOMAIN b : e[k].block_id = b[k].block_id
    BY <1>2, BlockParts, ZenonT(40)
<1>4. PoolSound(e, f, n)
    BY <1>1, <1>2, <1>3, PoolSame
<1>5. \A k \in DOMAIN e : e[k] = Block(e[k].block_id, e[k].ref_cnt)
    <2> TAKE k \in DOMAIN e
    <2>1. CASE k \in K
        <3> DEFINE x == b[k].block_id
        <3>1. e[k] = Block(x, 0)
            BY <2>1, <1>2, Zenon
        <3> HIDE DEF x
        <3>2. Block(x, 0).block_id = x /\ Block(x, 0).ref_cnt = 0
            BY BlockParts, Zenon
        <3> QED BY <3>1, <3>2, Zenon
    <2>2. CASE k \notin K
        BY <2>2, <1>1, <1>2, Zenon
    <2> QED BY <2>1, <2>2, Zenon
<1>6. SoundCache(c, Key, DOMAIN e, DOMAIN e \ (s \ K))
    <2> DEFINE R == DOMAIN b \ s
               Q == DOMAIN b \ (s \ K)
    <2>1. R \cap DOMAIN b \subseteq Q
        OBVIOUS
    <2>2. SoundCache(c, Key, DOMAIN b, R)
        BY <1>1
    <2> HIDE DEF R, Q
    <2>3. SoundCache(c, Key, DOMAIN b, Q)
        BY <2>1, <2>2, SoundMonotone
    <2> QED BY <2>3, <1>2 DEF Q
<1>7. \A k \in DOMAIN e : e[k].ref_cnt = IF k \in s \ K THEN NotReady ELSE l[k] + h[k]
    <2> TAKE k \in DOMAIN e
    <2>1. CASE k \in K
        BY <2>1, <1>1, <1>2, BlockParts, ZenonT(40)
    <2>2. CASE k \notin K
        BY <2>2, <1>1, <1>2
    <2> QED BY <2>1, <2>2
<1>8. /\ \A k \in Key \ DOMAIN e : k \notin s \ K /\ l[k] + h[k] = 0
      /\ \A k \in s \ K : l[k] + h[k] = 0
      /\ s \ K \subseteq Key
    BY <1>1, <1>2
<1> QED BY <1>1, <1>2, <1>4, <1>5, <1>6, <1>7, <1>8 DEF Sound

\* Stores that fail give their blocks back.
LEMMA SoundFailed ==
    ASSUME NEW b, NEW c, NEW f, NEW n, NEW l, NEW h, NEW s, Sound(b, c, f, n, l, h, s),
           NEW v \in Seq(Key), IsInjective(v), Range(v) \subseteq s,
           NEW e, e = [k \in DOMAIN b \ Range(v) |-> b[k]]
    PROVE  Sound(e, remove(c, Range(v)), f \o IdsOf(b, v), n,
                 l, h, s \ Range(v))
<1> DEFINE K == Range(v)
           g == f \o IdsOf(b, v)
<1>1. /\ l \in [Key -> 0..MaxRefs] /\ h \in [Key -> 0..MaxRefs] /\ s \subseteq Key
      /\ DOMAIN b \subseteq Key
      /\ \A k \in DOMAIN b : b[k] = Block(b[k].block_id, b[k].ref_cnt)
      /\ PoolSound(b, f, n)
      /\ SoundCache(c, Key, DOMAIN b, DOMAIN b \ s)
      /\ \A k \in Key \ DOMAIN b : k \notin s /\ l[k] + h[k] = 0
      /\ \A k \in DOMAIN b : b[k].ref_cnt = IF k \in s THEN NotReady ELSE l[k] + h[k]
      /\ \A k \in s : l[k] + h[k] = 0
    BY DEF Sound
<1>2. K \subseteq DOMAIN b
    BY ReadyKeys
<1>3. DOMAIN e = DOMAIN b \ K /\ \A k \in DOMAIN e : e[k] = b[k]
    OBVIOUS
<1>4. v \in Seq(DOMAIN b)
    <2>1. DOMAIN v = 1..Len(v) /\ Len(v) \in Nat /\ v = [i \in 1..Len(v) |-> v[i]]
        OBVIOUS
    <2>2. \A i \in 1..Len(v) : v[i] \in DOMAIN b
        BY <1>2, <2>1 DEF Range
    <2> QED BY <2>1, <2>2
<1>5. PoolSound(e, g, n)
    <2>1. Returning(b, v, e)
        BY <1>3, <1>4 DEF Returning
    <2> QED BY <2>1, <1>1, PoolReturn
<1> HIDE DEF K, g
<1>6. SoundCache(remove(c, K), Key, DOMAIN e, DOMAIN e \ (s \ K))
    <2> DEFINE R == DOMAIN b \ s
    <2>1. SoundCache(c, Key, DOMAIN b, R)
        BY <1>1
    <2>2. DOMAIN e \ (s \ K) = R \ K
        BY <1>3
    <2> HIDE DEF R
    <2> QED BY <1>3, <2>1, <2>2, RemoveSound
<1>7. \A k \in DOMAIN e : e[k].ref_cnt = IF k \in s \ K THEN NotReady ELSE l[k] + h[k]
    BY <1>1, <1>3
<1>8. /\ \A k \in Key \ DOMAIN e : k \notin s \ K /\ l[k] + h[k] = 0
      /\ \A k \in s \ K : l[k] + h[k] = 0
      /\ s \ K \subseteq Key /\ DOMAIN e \subseteq Key
      /\ \A k \in DOMAIN e : e[k] = Block(e[k].block_id, e[k].ref_cnt)
    BY <1>1, <1>2, <1>3 DEF K
<1>9. Sound(e, remove(c, K), g, n, l, h, s \ K)
    BY <1>1, <1>5, <1>6, <1>7, <1>8, Zenon DEF Sound
<1> QED BY <1>9 DEF K, g


\* An accepted store evicts v and gives blocks to new, m of them fresh.
Storing(b, s, f, n, v, new, m, ids, e) ==
    /\ v \in Seq(Key) /\ IsInjective(v) /\ Range(v) \subseteq DOMAIN b
    /\ \A k \in Range(v) : b[k].ref_cnt = 0
    /\ new \in Seq(Key) /\ IsInjective(new) /\ Range(new) \cap DOMAIN b = {}
    /\ Len(new) <= Len(f) + (num_blocks - n) + Len(v)
    /\ m = IF Len(new) < num_blocks - n THEN Len(new) ELSE num_blocks - n
    /\ ids = [i \in 1..Len(new) |->
                IF i <= m THEN n + i - 1
                ELSE (f \o IdsOf(b, v))[Len(f \o IdsOf(b, v)) - (i - m) + 1]]
    /\ e = [k \in (DOMAIN b \ Range(v)) \cup Range(new) |->
              IF k \in DOMAIN b \ Range(v) THEN b[k]
              ELSE Block(ids[CHOOSE i \in DOMAIN new : new[i] = k], NotReady)]

\* Inserting the blocks of a store keeps the manager sound.
LEMMA SoundStored ==
    ASSUME NEW b, NEW c, NEW f, NEW n, NEW l, NEW h, NEW s, Sound(b, c, f, n, l, h, s),
           NEW v, NEW new, NEW m, NEW ids, NEW e, Storing(b, s, f, n, v, new, m, ids, e),
           NEW c2, SoundCache(c2, Key, DOMAIN b \ Range(v), (DOMAIN b \ s) \ Range(v))
    PROVE  /\ Cardinality({i \in DOMAIN ids : ids[i] >= n}) = m
           /\ Sound(e, insert(c2, new),
                    SubSeq(f \o IdsOf(b, v), 1, Len(f \o IdsOf(b, v)) - (Len(new) - m)),
                    n + m, l, h, s \cup Range(new))
<1> DEFINE V == Range(v)
           W == Range(new)
           g == f \o IdsOf(b, v)
           kept == [k \in DOMAIN b \ V |-> b[k]]
<1>1. /\ l \in [Key -> 0..MaxRefs] /\ h \in [Key -> 0..MaxRefs] /\ s \subseteq Key
      /\ DOMAIN b \subseteq Key
      /\ \A k \in DOMAIN b : b[k] = Block(b[k].block_id, b[k].ref_cnt)
      /\ PoolSound(b, f, n)
      /\ \A k \in Key \ DOMAIN b : k \notin s /\ l[k] + h[k] = 0
      /\ \A k \in DOMAIN b : b[k].ref_cnt = IF k \in s THEN NotReady ELSE l[k] + h[k]
      /\ \A k \in s : l[k] + h[k] = 0
    BY DEF Sound
<1>2. /\ v \in Seq(Key) /\ IsInjective(v) /\ V \subseteq DOMAIN b
      /\ \A k \in V : b[k].ref_cnt = 0
      /\ new \in Seq(Key) /\ IsInjective(new) /\ W \cap DOMAIN b = {}
      /\ Len(new) <= Len(f) + (num_blocks - n) + Len(v)
    BY Zenon DEF Storing
<1>3. n \in Nat /\ n <= num_blocks /\ Len(f) \in Nat
    <2>1. n \in 0..num_blocks /\ f \in Seq(0..(n - 1))
        BY <1>1 DEF PoolSound
    <2> QED BY <2>1, CapacityAssumption
<1>4. v \in Seq(DOMAIN b)
    <2>1. DOMAIN v = 1..Len(v) /\ Len(v) \in Nat /\ v = [i \in 1..Len(v) |-> v[i]]
        BY <1>2
    <2>2. \A i \in 1..Len(v) : v[i] \in DOMAIN b
        BY <1>2, <2>1 DEF Range
    <2> QED BY <2>1, <2>2
<1>5. DOMAIN kept = DOMAIN b \ V /\ \A k \in DOMAIN b \ V : kept[k] = b[k]
    OBVIOUS
<1> HIDE DEF kept
<1>6. PoolSound(kept, g, n) /\ Len(g) = Len(f) + Len(v)
    <2>1. Returning(b, v, kept)
        BY <1>2, <1>4, <1>5 DEF Returning
    <2>2. PoolSound(b, f, n)
        BY <1>1, Zenon
    <2>3. PoolSound(kept, f \o IdsOf(b, v), n) /\ Len(f \o IdsOf(b, v)) = Len(f) + Len(v)
        BY <2>1, <2>2, PoolReturn, ZenonT(40)
    <2> QED BY <2>3
<1>7. /\ DOMAIN new = 1..Len(new) /\ Len(new) \in Nat
      /\ \A k : k \in W <=> \E i \in 1..Len(new) : new[i] = k
      /\ \A i, j \in 1..Len(new) : new[i] = new[j] => i = j
    <2>1. new \in Seq(Key) /\ IsInjective(new)
        BY <1>2
    <2>2. DOMAIN new = 1..Len(new) /\ Len(new) \in Nat
        BY <2>1
    <2> QED BY <2>1, <2>2, Zenon DEF IsInjective, Range
<1>8. /\ DOMAIN e = (DOMAIN b \ V) \cup W
      /\ \A k \in DOMAIN b \ V : e[k] = b[k]
      /\ \A k \in W : e[k] = Block(ids[CHOOSE i \in DOMAIN new : new[i] = k], NotReady)
    BY <1>2, Zenon DEF Storing
<1>9. \A i \in 1..Len(new) : (CHOOSE j \in DOMAIN new : new[j] = new[i]) = i
    BY <1>7
<1>10. \A i \in 1..Len(new) : e[new[i]].block_id = ids[i]
    <2> TAKE i \in 1..Len(new)
    <2>1. new[i] \in W
        BY <1>7
    <2>2. e[new[i]] = Block(ids[CHOOSE j \in DOMAIN new : new[j] = new[i]], NotReady)
        BY <2>1, <1>8
    <2>3. e[new[i]] = Block(ids[i], NotReady)
        BY <2>2, <1>9, Zenon
    <2>4. Block(ids[i], NotReady).block_id = ids[i]
        BY BlockParts, Zenon
    <2> QED BY <2>3, <2>4, Zenon
<1>11. Allocation(kept, g, n, new, m, ids, e)
    <2>1. new \in Seq(W)
        <3>1. new = [i \in 1..Len(new) |-> new[i]]
            BY <1>2
        <3>2. \A i \in 1..Len(new) : new[i] \in W
            BY <1>7
        <3> HIDE DEF W
        <3> QED BY <3>1, <3>2, <1>7
    <2>2. Len(new) <= Len(g) + (num_blocks - n)
        <3>1. Len(v) \in Nat
            <4>1. v \in Seq(Key)
                BY <1>2, Zenon
            <4> QED BY <4>1
        <3>2. Len(new) <= Len(f) + (num_blocks - n) + Len(v)
            BY <1>2, Zenon
        <3>3. Len(f) \in Nat /\ n \in Nat /\ num_blocks \in Nat /\ Len(g) = Len(f) + Len(v)
            BY <1>3, <1>6, CapacityAssumption, Zenon
        <3> DEFINE x == Len(f)  y == Len(v)  z == Len(g)  w == Len(new)
        <3>4. /\ x \in Nat /\ y \in Nat /\ w \in Nat /\ n \in Nat /\ num_blocks \in Nat
              /\ z = x + y /\ w <= x + (num_blocks - n) + y
            BY <3>1, <3>2, <3>3, <1>7, Zenon
        <3> HIDE DEF x, y, z, w
        <3>5. w <= z + (num_blocks - n)
            BY <3>4
        <3> QED BY <3>5, Zenon DEF z, w
    <2>3. W \cap DOMAIN kept = {}
        BY <1>2, <1>5
    <2>4. /\ m = IF Len(new) < num_blocks - n THEN Len(new) ELSE num_blocks - n
          /\ ids = [i \in 1..Len(new) |-> IF i <= m THEN n + i - 1 ELSE g[Len(g) - (i - m) + 1]]
        BY DEF Storing
    <2>5. DOMAIN e = DOMAIN kept \cup W /\ \A k \in DOMAIN kept : e[k].block_id = kept[k].block_id
        BY <1>5, <1>8, Zenon
    <2> HIDE DEF g
    <2> QED BY <2>1, <2>2, <2>3, <2>4, <2>5, <1>2, <1>10, Zenon DEF Allocation
<1> HIDE DEF g
<1>12. /\ {i \in DOMAIN ids : ids[i] >= n} = 1..m /\ m \in Nat
       /\ PoolSound(e, SubSeq(g, 1, Len(g) - (Len(new) - m)), n + m)
    BY <1>6, <1>11, PoolAllocate
<1>13. Cardinality({i \in DOMAIN ids : ids[i] >= n}) = m
    <2>1. Cardinality(1..m) = m
        BY <1>12, FS_Interval
    <2> QED BY <2>1, <1>12, Zenon
<1>14. SoundCache(insert(c2, new), Key, DOMAIN e, DOMAIN e \ (s \cup W))
    <2> DEFINE K == DOMAIN b \ V
               R == (DOMAIN b \ s) \ V
    <2>1. SoundCache(c2, Key, K, R) /\ W \cap K = {}
        BY <1>2
    <2>2. DOMAIN e = K \cup W
        BY <1>8
    <2>3. R \cap DOMAIN e \subseteq DOMAIN e \ (s \cup W)
        BY <1>2, <1>8
    <2> HIDE DEF K, R
    <2>4. SoundCache(insert(c2, new), Key, K \cup W, R)
        BY <2>1, <1>2, InsertSound, Zenon
    <2> HIDE DEF W
    <2>5. SoundCache(insert(c2, new), Key, DOMAIN e, R)
        BY <2>2, <2>4
    <2> QED BY <2>3, <2>5, SoundMonotone
<1>15. \A k \in V : k \notin s /\ l[k] + h[k] = 0
    <2> TAKE k \in V
    <2>1. b[k].ref_cnt = 0 /\ k \in DOMAIN b
        BY <1>2
    <2>2. k \notin s
        <3>1. k \in s => b[k].ref_cnt = NotReady
            BY <2>1, <1>1, Zenon
        <3>2. 0 # NotReady
            BY DEF NotReady
        <3> QED BY <2>1, <3>1, <3>2, Zenon
    <2> QED BY <2>1, <2>2, <1>1, Zenon
<1>16. W \subseteq Key
    BY <1>2, RangeFacts
<1>17. \A k \in W : l[k] + h[k] = 0
    BY <1>1, <1>2, <1>16, Zenon
<1>18. \A k \in DOMAIN e : e[k].ref_cnt = IF k \in s \cup W THEN NotReady ELSE l[k] + h[k]
    <2> TAKE k \in DOMAIN e
    <2>1. CASE k \in W
        <3> DEFINE x == ids[CHOOSE i \in DOMAIN new : new[i] = k]
        <3>1. e[k] = Block(x, NotReady)
            BY <2>1, <1>8, Zenon
        <3> HIDE DEF x
        <3>2. e[k].ref_cnt = NotReady
            BY <3>1, BlockParts, SMTT(30)
        <3> QED BY <2>1, <3>2, Zenon
    <2>2. CASE k \in DOMAIN b \ V
        <3>1. k \notin W /\ e[k] = b[k]
            BY <2>2, <1>2, <1>8, Zenon
        <3> QED BY <3>1, <2>2, <1>1
    <2> QED BY <2>1, <2>2, <1>8, Zenon
<1>19. \A k \in DOMAIN e : e[k] = Block(e[k].block_id, e[k].ref_cnt)
    <2> TAKE k \in DOMAIN e
    <2>1. CASE k \in W
        <3> DEFINE x == ids[CHOOSE i \in DOMAIN new : new[i] = k]
        <3>1. e[k] = Block(x, NotReady)
            BY <2>1, <1>8, Zenon
        <3> HIDE DEF x
        <3>2. e[k].block_id = x /\ e[k].ref_cnt = NotReady
            BY <3>1, BlockParts, SMTT(30)
        <3> QED BY <3>1, <3>2, Zenon
    <2>2. CASE k \in DOMAIN b \ V
        BY <2>2, <1>1, <1>8, Zenon
    <2> QED BY <2>1, <2>2, <1>8, Zenon
<1>20. /\ \A k \in Key \ DOMAIN e : k \notin s \cup W /\ l[k] + h[k] = 0
       /\ \A k \in s \cup W : l[k] + h[k] = 0
       /\ s \cup W \subseteq Key /\ DOMAIN e \subseteq Key
    <2> HIDE DEF V, W
    <2> QED BY <1>1, <1>8, <1>15, <1>16, <1>17, Zenon
<1> HIDE DEF V, W
<1>21. Sound(e, insert(c2, new), SubSeq(g, 1, Len(g) - (Len(new) - m)), n + m, l, h, s \cup W)
    BY <1>1, <1>12, <1>14, <1>18, <1>19, <1>20, Zenon DEF Sound
<1> QED BY <1>13, <1>21 DEF g, W
=============================================================================
