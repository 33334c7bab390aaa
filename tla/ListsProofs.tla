---------------------------- MODULE ListsProofs -----------------------------
(***************************************************************************)
(* What the filters of Lists return, for every sequence and set, and what  *)
(* sums over finite sets are.                                              *)
(*                                                                         *)
(* Induction over the length of a sequence, or the size of a set, is the   *)
(* least-number principle applied to a set (NatSetInduction), which the    *)
(* theorem WFMin provides.                                                 *)
(***************************************************************************)
EXTENDS Queues, FiniteSetTheorems, TLAPS

\* A non-empty set of naturals has a least element.
LEMMA LeastNatural ==
    ASSUME NEW S \in SUBSET Nat, S # {}
    PROVE  \E x \in S : \A y \in S : x <= y
<1>1. IsWellFoundedOn(OpToRel(<, Nat), Nat)
    BY NatLessThanWellFounded, Zenon
<1>2. PICK x \in S : \A y \in S : ~(<<y, x>> \in OpToRel(<, Nat))
    BY <1>1, WFMin, Zenon
<1>3. \A y \in S : ~(y < x)
    BY <1>2, Zenon DEF OpToRel
<1>4. \A y \in S : x <= y
    BY <1>3
<1> QED BY <1>4

\* A set that holds 0, and with each number its successor, holds all.
LEMMA NatSetInduction ==
    ASSUME NEW S, 0 \in S, \A n \in Nat : n \in S => n + 1 \in S
    PROVE  \A n \in Nat : n \in S
<1> DEFINE T == {n \in Nat : n \notin S}
<1>1. SUFFICES ASSUME T # {} PROVE FALSE
    OBVIOUS
<1>2. PICK x \in T : \A y \in T : x <= y
    <2> HIDE DEF T
    <2>1. T \in SUBSET Nat BY DEF T
    <2>2. QED BY <1>1, <2>1, LeastNatural
<1>3. x # 0 /\ x - 1 \in Nat /\ x - 1 \notin T /\ x - 1 < x
    BY <1>2
<1> QED BY <1>3

\* The function that computes Only.
IsFilter(f, s, K, n) ==
    f = [i \in 0..n |-> IF i = 0 THEN <<>>
                        ELSE IF s[i] \in K THEN Append(f[i - 1], s[i]) ELSE f[i - 1]]

\* It exists for every length.
LEMMA FilterExists ==
    ASSUME NEW s, NEW K
    PROVE  \A n \in Nat : \E f : IsFilter(f, s, K, n)
<1> DEFINE S == {n \in Nat : \E f : IsFilter(f, s, K, n)}
<1>1. 0 \in S
    <2>1. IsFilter([i \in 0..0 |-> <<>>], s, K, 0)
        BY DEF IsFilter
    <2> QED BY <2>1
<1>2. ASSUME NEW n \in Nat, n \in S
      PROVE  n + 1 \in S
    <2>1. PICK f : IsFilter(f, s, K, n)
        BY <1>2
    <2> DEFINE last == IF s[n + 1] \in K THEN Append(f[n], s[n + 1]) ELSE f[n]
               g == [i \in 0..(n + 1) |-> IF i = n + 1 THEN last ELSE f[i]]
    <2>2. \A i \in 0..n : f[i] = IF i = 0 THEN <<>>
                        ELSE IF s[i] \in K THEN Append(f[i - 1], s[i]) ELSE f[i - 1]
        BY <2>1, Zenon DEF IsFilter
    <2>3. \A i \in 0..n : g[i] = f[i]
        OBVIOUS
    <2>4. g[n + 1] = last
        OBVIOUS
    <2> HIDE DEF last
    <2>5. \A i \in 0..(n + 1) : g[i] = IF i = 0 THEN <<>>
                        ELSE IF s[i] \in K THEN Append(g[i - 1], s[i]) ELSE g[i - 1]
        <3> SUFFICES ASSUME NEW i \in 0..(n + 1)
                     PROVE  g[i] = IF i = 0 THEN <<>>
                        ELSE IF s[i] \in K THEN Append(g[i - 1], s[i]) ELSE g[i - 1]
            OBVIOUS
        <3> HIDE DEF g
        <3>1. CASE i = n + 1
            <4>1. g[i - 1] = f[n]
                BY <2>3, <3>1
            <4> QED BY <4>1, <2>4, <3>1 DEF last
        <3>2. CASE i = 0
            BY <2>2, <2>3, <3>2
        <3>3. CASE i \in 1..n
            <4>1. i - 1 \in 0..n /\ i \in 0..n
                BY <3>3
            <4> QED BY <4>1, <2>2, <2>3, <3>3
        <3> QED BY <3>1, <3>2, <3>3
    <2>6. IsFilter(g, s, K, n + 1)
        <3> HIDE DEF last
        <3>1. g = [i \in 0..(n + 1) |-> g[i]]
            OBVIOUS
        <3> HIDE DEF g
        <3> QED BY <2>5, <3>1 DEF IsFilter
    <2> QED BY <2>6
<1> HIDE DEF S
<1>3. \A n \in Nat : n \in S
    BY <1>1, <1>2, NatSetInduction
<1> QED BY <1>3 DEF S

\* Only is the value of such a function.
LEMMA OnlyIsFilter ==
    ASSUME NEW X, NEW s \in Seq(X), NEW K
    PROVE  \E f : IsFilter(f, s, K, Len(s)) /\ Only(s, K) = f[Len(s)]
<1> DEFINE f == CHOOSE f : IsFilter(f, s, K, Len(s))
<1>0. \E g : IsFilter(g, s, K, Len(s))
    <2>1. Len(s) \in Nat
        OBVIOUS
    <2> HIDE DEF f
    <2> QED BY <2>1, FilterExists, Zenon
<1>1. IsFilter(f, s, K, Len(s))
    BY <1>0
<1>2. Only(s, K) = f[Len(s)]
    BY DEF Only, IsFilter
<1> QED BY <1>1, <1>2, Zenon

\* c lists the members of K among the first n elements of s; c[a] is the
\* element at place m[a].
Filters(c, m, X, s, K, n) ==
    /\ c \in Seq(X)
    /\ m \in [1..Len(c) -> 1..n]
    /\ \A a \in 1..Len(c) : c[a] = s[m[a]] /\ s[m[a]] \in K
    /\ \A a, b \in 1..Len(c) : a < b => m[a] < m[b]
    /\ \A j \in 1..n : s[j] \in K => \E a \in 1..Len(c) : m[a] = j
    /\ Len(c) <= n
    /\ Len(c) = n <=> \A j \in 1..n : s[j] \in K

\* One element further, a filter appends the element or passes over it.
LEMMA FiltersStep ==
    ASSUME NEW X, NEW s \in Seq(X), NEW K, NEW n \in Nat, n < Len(s),
           NEW c, NEW m, Filters(c, m, X, s, K, n)
    PROVE  \E q : Filters(IF s[n + 1] \in K THEN Append(c, s[n + 1]) ELSE c, q, X, s, K, n + 1)
<1> DEFINE x == s[n + 1]
<1>1. x \in X
    OBVIOUS
<1>2. CASE x \in K
    <2> DEFINE d == Append(c, x)
               q == [a \in 1..(Len(c) + 1) |-> IF a = Len(c) + 1 THEN n + 1 ELSE m[a]]
    <2>1. /\ d \in Seq(X) /\ Len(d) = Len(c) + 1 /\ d[Len(c) + 1] = x
          /\ \A a \in 1..Len(c) : d[a] = c[a]
        BY <1>1 DEF Filters
    <2>2. Len(c) \in Nat
        BY DEF Filters
    <2>3. q \in [1..Len(d) -> 1..(n + 1)]
        BY <2>1, <2>2 DEF Filters
    <2>4. q[Len(c) + 1] = n + 1 /\ \A a \in 1..Len(c) : q[a] = m[a]
        BY <2>2
    <2> HIDE DEF d, q
    <2>5. \A a \in 1..Len(d) : d[a] = s[q[a]] /\ s[q[a]] \in K
        <3> TAKE a \in 1..Len(d)
        <3>1. a \in 1..Len(c) \/ a = Len(c) + 1
            BY <2>1, <2>2
        <3>2. CASE a = Len(c) + 1
            BY <3>2, <2>1, <2>4, <1>2
        <3>3. CASE a \in 1..Len(c)
            BY <3>3, <2>1, <2>4 DEF Filters
        <3> QED BY <3>1, <3>2, <3>3
    <2>6. \A a, b \in 1..Len(d) : a < b => q[a] < q[b]
        <3> TAKE a, b \in 1..Len(d)
        <3>1. HAVE a < b
        <3>2. a \in 1..Len(c) /\ (b \in 1..Len(c) \/ b = Len(c) + 1)
            BY <3>1, <2>1, <2>2
        <3>3. CASE b = Len(c) + 1
            <4>1. q[a] = m[a] /\ m[a] \in 1..n
                BY <3>2, <2>4, Zenon DEF Filters
            <4> QED BY <4>1, <3>3, <2>4
        <3>4. CASE b \in 1..Len(c)
            BY <3>1, <3>2, <3>4, <2>4 DEF Filters
        <3> QED BY <3>2, <3>3, <3>4
    <2>7. \A j \in 1..(n + 1) : s[j] \in K => \E a \in 1..Len(d) : q[a] = j
        <3> TAKE j \in 1..(n + 1)
        <3>1. CASE j = n + 1
            BY <3>1, <2>1, <2>2, <2>4
        <3>2. ASSUME j \in 1..n, s[j] \in K
              PROVE  \E a \in 1..Len(d) : q[a] = j
            <4>1. PICK a \in 1..Len(c) : m[a] = j
                BY <3>2 DEF Filters
            <4>2. a \in 1..Len(d) /\ q[a] = j
                BY <4>1, <2>1, <2>2, <2>4
            <4> QED BY <4>2
        <3> QED BY <3>1, <3>2
    <2>8. Len(d) = n + 1 <=> \A j \in 1..(n + 1) : s[j] \in K
        BY <1>2, <2>1, <2>2 DEF Filters
    <2>9. Filters(d, q, X, s, K, n + 1)
        BY <2>1, <2>2, <2>3, <2>5, <2>6, <2>7, <2>8 DEF Filters
    <2> QED BY <2>9, <1>2 DEF d
<1>3. CASE x \notin K
    <2>1. Filters(c, m, X, s, K, n + 1)
        BY <1>3 DEF Filters
    <2> QED BY <2>1, <1>3
<1> QED BY <1>2, <1>3

\* Only keeps exactly the elements in K, in their order.
LEMMA OnlyFilters ==
    ASSUME NEW X, NEW s \in Seq(X), NEW K
    PROVE  \E m : Filters(Only(s, K), m, X, s, K, Len(s))
<1>1. PICK f : IsFilter(f, s, K, Len(s)) /\ Only(s, K) = f[Len(s)]
    BY OnlyIsFilter
<1> DEFINE S == {n \in Nat : n <= Len(s) => \E m : Filters(f[n], m, X, s, K, n)}
<1>2. 0 \in S
    <2>1. f[0] = <<>>
        BY <1>1 DEF IsFilter
    <2>2. Filters(<<>>, <<>>, X, s, K, 0)
        BY DEF Filters
    <2> QED BY <2>1, <2>2
<1>3. ASSUME NEW n \in Nat, n \in S
      PROVE  n + 1 \in S
    <2>1. SUFFICES ASSUME n < Len(s)
                   PROVE  \E m : Filters(f[n + 1], m, X, s, K, n + 1)
        OBVIOUS
    <2>2. PICK m : Filters(f[n], m, X, s, K, n)
        BY <1>3, <2>1
    <2>3. n + 1 \in 0..Len(s) /\ n + 1 # 0 /\ (n + 1) - 1 = n
        BY <2>1
    <2>4. f[n + 1] = IF s[n + 1] \in K THEN Append(f[n], s[n + 1]) ELSE f[n]
        BY <1>1, <2>3, Zenon DEF IsFilter
    <2> QED BY <2>1, <2>2, <2>4, FiltersStep
<1> HIDE DEF S
<1>4. \A n \in Nat : n \in S
    BY <1>2, <1>3, NatSetInduction
<1>5. Len(s) \in S /\ Len(s) \in Nat /\ Len(s) <= Len(s)
    BY <1>4
<1> QED BY <1>1, <1>5 DEF S

\* Only keeps the order: it is a subsequence without repetitions if s has none.
LEMMA OnlyFacts ==
    ASSUME NEW X, NEW s \in Seq(X), NEW K
    PROVE  /\ Only(s, K) \in Seq(X)
           /\ Range(Only(s, K)) = Range(s) \cap K
           /\ Len(Only(s, K)) <= Len(s)
           /\ Len(Only(s, K)) = Len(s) <=> Range(s) \subseteq K
           /\ IsInjective(s) => IsInjective(Only(s, K))
<1> DEFINE c == Only(s, K)
<1>1. PICK m : Filters(c, m, X, s, K, Len(s))
    BY OnlyFilters
<1> HIDE DEF c
<1>2. /\ c \in Seq(X) /\ DOMAIN c = 1..Len(c) /\ Len(c) \in Nat
      /\ DOMAIN s = 1..Len(s) /\ Len(s) \in Nat
    BY <1>1 DEF Filters
<1>3. Range(c) = Range(s) \cap K
    <2>1. ASSUME NEW a \in DOMAIN c
          PROVE  c[a] \in Range(s) \cap K
        <3>1. m[a] \in DOMAIN s /\ c[a] = s[m[a]] /\ s[m[a]] \in K
            BY <1>1, <1>2, Zenon DEF Filters
        <3> QED BY <3>1 DEF Range
    <2>2. ASSUME NEW j \in DOMAIN s, s[j] \in K
          PROVE  s[j] \in Range(c)
        <3>1. PICK a \in DOMAIN c : m[a] = j
            BY <1>1, <1>2, <2>2, Zenon DEF Filters
        <3>2. c[a] = s[j]
            BY <3>1, <1>1, <1>2, Zenon DEF Filters
        <3> QED BY <3>2 DEF Range
    <2> QED BY <2>1, <2>2 DEF Range
<1>4. Len(c) <= Len(s)
    BY <1>1 DEF Filters
<1>5. Len(c) = Len(s) <=> Range(s) \subseteq K
    BY <1>1, <1>2, Zenon DEF Filters, Range
<1>6. ASSUME IsInjective(s)
      PROVE  IsInjective(c)
    <2> SUFFICES ASSUME NEW a \in DOMAIN c, NEW b \in DOMAIN c, c[a] = c[b]
                 PROVE  a = b
        BY DEF IsInjective
    <2>1. m[a] \in DOMAIN s /\ m[b] \in DOMAIN s /\ s[m[a]] = s[m[b]]
        BY <1>1, <1>2, Zenon DEF Filters
    <2>2. m[a] = m[b]
        BY <1>6, <2>1 DEF IsInjective
    <2>3. a \in Int /\ b \in Int /\ m[a] \in Int
        BY <1>2, <2>1
    <2>4. (a < b => m[a] < m[b]) /\ (b < a => m[b] < m[a])
        BY <1>1, <1>2, Zenon DEF Filters
    <2> QED BY <2>2, <2>3, <2>4
<1> QED BY <1>2, <1>3, <1>4, <1>5, <1>6, Zenon DEF c

\* What Without returns, its length and its elements.
LEMMA WithoutFacts ==
    ASSUME NEW X, NEW s \in Seq(X), NEW K
    PROVE  /\ Without(s, K) \in Seq(X)
           /\ Range(Without(s, K)) = Range(s) \ K
           /\ Len(Without(s, K)) <= Len(s)
           /\ Len(Without(s, K)) = Len(s) <=> Range(s) \cap K = {}
           /\ IsInjective(s) => IsInjective(Without(s, K))
<1> DEFINE J == Range(s) \ K
<1>1. Without(s, K) = Only(s, J)
    BY DEF Without
<1>2. Range(s) \cap J = Range(s) \ K /\ (Range(s) \subseteq J <=> Range(s) \cap K = {})
    OBVIOUS
<1> HIDE DEF J
<1> QED BY <1>1, <1>2, OnlyFacts

\* The elements of a sequence and its indices.
LEMMA RangeFacts ==
    ASSUME NEW X, NEW s \in Seq(X)
    PROVE  /\ Range(s) \subseteq X
           /\ \A x \in Range(s) : \E i \in 1..Len(s) : s[i] = x
           /\ \A i \in 1..Len(s) : s[i] \in Range(s)
           /\ Range(s) = {} <=> s = <<>>
           /\ Range(s) = {} <=> Len(s) = 0
<1>1. DOMAIN s = 1..Len(s) /\ Len(s) \in Nat
    OBVIOUS
<1>2. \A i \in 1..Len(s) : s[i] \in X
    OBVIOUS
<1>3. Range(s) = {s[i] : i \in 1..Len(s)}
    BY <1>1 DEF Range
<1>4. \A i \in 1..Len(s) : s[i] \in Range(s)
    BY <1>3
<1>5. Range(s) = {} <=> Len(s) = 0
    <2>1. CASE Len(s) = 0
        BY <2>1, <1>3
    <2>2. CASE Len(s) # 0
        <3>1. 1 \in 1..Len(s)
            BY <2>2, <1>1
        <3> QED BY <3>1, <1>4, <2>2
    <2> QED BY <2>1, <2>2
<1>6. s = <<>> <=> Len(s) = 0
    OBVIOUS
<1>7. Range(s) \subseteq X /\ \A x \in Range(s) : \E i \in 1..Len(s) : s[i] = x
    BY <1>2, <1>3
<1> QED BY <1>4, <1>5, <1>6, <1>7

\* The elements and the length of a concatenation.
LEMMA ConcatFacts ==
    ASSUME NEW X, NEW s \in Seq(X), NEW t \in Seq(X)
    PROVE  /\ s \o t \in Seq(X)
           /\ Len(s \o t) = Len(s) + Len(t)
           /\ Range(s \o t) = Range(s) \cup Range(t)
           /\ IsInjective(s) /\ IsInjective(t) /\ Range(s) \cap Range(t) = {}
              <=> IsInjective(s \o t)
<1> DEFINE u == s \o t
<1>1. /\ u \in Seq(X) /\ Len(u) = Len(s) + Len(t)
      /\ Len(s) \in Nat /\ Len(t) \in Nat
      /\ DOMAIN s = 1..Len(s) /\ DOMAIN t = 1..Len(t) /\ DOMAIN u = 1..(Len(s) + Len(t))
      /\ \A i \in 1..Len(s) : u[i] = s[i]
      /\ \A i \in 1..Len(t) : u[Len(s) + i] = t[i]
    OBVIOUS
<1> HIDE DEF u
<1>2. \A i \in DOMAIN u : i \in DOMAIN s \/ \E j \in DOMAIN t : i = Len(s) + j
    <2> TAKE i \in DOMAIN u
    <2>1. i \in DOMAIN s \/ (i - Len(s) \in DOMAIN t /\ i = Len(s) + (i - Len(s)))
        BY <1>1
    <2> QED BY <2>1
<1>3. \A i \in DOMAIN s : i \in DOMAIN u /\ u[i] = s[i]
    BY <1>1
<1>4. \A i \in DOMAIN t : Len(s) + i \in DOMAIN u /\ u[Len(s) + i] = t[i]
    BY <1>1
<1>5. Range(u) = Range(s) \cup Range(t)
    <2>1. ASSUME NEW x \in Range(u)
          PROVE  x \in Range(s) \cup Range(t)
        <3>1. PICK i \in DOMAIN u : x = u[i]
            BY DEF Range
        <3> QED BY <3>1, <1>2, <1>3, <1>4 DEF Range
    <2>2. ASSUME NEW x \in Range(s) \cup Range(t)
          PROVE  x \in Range(u)
        BY <1>3, <1>4 DEF Range
    <2> QED BY <2>1, <2>2
<1>6. ASSUME IsInjective(s), IsInjective(t), Range(s) \cap Range(t) = {}
      PROVE  IsInjective(u)
    <2> SUFFICES ASSUME NEW i \in DOMAIN u, NEW j \in DOMAIN u, u[i] = u[j]
                 PROVE  i = j
        BY DEF IsInjective
    <2>1. CASE i \in DOMAIN s /\ j \in DOMAIN s
        BY <2>1, <1>3, <1>6 DEF IsInjective
    <2>2. CASE \E a, b \in DOMAIN t : i = Len(s) + a /\ j = Len(s) + b
        BY <2>2, <1>4, <1>6 DEF IsInjective
    <2>3. CASE i \in DOMAIN s /\ \E b \in DOMAIN t : j = Len(s) + b
        BY <2>3, <1>3, <1>4, <1>6, ZenonT(40) DEF Range
    <2>4. CASE j \in DOMAIN s /\ \E b \in DOMAIN t : i = Len(s) + b
        BY <2>4, <1>3, <1>4, <1>6, Zenon DEF Range
    <2> QED BY <2>1, <2>2, <2>3, <2>4, <1>2
<1>7. ASSUME IsInjective(u)
      PROVE  IsInjective(s) /\ IsInjective(t) /\ Range(s) \cap Range(t) = {}
    <2>1. IsInjective(s)
        BY <1>3, <1>7 DEF IsInjective
    <2>2. IsInjective(t)
        <3> SUFFICES ASSUME NEW i \in DOMAIN t, NEW j \in DOMAIN t, t[i] = t[j]
                     PROVE  i = j
            BY DEF IsInjective
        <3>1. Len(s) + i = Len(s) + j
            BY <1>4, <1>7 DEF IsInjective
        <3> QED BY <3>1, <1>1
    <2>3. ASSUME NEW i \in DOMAIN s, NEW j \in DOMAIN t, s[i] = t[j]
          PROVE  FALSE
        <3>1. i = Len(s) + j
            BY <1>3, <1>4, <1>7, <2>3 DEF IsInjective
        <3> QED BY <3>1, <1>1
    <2> QED BY <2>1, <2>2, <2>3 DEF Range
<1> QED BY <1>1, <1>5, <1>6, <1>7 DEF u

\* The elements and the length of an appended sequence.
LEMMA AppendFacts ==
    ASSUME NEW X, NEW s \in Seq(X), NEW x \in X
    PROVE  /\ Append(s, x) \in Seq(X)
           /\ Len(Append(s, x)) = Len(s) + 1
           /\ Range(Append(s, x)) = Range(s) \cup {x}
           /\ IsInjective(s) /\ x \notin Range(s) => IsInjective(Append(s, x))
<1> DEFINE t == <<x>>
<1>1. Append(s, x) = s \o t /\ t \in Seq(X) /\ Len(t) = 1
    OBVIOUS
<1>2. Range(t) = {x} /\ IsInjective(t)
    BY DEF Range, IsInjective
<1> HIDE DEF t
<1>3. /\ s \o t \in Seq(X)
      /\ Len(s \o t) = Len(s) + Len(t)
      /\ Range(s \o t) = Range(s) \cup Range(t)
      /\ IsInjective(s) /\ IsInjective(t) /\ Range(s) \cap Range(t) = {} => IsInjective(s \o t)
    BY <1>1, ConcatFacts
<1>4. x \notin Range(s) => Range(s) \cap Range(t) = {}
    BY <1>2
<1> QED BY <1>1, <1>2, <1>3, <1>4

\* Moving an element to the end neither loses nor repeats one.
LEMMA MovedToEndFacts ==
    ASSUME NEW X, NEW s \in Seq(X), NEW x \in Range(s)
    PROVE  /\ MovedToEnd(s, x) \in Seq(X)
           /\ Range(MovedToEnd(s, x)) = Range(s)
           /\ Len(MovedToEnd(s, x)) <= Len(s)
           /\ IsInjective(s) => IsInjective(MovedToEnd(s, x))
<1> DEFINE r == Without(s, {x})
<1>1. /\ r \in Seq(X) /\ Range(r) = Range(s) \ {x}
      /\ Len(r) <= Len(s) /\ Len(r) # Len(s)
      /\ IsInjective(s) => IsInjective(r)
    BY WithoutFacts
<1>2. x \in X /\ Len(r) \in Nat /\ Len(s) \in Nat
    BY <1>1, RangeFacts
<1>3. MovedToEnd(s, x) = Append(r, x)
    BY DEF MovedToEnd
<1> HIDE DEF r
<1>4. /\ Append(r, x) \in Seq(X)
      /\ Len(Append(r, x)) = Len(r) + 1
      /\ Range(Append(r, x)) = Range(r) \cup {x}
      /\ IsInjective(r) /\ x \notin Range(r) => IsInjective(Append(r, x))
    BY <1>1, <1>2, AppendFacts
<1> QED BY <1>1, <1>2, <1>3, <1>4

\* A stretch of a sequence.
LEMMA SubSeqFacts ==
    ASSUME NEW X, NEW s \in Seq(X), NEW m \in Nat \ {0}, NEW n \in Nat, n <= Len(s)
    PROVE  /\ SubSeq(s, m, n) \in Seq(X)
           /\ Len(SubSeq(s, m, n)) = IF m <= n THEN n - m + 1 ELSE 0
           /\ \A i \in 1..Len(SubSeq(s, m, n)) :
                 m + i - 1 \in 1..Len(s) /\ SubSeq(s, m, n)[i] = s[m + i - 1]
           /\ Range(SubSeq(s, m, n)) \subseteq Range(s)
           /\ IsInjective(s) => IsInjective(SubSeq(s, m, n))
<1> DEFINE u == SubSeq(s, m, n)
<1>1. /\ u \in Seq(X) /\ DOMAIN u = 1..Len(u) /\ Len(u) \in Nat
      /\ Len(u) = IF m <= n THEN n - m + 1 ELSE 0
    OBVIOUS
<1>2. \A i \in 1..Len(u) : m + i - 1 \in 1..Len(s) /\ u[i] = s[m + i - 1]
    OBVIOUS
<1>3. DOMAIN s = 1..Len(s)
    OBVIOUS
<1> HIDE DEF u
<1>4. Range(u) \subseteq Range(s)
    BY <1>1, <1>2, <1>3, Zenon DEF Range
<1>5. ASSUME IsInjective(s)
      PROVE  IsInjective(u)
    <2> SUFFICES ASSUME NEW i \in DOMAIN u, NEW j \in DOMAIN u, u[i] = u[j]
                 PROVE  i = j
        BY DEF IsInjective
    <2>1. m + i - 1 = m + j - 1
        BY <1>1, <1>2, <1>3, <1>5, Zenon DEF IsInjective
    <2> QED BY <2>1, <1>1
<1> QED BY <1>1, <1>2, <1>4, <1>5 DEF u

\* What Take returns: the first elements, as many as asked for or as there are.
LEMMA TakeFacts ==
    ASSUME NEW X, NEW s \in Seq(X), NEW n \in Nat
    PROVE  /\ Take(s, n) \in Seq(X)
           /\ Len(Take(s, n)) = Lesser(n, Len(s))
           /\ \A i \in 1..Len(Take(s, n)) : Take(s, n)[i] = s[i]
           /\ Range(Take(s, n)) \subseteq Range(s)
           /\ IsInjective(s) => IsInjective(Take(s, n))
<1> DEFINE k == Lesser(n, Len(s))
<1>1. k \in Nat /\ k <= Len(s) /\ Len(s) \in Nat
    BY DEF Lesser
<1>2. Take(s, n) = SubSeq(s, 1, k)
    BY DEF Take
<1> HIDE DEF k
<1>3. /\ SubSeq(s, 1, k) \in Seq(X)
      /\ Len(SubSeq(s, 1, k)) = IF 1 <= k THEN k - 1 + 1 ELSE 0
      /\ \A i \in 1..Len(SubSeq(s, 1, k)) :
            1 + i - 1 \in 1..Len(s) /\ SubSeq(s, 1, k)[i] = s[1 + i - 1]
      /\ Range(SubSeq(s, 1, k)) \subseteq Range(s)
      /\ IsInjective(s) => IsInjective(SubSeq(s, 1, k))
    BY <1>1, SubSeqFacts
<1>4. Len(SubSeq(s, 1, k)) = k
    BY <1>1, <1>3
<1>5. \A i \in 1..k : 1 + i - 1 = i
    BY <1>1
<1> QED BY <1>2, <1>3, <1>4, <1>5 DEF k

\* Reversing keeps the elements and the length.
LEMMA ReverseFacts ==
    ASSUME NEW X, NEW s \in Seq(X)
    PROVE  /\ Reverse(s) \in Seq(X)
           /\ Len(Reverse(s)) = Len(s)
           /\ Range(Reverse(s)) = Range(s)
           /\ IsInjective(s) => IsInjective(Reverse(s))
<1> DEFINE u == Reverse(s)
<1>1. DOMAIN s = 1..Len(s) /\ Len(s) \in Nat
    OBVIOUS
<1>2. /\ u \in Seq(X) /\ Len(u) = Len(s) /\ DOMAIN u = 1..Len(s)
      /\ \A i \in 1..Len(s) : u[i] = s[(Len(s) - i) + 1]
    BY DEF Reverse
<1> HIDE DEF u
<1>3. \A i \in 1..Len(s) : (Len(s) - i) + 1 \in 1..Len(s) /\ (Len(s) - ((Len(s) - i) + 1)) + 1 = i
    BY <1>1
<1>4. Range(u) = Range(s)
    <2>1. \A i \in 1..Len(s) : u[i] \in Range(s)
        BY <1>1, <1>2, <1>3 DEF Range
    <2>2. \A i \in 1..Len(s) : s[i] \in Range(u)
        <3> TAKE i \in 1..Len(s)
        <3>1. u[(Len(s) - i) + 1] = s[i]
            BY <1>2, <1>3
        <3> QED BY <3>1, <1>2, <1>3 DEF Range
    <2> QED BY <2>1, <2>2, <1>1, <1>2 DEF Range
<1>5. ASSUME IsInjective(s)
      PROVE  IsInjective(u)
    <2> SUFFICES ASSUME NEW i \in 1..Len(s), NEW j \in 1..Len(s), u[i] = u[j]
                 PROVE  i = j
        BY <1>2 DEF IsInjective
    <2>1. (Len(s) - i) + 1 = (Len(s) - j) + 1
        BY <1>1, <1>2, <1>3, <1>5, SMTT(30) DEF IsInjective
    <2> QED BY <2>1, <1>1
<1> QED BY <1>2, <1>4, <1>5 DEF u

\* A sequence without repetitions has as many elements as places.
LEMMA InjectiveCardinality ==
    ASSUME NEW X, NEW s \in Seq(X), IsInjective(s)
    PROVE  IsFiniteSet(Range(s)) /\ Cardinality(Range(s)) = Len(s)
<1>1. DOMAIN s = 1..Len(s) /\ Len(s) \in Nat
    OBVIOUS
<1>2. s \in [1..Len(s) -> Range(s)]
    BY <1>1 DEF Range
<1>3. s \in Bijection(1..Len(s), Range(s))
    BY <1>1, <1>2 DEF Bijection, Injection, Surjection, IsInjective, Range
<1>4. ExistsBijection(1..Len(s), Range(s))
    BY <1>3 DEF ExistsBijection
<1>5. IsFiniteSet(1..Len(s)) /\ Cardinality(1..Len(s)) = Len(s)
    BY <1>1, FS_Interval, SMTT(30)
<1> QED BY <1>4, <1>5, FS_Bijection

\* The first n members of K in s: whoever stands before one of them and is in
\* K is among them.
LEMMA TakeOnlyOldest ==
    ASSUME NEW X, NEW s \in Seq(X), IsInjective(s), NEW K, NEW n \in Nat,
           NEW i \in DOMAIN s, NEW j \in DOMAIN s, j < i,
           s[i] \in Range(Take(Only(s, K), n)), s[j] \in K
    PROVE  s[j] \in Range(Take(Only(s, K), n))
<1> DEFINE c == Only(s, K)
<1>1. PICK m : Filters(c, m, X, s, K, Len(s))
    BY OnlyFilters
<1> HIDE DEF c
<1>2. /\ c \in Seq(X) /\ Len(c) \in Nat /\ DOMAIN c = 1..Len(c) /\ DOMAIN s = 1..Len(s)
    BY <1>1 DEF Filters
<1> DEFINE t == Take(c, n)
<1>3. /\ t \in Seq(X) /\ Len(t) = Lesser(n, Len(c))
      /\ \A a \in 1..Len(t) : t[a] = c[a]
    BY <1>2, TakeFacts
<1> HIDE DEF t
<1>4. PICK a \in 1..Len(t) : t[a] = s[i]
    BY <1>3, RangeFacts DEF t, c
<1>5. a \in 1..Len(c)
    BY <1>2, <1>3 DEF Lesser
<1>6. m[a] = i
    <2>1. s[m[a]] = s[i] /\ m[a] \in DOMAIN s
        BY <1>1, <1>2, <1>3, <1>4, <1>5, Zenon DEF Filters
    <2> QED BY <2>1 DEF IsInjective
<1>7. PICK b \in 1..Len(c) : m[b] = j
    BY <1>1, <1>2, Zenon DEF Filters
<1>8. b \in 1..Len(t)
    <2>1. a < b => m[a] < m[b]
        BY <1>1, <1>5, <1>7 DEF Filters
    <2>2. b <= a
        BY <2>1, <1>2, <1>5, <1>6, <1>7
    <2> QED BY <2>2, <1>2, <1>3
<1>9. t[b] = s[j]
    BY <1>1, <1>3, <1>7, <1>8, Zenon DEF Filters
<1> QED BY <1>3, <1>8, <1>9, RangeFacts DEF t, c

-----------------------------------------------------------------------------
(* Sums over finite sets, which SumFunctionOnSet takes in an order that      *)
(* CHOOSE fixes *)

\* The element that a sum over s takes first.
First(s) == CHOOSE x \in s : TRUE

\* The function that computes the sum of f over the subsets of S.
IsSum(i, f, S) ==
    i = [s \in SUBSET S |-> IF s = {} THEN 0 ELSE f[First(s)] + i[s \ {First(s)}]]

\* The same up to subsets of n elements.
SumsUpTo(i, f, S, n) ==
    /\ i = [s \in SUBSET S |-> i[s]]
    /\ \A s \in SUBSET S : Cardinality(s) <= n =>
          i[s] = IF s = {} THEN 0 ELSE f[First(s)] + i[s \ {First(s)}]

\* Taking one element from a finite set leaves a set smaller by one.
LEMMA FirstIn ==
    ASSUME NEW S, IsFiniteSet(S), NEW s \in SUBSET S, s # {}
    PROVE  /\ First(s) \in s /\ s \ {First(s)} \in SUBSET S
           /\ Cardinality(s) \in Nat \ {0} /\ Cardinality(s \ {First(s)}) = Cardinality(s) - 1
<1>1. First(s) \in s
    BY DEF First
<1>2. IsFiniteSet(s)
    BY FS_Subset
<1>3. Cardinality(s) \in Nat /\ Cardinality(s) # 0
    BY <1>2, FS_CardinalityType, FS_EmptySet
<1>4. Cardinality(s \ {First(s)}) = Cardinality(s) - 1
    BY <1>1, <1>2, FS_RemoveElement, Zenon
<1> QED BY <1>1, <1>3, <1>4

\* A sum over a finite set exists as a function of its subsets.
LEMMA SumExists ==
    ASSUME NEW S, IsFiniteSet(S), NEW f
    PROVE  \E i : IsSum(i, f, S)
<1> DEFINE P == {n \in Nat : \E i : SumsUpTo(i, f, S, n)}
<1>1. 0 \in P
    <2> DEFINE i == [s \in SUBSET S |-> 0]
    <2>1. i = [s \in SUBSET S |-> i[s]]
        OBVIOUS
    <2>2. \A s \in SUBSET S : Cardinality(s) <= 0 => s = {}
        <3> SUFFICES ASSUME NEW s \in SUBSET S, s # {}, Cardinality(s) <= 0 PROVE FALSE
            OBVIOUS
        <3>1. Cardinality(s) \in Nat \ {0}
            BY FirstIn, Zenon
        <3> QED BY <3>1
    <2>3. \A s \in SUBSET S : Cardinality(s) <= 0 =>
             i[s] = IF s = {} THEN 0 ELSE f[First(s)] + i[s \ {First(s)}]
        BY <2>2
    <2> HIDE DEF i
    <2>4. SumsUpTo(i, f, S, 0)
        BY <2>1, <2>3, Zenon DEF SumsUpTo
    <2> QED BY <2>4
<1>2. ASSUME NEW n \in Nat, n \in P PROVE n + 1 \in P
    <2>1. PICK i : SumsUpTo(i, f, S, n)
        BY <1>2
    <2> DEFINE j == [s \in SUBSET S |-> IF Cardinality(s) <= n THEN i[s]
                                         ELSE f[First(s)] + i[s \ {First(s)}]]
    <2>2. j = [s \in SUBSET S |-> j[s]]
        OBVIOUS
    <2>3. ASSUME NEW s \in SUBSET S, Cardinality(s) <= n + 1
          PROVE  j[s] = IF s = {} THEN 0 ELSE f[First(s)] + j[s \ {First(s)}]
        <3>1. CASE s = {}
            <4>1. Cardinality(s) <= n
                BY <3>1, FS_EmptySet
            <4> QED BY <2>1, <3>1, <4>1, Zenon DEF SumsUpTo
        <3>2. CASE s # {}
            <4> DEFINE r == s \ {First(s)}
            <4>1. r \in SUBSET S /\ Cardinality(r) <= n
                BY <2>3, <3>2, FirstIn
            <4>2. j[r] = i[r]
                BY <4>1
            <4>3. j[s] = f[First(s)] + i[r]
                <5>1. CASE Cardinality(s) <= n
                    BY <2>1, <3>2, <5>1, Zenon DEF SumsUpTo
                <5>2. CASE ~(Cardinality(s) <= n)
                    BY <5>2
                <5> QED BY <5>1, <5>2
            <4> HIDE DEF r, j
            <4> QED BY <3>2, <4>2, <4>3 DEF r
        <3> QED BY <3>1, <3>2
    <2> HIDE DEF j
    <2>4. SumsUpTo(j, f, S, n + 1)
        BY <2>2, <2>3, Zenon DEF SumsUpTo
    <2> QED BY <2>4
<1> HIDE DEF P
<1>3. \A n \in Nat : n \in P
    BY <1>1, <1>2, NatSetInduction
<1>4. Cardinality(S) \in Nat
    BY FS_CardinalityType
<1>5. PICK i : SumsUpTo(i, f, S, Cardinality(S))
    BY <1>3, <1>4 DEF P
<1>6. \A s \in SUBSET S : Cardinality(s) <= Cardinality(S)
    BY FS_Subset
<1>7. \A s \in SUBSET S : i[s] = IF s = {} THEN 0 ELSE f[First(s)] + i[s \ {First(s)}]
    BY <1>5, <1>6, Zenon DEF SumsUpTo
<1>8. i = [s \in SUBSET S |-> i[s]]
    BY <1>5 DEF SumsUpTo
<1>9. IsSum(i, f, S)
    BY <1>7, <1>8, Zenon DEF IsSum
<1> QED BY <1>9

\* SumFunctionOnSet is the value of such a function.
LEMMA SumIsSum ==
    ASSUME NEW S, IsFiniteSet(S), NEW f
    PROVE  \E i : IsSum(i, f, S) /\ SumFunctionOnSet(f, S) = i[S]
<1> DEFINE i == CHOOSE i : IsSum(i, f, S)
<1>1. IsSum(i, f, S)
    <2>1. \E j : IsSum(j, f, S)
        BY SumExists
    <2> QED BY <2>1
<1>2. SumFunctionOnSet(f, S) = i[S]
    BY DEF SumFunctionOnSet, FoldFunctionOnSet, MapThenFoldSet, IsSum, First
<1> QED BY <1>1, <1>2, Zenon

\* Two such functions agree where both are defined.
LEMMA SumsAgree ==
    ASSUME NEW S, IsFiniteSet(S), NEW T \in SUBSET S, NEW f, NEW i, NEW j,
           IsSum(i, f, S), IsSum(j, f, T)
    PROVE  i[T] = j[T]
<1> DEFINE P == {n \in Nat : \A s \in SUBSET T : Cardinality(s) = n => i[s] = j[s]}
<1>1. /\ \A s \in SUBSET S : i[s] = IF s = {} THEN 0 ELSE f[First(s)] + i[s \ {First(s)}]
      /\ \A s \in SUBSET T : j[s] = IF s = {} THEN 0 ELSE f[First(s)] + j[s \ {First(s)}]
    BY Zenon DEF IsSum
<1>2. IsFiniteSet(T)
    BY FS_Subset
<1>3. 0 \in P
    <2>1. ASSUME NEW s \in SUBSET T, Cardinality(s) = 0 PROVE i[s] = j[s]
        <3>1. s = {}
            <4>1. IsFiniteSet(s)
                BY <1>2, FS_Subset
            <4> QED BY <2>1, <4>1, FS_EmptySet
        <3> QED BY <1>1, <3>1
    <2> QED BY <2>1
<1>4. ASSUME NEW n \in Nat, n \in P PROVE n + 1 \in P
    <2>1. ASSUME NEW s \in SUBSET T, Cardinality(s) = n + 1 PROVE i[s] = j[s]
        <3> DEFINE r == s \ {First(s)}
        <3>1. s # {}
            BY <2>1, FS_EmptySet
        <3>2. r \in SUBSET T /\ Cardinality(r) = n
            <4>1. r \in SUBSET T /\ Cardinality(r) = Cardinality(s) - 1
                BY <1>2, <3>1, FirstIn
            <4> QED BY <2>1, <4>1
        <3> HIDE DEF r
        <3>3. i[r] = j[r]
            BY <1>4, <3>2
        <3>4. i[s] = f[First(s)] + i[r] /\ j[s] = f[First(s)] + j[r]
            BY <1>1, <3>1 DEF r
        <3> QED BY <3>3, <3>4
    <2> QED BY <2>1
<1> HIDE DEF P
<1>5. \A n \in Nat : n \in P
    BY <1>3, <1>4, NatSetInduction
<1>6. Cardinality(T) \in Nat
    BY <1>2, FS_CardinalityType
<1> QED BY <1>5, <1>6 DEF P

\* The sum takes off its first element.
LEMMA SumStep ==
    ASSUME NEW S, IsFiniteSet(S), NEW f
    PROVE  /\ SumFunctionOnSet(f, {}) = 0
           /\ S # {} => SumFunctionOnSet(f, S) = f[First(S)] + SumFunctionOnSet(f, S \ {First(S)})
<1>1. SumFunctionOnSet(f, {}) = 0
    <2>1. PICK i : IsSum(i, f, {}) /\ SumFunctionOnSet(f, {}) = i[{}]
        BY SumIsSum, FS_EmptySet
    <2> QED BY <2>1 DEF IsSum
<1>2. ASSUME S # {}
      PROVE  SumFunctionOnSet(f, S) = f[First(S)] + SumFunctionOnSet(f, S \ {First(S)})
    <2> DEFINE T == S \ {First(S)}
    <2>1. PICK i : IsSum(i, f, S) /\ SumFunctionOnSet(f, S) = i[S]
        BY SumIsSum
    <2>2. T \in SUBSET S /\ IsFiniteSet(T)
        BY FS_Subset
    <2>3. i[S] = f[First(S)] + i[T]
        BY <1>2, <2>1, Zenon DEF IsSum
    <2> HIDE DEF T
    <2>4. PICK j : IsSum(j, f, T) /\ SumFunctionOnSet(f, T) = j[T]
        BY <2>2, SumIsSum
    <2>5. i[T] = j[T]
        BY <2>1, <2>2, <2>4, SumsAgree
    <2> QED BY <2>1, <2>3, <2>4, <2>5 DEF T
<1> QED BY <1>1, <1>2

\* Integers have an integer sum.
LEMMA SumType ==
    ASSUME NEW S, IsFiniteSet(S), NEW f, \A x \in S : f[x] \in Int
    PROVE  \A s \in SUBSET S : SumFunctionOnSet(f, s) \in Int
<1> DEFINE P == {n \in Nat : \A s \in SUBSET S : Cardinality(s) = n => SumFunctionOnSet(f, s) \in Int}
<1>1. \A s \in SUBSET S : IsFiniteSet(s) /\ Cardinality(s) \in Nat
    BY FS_Subset, FS_CardinalityType
<1>2. 0 \in P
    <2>1. ASSUME NEW s \in SUBSET S, Cardinality(s) = 0 PROVE SumFunctionOnSet(f, s) \in Int
        <3>1. s = {}
            BY <1>1, <2>1, FS_EmptySet
        <3>2. SumFunctionOnSet(f, {}) = 0
            BY SumStep, Zenon
        <3> QED BY <3>1, <3>2
    <2> QED BY <2>1
<1>3. ASSUME NEW n \in Nat, n \in P PROVE n + 1 \in P
    <2>1. ASSUME NEW s \in SUBSET S, Cardinality(s) = n + 1 PROVE SumFunctionOnSet(f, s) \in Int
        <3> DEFINE r == s \ {First(s)}
        <3>1. s # {}
            BY <2>1, FS_EmptySet
        <3>2. First(s) \in s /\ r \in SUBSET S /\ Cardinality(r) = n
            <4>1. First(s) \in s /\ r \in SUBSET S /\ Cardinality(r) = Cardinality(s) - 1
                BY <3>1, FirstIn
            <4> QED BY <2>1, <4>1
        <3>3. SumFunctionOnSet(f, s) = f[First(s)] + SumFunctionOnSet(f, r)
            BY <1>1, <3>1, SumStep, Zenon
        <3> HIDE DEF r
        <3>4. SumFunctionOnSet(f, r) \in Int
            BY <1>3, <3>2
        <3>5. f[First(s)] \in Int
            BY <3>2
        <3> QED BY <3>3, <3>4, <3>5
    <2> QED BY <2>1
<1> HIDE DEF P
<1>4. \A n \in Nat : n \in P
    BY <1>2, <1>3, NatSetInduction
<1> QED BY <1>1, <1>4 DEF P

\* Any element may be taken off first.
LEMMA SumRemove ==
    ASSUME NEW S, IsFiniteSet(S), NEW f, \A x \in S : f[x] \in Int
    PROVE  /\ SumFunctionOnSet(f, S) \in Int
           /\ \A y \in S : SumFunctionOnSet(f, S) = f[y] + SumFunctionOnSet(f, S \ {y})
<1> DEFINE Good(s) == /\ SumFunctionOnSet(f, s) \in Int
                      /\ \A y \in s : SumFunctionOnSet(f, s) = f[y] + SumFunctionOnSet(f, s \ {y})
           P == {n \in Nat : \A s \in SUBSET S : Cardinality(s) = n => Good(s)}
<1>1. \A s \in SUBSET S : IsFiniteSet(s) /\ Cardinality(s) \in Nat
    BY FS_Subset, FS_CardinalityType
<1>2. 0 \in P
    <2>1. ASSUME NEW s \in SUBSET S, Cardinality(s) = 0 PROVE Good(s)
        <3>1. s = {}
            BY <1>1, <2>1, FS_EmptySet
        <3>2. SumFunctionOnSet(f, {}) = 0
            BY SumStep, Zenon
        <3> QED BY <3>1, <3>2
    <2> QED BY <2>1
<1>3. ASSUME NEW n \in Nat, n \in P PROVE n + 1 \in P
    <2>1. ASSUME NEW s \in SUBSET S, Cardinality(s) = n + 1 PROVE Good(s)
        <3> DEFINE c == First(s)
                   r == s \ {c}
        <3>1. s # {}
            BY <2>1, FS_EmptySet
        <3>2. c \in s
            BY <3>1 DEF First
        <3>3. SumFunctionOnSet(f, s) = f[c] + SumFunctionOnSet(f, r)
            BY <1>1, <3>1, SumStep, Zenon
        <3>4. \A y \in s : s \ {y} \in SUBSET S /\ Cardinality(s \ {y}) = n
            <4>1. ASSUME NEW y \in s PROVE Cardinality(s \ {y}) = Cardinality(s) - 1
                BY <1>1, FS_RemoveElement
            <4> QED BY <2>1, <4>1
        <3> HIDE DEF c
        <3>5. \A y \in s : Good(s \ {y})
            <4> HIDE DEF Good
            <4> QED BY <1>3, <3>4
        <3>6. SumFunctionOnSet(f, r) \in Int /\ f[c] \in Int
            BY <3>2, <3>5
        <3>7. ASSUME NEW y \in s PROVE SumFunctionOnSet(f, s) = f[y] + SumFunctionOnSet(f, s \ {y})
            <4>1. CASE y = c
                BY <3>3, <4>1
            <4>2. CASE y # c
                <5> DEFINE q == s \ {y}
                           rest == r \ {y}
                <5>1. SumFunctionOnSet(f, r) = f[y] + SumFunctionOnSet(f, rest)
                    BY <3>2, <3>5, <4>2
                <5>2. SumFunctionOnSet(f, q) = f[c] + SumFunctionOnSet(f, q \ {c})
                    BY <3>2, <3>5, <4>2, Zenon
                <5>3. q \ {c} = rest
                    OBVIOUS
                <5>4. SumFunctionOnSet(f, q) = f[c] + SumFunctionOnSet(f, rest)
                    BY <5>2, <5>3
                <5>5. SumFunctionOnSet(f, rest) \in Int
                    <6>1. rest \in SUBSET S
                        OBVIOUS
                    <6> HIDE DEF rest
                    <6> QED BY <6>1, SumType
                <5> HIDE DEF q, rest, r
                <5>6. f[y] \in Int
                    OBVIOUS
                <5> QED BY <3>3, <3>6, <5>1, <5>4, <5>5, <5>6 DEF q
            <4> QED BY <4>1, <4>2
        <3>8. SumFunctionOnSet(f, s) \in Int
            BY <3>3, <3>6
        <3> QED BY <3>7, <3>8
    <2> QED BY <2>1
<1> HIDE DEF P
<1>4. \A n \in Nat : n \in P
    BY <1>2, <1>3, NatSetInduction
<1>5. Good(S)
    <2> HIDE DEF Good
    <2> QED BY <1>1, <1>4 DEF P
<1> QED BY <1>5

\* The sum depends on the values on S only.
LEMMA SumSame ==
    ASSUME NEW S, IsFiniteSet(S), NEW f, NEW g, \A x \in S : f[x] = g[x]
    PROVE  SumFunctionOnSet(f, S) = SumFunctionOnSet(g, S)
<1> DEFINE P == {n \in Nat : \A s \in SUBSET S : Cardinality(s) = n =>
                                SumFunctionOnSet(f, s) = SumFunctionOnSet(g, s)}
<1>1. \A s \in SUBSET S : IsFiniteSet(s) /\ Cardinality(s) \in Nat
    BY FS_Subset, FS_CardinalityType
<1>2. 0 \in P
    <2>1. ASSUME NEW s \in SUBSET S, Cardinality(s) = 0
          PROVE  SumFunctionOnSet(f, s) = SumFunctionOnSet(g, s)
        <3>1. s = {}
            BY <1>1, <2>1, FS_EmptySet
        <3>2. SumFunctionOnSet(f, {}) = 0 /\ SumFunctionOnSet(g, {}) = 0
            BY SumStep, Zenon
        <3> QED BY <3>1, <3>2
    <2> QED BY <2>1
<1>3. ASSUME NEW n \in Nat, n \in P PROVE n + 1 \in P
    <2>1. ASSUME NEW s \in SUBSET S, Cardinality(s) = n + 1
          PROVE  SumFunctionOnSet(f, s) = SumFunctionOnSet(g, s)
        <3> DEFINE r == s \ {First(s)}
        <3>1. s # {}
            BY <2>1, FS_EmptySet
        <3>2. First(s) \in s /\ r \in SUBSET S /\ Cardinality(r) = n
            <4>1. First(s) \in s /\ r \in SUBSET S /\ Cardinality(r) = Cardinality(s) - 1
                BY <3>1, FirstIn
            <4> QED BY <2>1, <4>1
        <3>3. /\ SumFunctionOnSet(f, s) = f[First(s)] + SumFunctionOnSet(f, r)
              /\ SumFunctionOnSet(g, s) = g[First(s)] + SumFunctionOnSet(g, r)
            BY <1>1, <3>1, SumStep
        <3> HIDE DEF r
        <3>4. SumFunctionOnSet(f, r) = SumFunctionOnSet(g, r)
            BY <1>3, <3>2
        <3>5. f[First(s)] = g[First(s)]
            BY <3>2
        <3> QED BY <3>3, <3>4, <3>5
    <2> QED BY <2>1
<1> HIDE DEF P
<1>4. \A n \in Nat : n \in P
    BY <1>2, <1>3, NatSetInduction
<1> QED BY <1>1, <1>4 DEF P

\* With naturals, a part sums up to no more than the whole.
LEMMA SumMonotone ==
    ASSUME NEW S, IsFiniteSet(S), NEW f, \A x \in S : f[x] \in Nat
    PROVE  \A s \in SUBSET S : /\ SumFunctionOnSet(f, s) \in Nat
                               /\ SumFunctionOnSet(f, s) <= SumFunctionOnSet(f, S)
<1>0. \A s \in SUBSET S : IsFiniteSet(s) /\ Cardinality(s) \in Nat
    BY FS_Subset, FS_CardinalityType
<1>1. \A s \in SUBSET S : SumFunctionOnSet(f, s) \in Nat
    <2> DEFINE P == {n \in Nat : \A s \in SUBSET S : Cardinality(s) = n => SumFunctionOnSet(f, s) \in Nat}
    <2>1. 0 \in P
        <3>1. ASSUME NEW s \in SUBSET S, Cardinality(s) = 0 PROVE SumFunctionOnSet(f, s) \in Nat
            <4>1. s = {}
                BY <1>0, <3>1, FS_EmptySet
            <4>2. SumFunctionOnSet(f, {}) = 0
                BY SumStep, Zenon
            <4> QED BY <4>1, <4>2
        <3> QED BY <3>1
    <2>2. ASSUME NEW n \in Nat, n \in P PROVE n + 1 \in P
        <3>1. ASSUME NEW s \in SUBSET S, Cardinality(s) = n + 1 PROVE SumFunctionOnSet(f, s) \in Nat
            <4> DEFINE r == s \ {First(s)}
            <4>1. s # {}
                BY <3>1, FS_EmptySet
            <4>2. First(s) \in s /\ r \in SUBSET S /\ Cardinality(r) = n
                <5>1. First(s) \in s /\ r \in SUBSET S /\ Cardinality(r) = Cardinality(s) - 1
                    BY <4>1, FirstIn, Zenon
                <5> QED BY <3>1, <5>1
            <4>3. SumFunctionOnSet(f, s) = f[First(s)] + SumFunctionOnSet(f, r)
                BY <1>0, <4>1, SumStep
            <4> HIDE DEF r
            <4>4. SumFunctionOnSet(f, r) \in Nat
                BY <2>2, <4>2
            <4>5. f[First(s)] \in Nat
                BY <4>2
            <4> QED BY <4>3, <4>4, <4>5
        <3> QED BY <3>1
    <2> HIDE DEF P
    <2>3. \A n \in Nat : n \in P
        BY <2>1, <2>2, NatSetInduction
    <2> QED BY <1>0, <2>3 DEF P
<1> DEFINE Q == {n \in Nat : \A s \in SUBSET S : Cardinality(S \ s) = n =>
                                SumFunctionOnSet(f, s) <= SumFunctionOnSet(f, S)}
<1>2. 0 \in Q
    <2>1. ASSUME NEW s \in SUBSET S, Cardinality(S \ s) = 0
          PROVE  SumFunctionOnSet(f, s) <= SumFunctionOnSet(f, S)
        <3>1. S \ s = {}
            BY <1>0, <2>1, FS_EmptySet
        <3>2. s = S
            BY <3>1
        <3>3. SumFunctionOnSet(f, S) \in Nat
            BY <1>1
        <3> QED BY <3>2, <3>3
    <2> QED BY <2>1
<1>3. ASSUME NEW n \in Nat, n \in Q PROVE n + 1 \in Q
    <2>1. ASSUME NEW s \in SUBSET S, Cardinality(S \ s) = n + 1
          PROVE  SumFunctionOnSet(f, s) <= SumFunctionOnSet(f, S)
        <3>1. PICK x : x \in S \ s
            BY <2>1, FS_EmptySet
        <3> DEFINE t == s \cup {x}
        <3>2. t \in SUBSET S /\ S \ t = (S \ s) \ {x} /\ t \ {x} = s
            BY <3>1
        <3>3. Cardinality((S \ s) \ {x}) = Cardinality(S \ s) - 1
            BY <1>0, <3>1, FS_RemoveElement, Zenon
        <3>4. Cardinality(S \ t) = n
            BY <2>1, <3>2, <3>3
        <3>5. x \in t
            OBVIOUS
        <3> HIDE DEF t
        <3>6. SumFunctionOnSet(f, t) <= SumFunctionOnSet(f, S)
            BY <1>3, <3>2, <3>4
        <3>7. \A y \in t : f[y] \in Int
            BY <3>2
        <3>8. IsFiniteSet(t)
            BY <1>0, <3>2
        <3>9. SumFunctionOnSet(f, t) = f[x] + SumFunctionOnSet(f, t \ {x})
            BY <3>5, <3>7, <3>8, SumRemove
        <3>10. f[x] \in Nat /\ SumFunctionOnSet(f, s) \in Nat /\ SumFunctionOnSet(f, S) \in Nat
            BY <1>1, <3>1
        <3>11. SumFunctionOnSet(f, t) = f[x] + SumFunctionOnSet(f, s)
            BY <3>2, <3>9, Zenon
        <3> QED BY <3>6, <3>10, <3>11
    <2> QED BY <2>1
<1> HIDE DEF Q
<1>4. \A n \in Nat : n \in Q
    BY <1>2, <1>3, NatSetInduction
<1>5. \A s \in SUBSET S : Cardinality(S \ s) \in Nat
    BY <1>0
<1>6. \A s \in SUBSET S : SumFunctionOnSet(f, s) <= SumFunctionOnSet(f, S)
    BY <1>4, <1>5, Zenon DEF Q
<1> QED BY <1>1, <1>6

\* An element is no more than the sum.
LEMMA SumBoundsElement ==
    ASSUME NEW S, IsFiniteSet(S), NEW f, \A x \in S : f[x] \in Nat, NEW y \in S
    PROVE  f[y] <= SumFunctionOnSet(f, S)
<1>1. \A x \in S : f[x] \in Int
    OBVIOUS
<1>2. SumFunctionOnSet(f, S) = f[y] + SumFunctionOnSet(f, S \ {y})
    BY <1>1, SumRemove
<1>3. S \ {y} \in SUBSET S
    OBVIOUS
<1>4. SumFunctionOnSet(f, S \ {y}) \in Nat
    BY <1>3, SumMonotone
<1> QED BY <1>2, <1>4

\* n different elements of a set that has as many.
LEMMA Injects ==
    ASSUME NEW U, IsFiniteSet(U), NEW n \in Nat, n <= Cardinality(U)
    PROVE  \E s \in [1..n -> U] : IsInjective(s)
<1>1. PICK m \in Nat : ExistsBijection(1..m, U)
    BY FS_NatBijection
<1>2. Cardinality(U) = m
    BY <1>1, FS_CountingElements
<1>3. PICK f \in [1..m -> U] : \A i, j \in 1..m : f[i] = f[j] => i = j
    <2>1. PICK f \in [1..m -> U] : IsInjective(f)
        BY <1>1 DEF ExistsBijection, Bijection, Injection
    <2> QED BY <2>1 DEF IsInjective
<1> DEFINE s == [i \in 1..n |-> f[i]]
<1>4. n <= m
    BY <1>2
<1>5. s \in [1..n -> U] /\ \A i \in 1..n : s[i] = f[i] /\ i \in 1..m
    BY <1>4
<1> HIDE DEF s
<1>6. IsInjective(s)
    BY <1>3, <1>5 DEF IsInjective
<1> QED BY <1>5, <1>6

-----------------------------------------------------------------------------
(* Queues of requests *)

\* The empty queue is a queue of anything and has no element.
LEMMA EmptyQueue ==
    Range(<<>>) = {} /\ IsInjective(<<>>) /\ \A R : <<>> \in Seq(R)
BY DEF Range, IsInjective

\* The status of the requests outside F stays; those in F leave the queues.
LEMMA FreedQueues ==
    ASSUME NEW R, NEW st, NEW ru, NEW wa, NEW sk, QueuesOK(R, st, ru, wa, sk, <<>>, <<>>),
           NEW F, NEW st2 \in [R -> Statuses],
           \A q \in R : IF q \in F THEN st2[q] \in {"aborted", "finished"} ELSE st2[q] = st[q]
    PROVE  QueuesOK(R, st2, Without(ru, F), Without(wa, F), Without(sk, F), <<>>, <<>>)
<1> DEFINE a == Without(ru, F)  b == Without(wa, F)  c == Without(sk, F)
<1>1. a \in Seq(R) /\ Range(a) = Range(ru) \ F /\ IsInjective(a)
    BY WithoutFacts DEF QueuesOK
<1>2. b \in Seq(R) /\ Range(b) = Range(wa) \ F /\ IsInjective(b)
    BY WithoutFacts DEF QueuesOK
<1>3. c \in Seq(R) /\ Range(c) = Range(sk) \ F /\ IsInjective(c)
    BY WithoutFacts DEF QueuesOK
<1>4. /\ Range(ru) = {r \in R : st[r] = "running"}
      /\ Range(wa) \cup Range(sk) \cup Range(<<>>) = {r \in R : st[r] \in {"waiting", "loading", "loaded"}}
      /\ Range(wa) \cap Range(sk) = {}
    BY DEF QueuesOK
<1> HIDE DEF a, b, c
<1>5. Range(a) = {r \in R : st2[r] = "running"}
    BY <1>1, <1>4
<1>6. Range(b) \cup Range(c) \cup Range(<<>>) = {r \in R : st2[r] \in {"waiting", "loading", "loaded"}}
    BY <1>2, <1>3, <1>4, EmptyQueue
<1>7. QueuesOK(R, st2, a, b, c, <<>>, <<>>)
    BY <1>1, <1>2, <1>3, <1>4, <1>5, <1>6, EmptyQueue DEF QueuesOK
<1> QED BY <1>7 DEF a, b, c

\* R r has a new status of the kind it had.
LEMMA RelabelledQueues ==
    ASSUME NEW R, NEW st, NEW ru, NEW wa, NEW sk, NEW ss, NEW rd, QueuesOK(R, st, ru, wa, sk, ss, rd),
           NEW r \in R, NEW x \in {"waiting", "loaded"}, st[r] \in {"loading", "loaded"}
    PROVE  QueuesOK(R, [st EXCEPT ![r] = x], ru, wa, sk, ss, rd)
<1> DEFINE st2 == [st EXCEPT ![r] = x]
<1>1. st \in [R -> Statuses]
    BY DEF QueuesOK
<1>2. st2 \in [R -> Statuses] /\ \A q \in R : st2[q] = IF q = r THEN x ELSE st[q]
    BY <1>1 DEF Statuses
<1> HIDE DEF st2
<1>3. {q \in R : st2[q] = "running"} = {q \in R : st[q] = "running"}
    BY <1>2
<1>4. {q \in R : st2[q] \in {"waiting", "loading", "loaded"}}
         = {q \in R : st[q] \in {"waiting", "loading", "loaded"}}
    BY <1>2
<1>5. QueuesOK(R, st2, ru, wa, sk, ss, rd)
    BY <1>2, <1>3, <1>4 DEF QueuesOK
<1> QED BY <1>5 DEF st2

\* R r leaves the queue for the skipped ones.
LEMMA SkippedQueues ==
    ASSUME NEW R, NEW st, NEW ru, NEW wa, NEW sk, NEW ss, NEW rd, QueuesOK(R, st, ru, wa, sk, ss, rd),
           NEW r \in Range(wa) \cup Range(sk),
           NEW st2 \in [R -> Statuses], st2[r] \in {"waiting", "loading", "loaded"},
           \A q \in R : q # r => st2[q] = st[q]
    PROVE  /\ r \in R
           /\ QueuesOK(R, st2, ru, Without(wa, {r}), Without(sk, {r}), Append(ss, r), rd)
           /\ QueuesOK(R, st2, ru, Without(wa, {r}), Without(sk, {r}), Append(ss, r), Append(rd, r))
<1> DEFINE b == Without(wa, {r})  c == Without(sk, {r})  d == Append(ss, r)  e == Append(rd, r)
<1>1. /\ Range(ru) = {q \in R : st[q] = "running"}
      /\ Range(wa) \cup Range(sk) \cup Range(ss) = {q \in R : st[q] \in {"waiting", "loading", "loaded"}}
      /\ Range(wa) \cap Range(sk) = {} /\ Range(wa) \cap Range(ss) = {} /\ Range(sk) \cap Range(ss) = {}
      /\ Range(rd) \subseteq Range(ss)
    BY DEF QueuesOK
<1>2. r \in R /\ st[r] \in {"waiting", "loading", "loaded"} /\ r \notin Range(ss) /\ r \notin Range(rd)
    BY <1>1
<1>3. b \in Seq(R) /\ Range(b) = Range(wa) \ {r} /\ IsInjective(b)
    BY WithoutFacts DEF QueuesOK
<1>4. c \in Seq(R) /\ Range(c) = Range(sk) \ {r} /\ IsInjective(c)
    BY WithoutFacts DEF QueuesOK
<1>5. d \in Seq(R) /\ Range(d) = Range(ss) \cup {r} /\ IsInjective(d)
    BY <1>2, AppendFacts DEF QueuesOK
<1>6. e \in Seq(R) /\ Range(e) = Range(rd) \cup {r} /\ IsInjective(e)
    BY <1>2, AppendFacts DEF QueuesOK
<1> HIDE DEF b, c, d, e
<1>7. Range(ru) = {q \in R : st2[q] = "running"}
    BY <1>1, <1>2
<1>8. {q \in R : st2[q] \in {"waiting", "loading", "loaded"}}
        = {q \in R : st[q] \in {"waiting", "loading", "loaded"}}
    BY <1>2
<1>9. Range(b) \cup Range(c) \cup Range(d) = {q \in R : st2[q] \in {"waiting", "loading", "loaded"}}
    BY <1>1, <1>3, <1>4, <1>5, <1>8
<1>10. /\ Range(b) \cap Range(c) = {} /\ Range(b) \cap Range(d) = {} /\ Range(c) \cap Range(d) = {}
       /\ Range(rd) \subseteq Range(d) /\ Range(e) \subseteq Range(d)
    BY <1>1, <1>3, <1>4, <1>5, <1>6
<1>11. QueuesOK(R, st2, ru, b, c, d, rd) /\ QueuesOK(R, st2, ru, b, c, d, e)
    BY <1>3, <1>4, <1>5, <1>6, <1>7, <1>9, <1>10 DEF QueuesOK
<1> QED BY <1>2, <1>11 DEF b, c, d, e

\* R r leaves the queue and runs.
LEMMA StartedQueues ==
    ASSUME NEW R, NEW st, NEW ru, NEW wa, NEW sk, NEW ss, NEW rd, QueuesOK(R, st, ru, wa, sk, ss, rd),
           NEW r \in Range(wa) \cup Range(sk)
    PROVE  QueuesOK(R, [st EXCEPT ![r] = "running"], Append(ru, r), Without(wa, {r}), Without(sk, {r}), ss, rd)
<1> DEFINE a == Append(ru, r)  b == Without(wa, {r})  c == Without(sk, {r})
           st2 == [st EXCEPT ![r] = "running"]
<1>1. /\ Range(ru) = {q \in R : st[q] = "running"}
      /\ Range(wa) \cup Range(sk) \cup Range(ss) = {q \in R : st[q] \in {"waiting", "loading", "loaded"}}
      /\ Range(wa) \cap Range(sk) = {} /\ Range(wa) \cap Range(ss) = {} /\ Range(sk) \cap Range(ss) = {}
      /\ Range(rd) \subseteq Range(ss) /\ st \in [R -> Statuses]
    BY DEF QueuesOK
<1>2. r \in R /\ st[r] \in {"waiting", "loading", "loaded"} /\ r \notin Range(ss) /\ r \notin Range(ru)
    BY <1>1
<1>3. b \in Seq(R) /\ Range(b) = Range(wa) \ {r} /\ IsInjective(b)
    BY WithoutFacts DEF QueuesOK
<1>4. c \in Seq(R) /\ Range(c) = Range(sk) \ {r} /\ IsInjective(c)
    BY WithoutFacts DEF QueuesOK
<1>5. a \in Seq(R) /\ Range(a) = Range(ru) \cup {r} /\ IsInjective(a)
    BY <1>2, AppendFacts DEF QueuesOK
<1>6. st2 \in [R -> Statuses] /\ \A q \in R : st2[q] = IF q = r THEN "running" ELSE st[q]
    BY <1>1 DEF Statuses
<1> HIDE DEF a, b, c, st2
<1>7. Range(a) = {q \in R : st2[q] = "running"}
    BY <1>1, <1>2, <1>5, <1>6
<1>8. {q \in R : st2[q] \in {"waiting", "loading", "loaded"}}
        = {q \in R : st[q] \in {"waiting", "loading", "loaded"}} \ {r}
    BY <1>2, <1>6
<1>9. Range(b) \cup Range(c) \cup Range(ss) = {q \in R : st2[q] \in {"waiting", "loading", "loaded"}}
    BY <1>1, <1>2, <1>3, <1>4, <1>8
<1>10. Range(b) \cap Range(c) = {} /\ Range(b) \cap Range(ss) = {} /\ Range(c) \cap Range(ss) = {}
    BY <1>1, <1>3, <1>4
<1>11. QueuesOK(R, st2, a, b, c, ss, rd)
    BY <1>1, <1>3, <1>4, <1>5, <1>6, <1>7, <1>9, <1>10 DEF QueuesOK
<1> QED BY <1>11 DEF a, b, c, st2

\* A running request goes back to the front of the queue.
LEMMA PreemptedQueues ==
    ASSUME NEW R, NEW st, NEW ru, NEW wa, NEW sk, NEW ss, NEW rd, QueuesOK(R, st, ru, wa, sk, ss, rd),
           NEW v \in Range(ru)
    PROVE  QueuesOK(R, [st EXCEPT ![v] = "waiting"], Without(ru, {v}), <<v>> \o wa, sk, ss, rd)
<1> DEFINE a == Without(ru, {v})  b == <<v>> \o wa  st2 == [st EXCEPT ![v] = "waiting"]
<1>1. /\ Range(ru) = {q \in R : st[q] = "running"}
      /\ Range(wa) \cup Range(sk) \cup Range(ss) = {q \in R : st[q] \in {"waiting", "loading", "loaded"}}
      /\ Range(wa) \cap Range(sk) = {} /\ Range(wa) \cap Range(ss) = {} /\ Range(sk) \cap Range(ss) = {}
      /\ st \in [R -> Statuses] /\ wa \in Seq(R) /\ IsInjective(wa)
    BY DEF QueuesOK
<1>2. v \in R /\ st[v] = "running" /\ v \notin Range(wa) /\ v \notin Range(sk) /\ v \notin Range(ss)
    BY <1>1
<1>3. a \in Seq(R) /\ Range(a) = Range(ru) \ {v} /\ IsInjective(a)
    BY WithoutFacts DEF QueuesOK
<1>4. <<v>> \in Seq(R) /\ Range(<<v>>) = {v} /\ IsInjective(<<v>>)
    BY <1>2 DEF Range, IsInjective
<1>5. Range(<<v>>) \cap Range(wa) = {}
    BY <1>2, <1>4
<1>6. b \in Seq(R) /\ Range(b) = {v} \cup Range(wa) /\ IsInjective(b)
    <2> DEFINE u == <<v>>
    <2>1. u \in Seq(R) /\ Range(u) = {v} /\ IsInjective(u) /\ Range(u) \cap Range(wa) = {}
        BY <1>4, <1>5
    <2> HIDE DEF u
    <2>2. u \o wa \in Seq(R) /\ Range(u \o wa) = Range(u) \cup Range(wa) /\ IsInjective(u \o wa)
        BY <1>1, <2>1, ConcatFacts
    <2> QED BY <2>1, <2>2 DEF u
<1>7. st2 \in [R -> Statuses] /\ \A q \in R : st2[q] = IF q = v THEN "waiting" ELSE st[q]
    BY <1>1 DEF Statuses
<1> HIDE DEF a, b, st2
<1>8. Range(a) = {q \in R : st2[q] = "running"}
    BY <1>1, <1>2, <1>3, <1>7
<1>9. {q \in R : st2[q] \in {"waiting", "loading", "loaded"}}
        = {q \in R : st[q] \in {"waiting", "loading", "loaded"}} \cup {v}
    BY <1>2, <1>7
<1>10. Range(b) \cup Range(sk) \cup Range(ss) = {q \in R : st2[q] \in {"waiting", "loading", "loaded"}}
    BY <1>1, <1>6, <1>9
<1>11. Range(b) \cap Range(sk) = {} /\ Range(b) \cap Range(ss) = {}
    BY <1>1, <1>2, <1>6
<1>12. QueuesOK(R, st2, a, b, sk, ss, rd)
    BY <1>3, <1>6, <1>7, <1>8, <1>10, <1>11 DEF QueuesOK
<1> QED BY <1>12 DEF a, b, st2

\* A new request goes to the end of the queue.
LEMMA AddedQueues ==
    ASSUME NEW R, NEW st, NEW ru, NEW wa, NEW sk, NEW ss, NEW rd, QueuesOK(R, st, ru, wa, sk, ss, rd),
           NEW r \in R, st[r] = "new"
    PROVE  QueuesOK(R, [st EXCEPT ![r] = "waiting"], ru, Append(wa, r), sk, ss, rd)
<1> DEFINE b == Append(wa, r)  st2 == [st EXCEPT ![r] = "waiting"]
<1>1. /\ Range(ru) = {q \in R : st[q] = "running"}
      /\ Range(wa) \cup Range(sk) \cup Range(ss) = {q \in R : st[q] \in {"waiting", "loading", "loaded"}}
      /\ Range(wa) \cap Range(sk) = {} /\ Range(wa) \cap Range(ss) = {} /\ Range(sk) \cap Range(ss) = {}
      /\ st \in [R -> Statuses]
    BY DEF QueuesOK
<1>2. r \notin Range(wa) /\ r \notin Range(sk) /\ r \notin Range(ss)
    BY <1>1
<1>3. b \in Seq(R) /\ Range(b) = Range(wa) \cup {r} /\ IsInjective(b)
    BY <1>2, AppendFacts DEF QueuesOK
<1>4. st2 \in [R -> Statuses] /\ \A q \in R : st2[q] = IF q = r THEN "waiting" ELSE st[q]
    BY <1>1 DEF Statuses
<1> HIDE DEF b, st2
<1>5. Range(ru) = {q \in R : st2[q] = "running"}
    BY <1>1, <1>4
<1>6. {q \in R : st2[q] \in {"waiting", "loading", "loaded"}}
        = {q \in R : st[q] \in {"waiting", "loading", "loaded"}} \cup {r}
    BY <1>4
<1>7. Range(b) \cup Range(sk) \cup Range(ss) = {q \in R : st2[q] \in {"waiting", "loading", "loaded"}}
    BY <1>1, <1>3, <1>6
<1>8. Range(b) \cap Range(sk) = {} /\ Range(b) \cap Range(ss) = {}
    BY <1>1, <1>2, <1>3
<1>9. QueuesOK(R, st2, ru, b, sk, ss, rd)
    BY <1>3, <1>4, <1>5, <1>7, <1>8 DEF QueuesOK
<1> QED BY <1>9 DEF b, st2

\* The second turn, and the end of the step.
LEMMA TurnedQueues ==
    ASSUME NEW R, NEW st, NEW ru, NEW wa, NEW sk, NEW ss, NEW rd, QueuesOK(R, st, ru, wa, sk, ss, rd)
    PROVE  /\ Range(wa) = {} => QueuesOK(R, st, ru, rd, sk, Without(ss, Range(rd)), <<>>)
           /\ QueuesOK(R, st, ru, wa, ss \o sk, <<>>, <<>>)
<1> DEFINE d == Without(ss, Range(rd))  c == ss \o sk
<1>1. /\ Range(wa) \cup Range(sk) \cup Range(ss) = {q \in R : st[q] \in {"waiting", "loading", "loaded"}}
      /\ Range(wa) \cap Range(sk) = {} /\ Range(wa) \cap Range(ss) = {} /\ Range(sk) \cap Range(ss) = {}
      /\ Range(rd) \subseteq Range(ss)
    BY DEF QueuesOK
<1>2. d \in Seq(R) /\ Range(d) = Range(ss) \ Range(rd) /\ IsInjective(d)
    BY WithoutFacts DEF QueuesOK
<1>3. Range(ss) \cap Range(sk) = {}
    BY <1>1
<1>4. c \in Seq(R) /\ Range(c) = Range(ss) \cup Range(sk) /\ IsInjective(c)
    BY <1>3, ConcatFacts DEF QueuesOK
<1> HIDE DEF c, d
<1>5. ASSUME Range(wa) = {} PROVE QueuesOK(R, st, ru, rd, sk, d, <<>>)
    <2>1. Range(rd) \cup Range(sk) \cup Range(d) = {q \in R : st[q] \in {"waiting", "loading", "loaded"}}
        BY <1>1, <1>2, <1>5
    <2>2. Range(rd) \cap Range(sk) = {} /\ Range(rd) \cap Range(d) = {} /\ Range(sk) \cap Range(d) = {}
        BY <1>1, <1>2
    <2> QED BY <1>2, <2>1, <2>2, EmptyQueue DEF QueuesOK
<1>6. QueuesOK(R, st, ru, wa, c, <<>>, <<>>)
    <2>1. Range(wa) \cup Range(c) \cup Range(<<>>) = {q \in R : st[q] \in {"waiting", "loading", "loaded"}}
        BY <1>1, <1>4, EmptyQueue
    <2>2. Range(wa) \cap Range(c) = {} /\ Range(wa) \cap Range(<<>>) = {} /\ Range(c) \cap Range(<<>>) = {}
        BY <1>1, <1>4, EmptyQueue
    <2> QED BY <1>4, <2>1, <2>2, EmptyQueue DEF QueuesOK
<1> QED BY <1>5, <1>6 DEF c, d

-----------------------------------------------------------------------------
(* The laws of Queues *)

\* Every law that Queues states holds.
LEMMA LawsHold == Laws
<1>1. LeastLaw
    BY LeastNatural, Zenon DEF LeastLaw
<1>2. IntervalLaw
    <2>1. ASSUME NEW n \in Nat, NEW S \in SUBSET (1..n)
          PROVE  /\ IsFiniteSet(S) /\ Cardinality(S) \in 0..n
                 /\ \A k \in Nat : k <= Cardinality(S) => \E s \in [1..k -> S] : IsInjective(s)
        <3>1. IsFiniteSet(1..n) /\ Cardinality(1..n) = n
            BY FS_Interval
        <3>2. IsFiniteSet(S) /\ Cardinality(S) <= n
            BY <3>1, FS_Subset, Zenon
        <3>3. Cardinality(S) \in 0..n
            BY <3>2, FS_CardinalityType
        <3>4. \A k \in Nat : k <= Cardinality(S) => \E s \in [1..k -> S] : IsInjective(s)
            BY <3>2, Injects, Zenon
        <3> QED BY <3>2, <3>3, <3>4
    <2> QED BY <2>1, Zenon DEF IntervalLaw
<1>3. FiniteLaw
    <2>1. ASSUME NEW S, IsFiniteSet(S), NEW T \in SUBSET S
          PROVE  /\ IsFiniteSet(T) /\ Cardinality(T) \in Nat /\ Cardinality(T) <= Cardinality(S)
                 /\ Cardinality(S \ T) = Cardinality(S) - Cardinality(T)
        <3>1. IsFiniteSet(T) /\ Cardinality(T) <= Cardinality(S)
            BY <2>1, FS_Subset
        <3>2. Cardinality(T) \in Nat
            BY <3>1, FS_CardinalityType
        <3>3. Cardinality(S \ T) = Cardinality(S) - Cardinality(S \cap T) /\ S \cap T = T
            BY <2>1, FS_Difference
        <3> QED BY <3>1, <3>2, <3>3, Zenon
    <2>2. ASSUME NEW S, IsFiniteSet(S) PROVE Cardinality(S) \in Nat
        BY <2>2, FS_CardinalityType
    <2> QED BY <2>1, <2>2, Zenon DEF FiniteLaw
<1>4. AddLaw
    BY FS_AddElement, Zenon DEF AddLaw
<1>5. SumLaw
    <2>1. ASSUME NEW S, NEW f, IsFiniteSet(S), \A x \in S : f[x] \in Int
          PROVE  /\ \A T \in SUBSET S : SumFunctionOnSet(f, T) \in Int
                 /\ \A y \in S : SumFunctionOnSet(f, S) = f[y] + SumFunctionOnSet(f, S \ {y})
        BY <2>1, SumType, SumRemove, Zenon
    <2> QED BY <2>1, Zenon DEF SumLaw
<1>6. NoSumLaw
    <2>1. ASSUME NEW f PROVE SumFunctionOnSet(f, {}) = 0
        BY SumStep, FS_EmptySet, Zenon
    <2> QED BY <2>1, Zenon DEF NoSumLaw
<1>7. SumSameLaw
    BY SumSame, Zenon DEF SumSameLaw
<1>8. SumNatLaw
    <2>1. ASSUME NEW S, NEW f, IsFiniteSet(S), \A x \in S : f[x] \in Nat, NEW T \in SUBSET S
          PROVE  SumFunctionOnSet(f, T) \in Nat /\ SumFunctionOnSet(f, T) <= SumFunctionOnSet(f, S)
        BY <2>1, SumMonotone, Zenon
    <2> QED BY <2>1, Zenon DEF SumNatLaw
<1>9. EmptyLaw
    BY EmptyQueue, FS_EmptySet, Zenon DEF EmptyLaw
<1>10. InjectiveLaw
    BY InjectiveCardinality, Zenon DEF InjectiveLaw
<1>11. RangeLaw
    <2>1. ASSUME NEW X, NEW s \in Seq(X)
          PROVE  /\ Range(s) \subseteq X /\ Len(s) \in Nat
                 /\ \A i \in 1..Len(s) : s[i] \in Range(s)
                 /\ (Range(s) = {} <=> Len(s) = 0)
        BY RangeFacts
    <2> QED BY <2>1, Zenon DEF RangeLaw
<1>12. ConcatLaw
    BY ConcatFacts DEF ConcatLaw
<1>13. JoinLaw
    <2>1. ASSUME NEW X, NEW s \in Seq(X), NEW t \in Seq(X),
                 IsInjective(s), IsInjective(t), Range(s) \cap Range(t) = {}
          PROVE  IsInjective(s \o t)
        BY <2>1, ConcatFacts, Zenon
    <2> QED BY <2>1, Zenon DEF JoinLaw
<1>14. OnlyLaw
    BY OnlyFacts, Zenon DEF OnlyLaw
<1>15. FreedLaw
    BY FreedQueues, ZenonT(40) DEF FreedLaw
<1>16. RelabelledLaw
    <2> USE DEF RelabelledLaw
    <2> TAKE R, st, ru, wa, sk, ss, rd
    <2> TAKE r \in R
    <2> TAKE x \in {"waiting", "loaded"}
    <2> HAVE QueuesOK(R, st, ru, wa, sk, ss, rd) /\ st[r] \in {"loading", "loaded"}
    <2> QED BY RelabelledQueues, Zenon
<1>17. SkippedLaw
    BY SkippedQueues DEF SkippedLaw
<1>18. StartedLaw
    BY StartedQueues DEF StartedLaw
<1>19. PreemptedLaw
    BY PreemptedQueues, ZenonT(40) DEF PreemptedLaw
<1>20. AddedLaw
    BY AddedQueues DEF AddedLaw
<1>21. TurnedLaw
    BY TurnedQueues, Zenon DEF TurnedLaw
<1> QED BY <1>1, <1>2, <1>3, <1>4, <1>5, <1>6, <1>7, <1>8, <1>9, <1>10, <1>11, <1>12, <1>13,
           <1>14, <1>15, <1>16, <1>17, <1>18, <1>19, <1>20, <1>21, Zenon DEF Laws
=============================================================================
