------------------------------- MODULE Lists --------------------------------
(***************************************************************************)
(* Filters of the lists and ordered dictionaries that the cache policies   *)
(* keep.  They are functions of sets, so that what they return can be      *)
(* stated, and proved, without a parameter that is an operator.            *)
(* SequencesExt is not extended: Bags comes with it, and the provers take  *)
(* ten times as long where its definitions are around.                     *)
(***************************************************************************)
EXTENDS Integers, Sequences, FiniteSets, Functions

Lesser(a, b) == IF a <= b THEN a ELSE b

Larger(a, b) == IF a >= b THEN a ELSE b

Reverse(seq) == [i \in 1..Len(seq) |-> seq[Len(seq) - i + 1]]

\* The elements of seq that are in K, in their order.
Only(seq, K) ==
    LET kept[i \in 0..Len(seq)] ==
            IF i = 0 THEN <<>>
            ELSE IF seq[i] \in K THEN Append(kept[i - 1], seq[i]) ELSE kept[i - 1]
    IN  kept[Len(seq)]

Without(seq, K) == Only(seq, Range(seq) \ K)

MovedToEnd(seq, k) == Append(Without(seq, {k}), k)

Take(seq, n) == SubSeq(seq, 1, Lesser(n, Len(seq)))
=============================================================================
