---------------------- MODULE MCTokenCakeOffloading -------------------------
(* A small instance of TokenCakeOffloading for TLC. *)
EXTENDS TokenCakeOffloading, TLC

CONSTANTS k1, k2, id1, id2, r1, e1

MCLifecycleId == {id1, id2}

MCKey == {k1, k2}

\* No definition names a particular lifecycle or key.
MCSymmetry == Permutations(MCLifecycleId) \cup Permutations(MCKey)
=============================================================================
