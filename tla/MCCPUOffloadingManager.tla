---------------------- MODULE MCCPUOffloadingManager ------------------------
(* A small instance of CPUOffloadingManager for TLC. *)
EXTENDS CPUOffloadingRefinement, TLC

CONSTANTS k1, k2, k3, k4

MCKey == {k1, k2, k3, k4}

\* Both policies without the tracker, and LRU with it.
MCConfig ==
    {[cache_policy |-> "lru", store_threshold |-> 0],
     [cache_policy |-> "arc", store_threshold |-> 0],
     [cache_policy |-> "lru", store_threshold |-> 2]}

\* Keys are interchangeable: no definition names a particular one.
KeySymmetry == Permutations(MCKey)
=============================================================================
