------------------------ MODULE MCLifecycleRegistry -------------------------
(* Small instances of LifecycleRegistry for TLC. *)
EXTENDS LifecycleRegistry, TLC

CONSTANTS k1, id1, r1, r2, e1, e2

MCKey == {k1}
MCRequestId == {r1, r2}
MCStartEvent == {e1, e2}

\* No definition names a particular lifecycle, request or payload.
OneSymmetry == Permutations(MCRequestId) \cup Permutations(MCStartEvent)
=============================================================================
