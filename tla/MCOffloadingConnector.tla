----------------------- MODULE MCOffloadingConnector -----------------------
(* Small instances of OffloadingConnector for TLC. *)
EXTENDS OffloadingConnector

CONSTANTS k1, k2, k3, b1, b2, r1, r2, r3, w1, w2

\* Two requests share their first block, and a third one competes with them.
MCKeysOf == (r1 :> <<k1, k2>>) @@ (r2 :> <<k1>>) @@ (r3 :> <<k3>>)

\* Two requests share their whole prefix.
TwinKeysOf == (r1 :> <<k1, k2>>) @@ (r2 :> <<k1, k2>>) @@ (r3 :> <<k3>>)

\* Two equal requests of one block, and a third one.
ShortKeysOf == (r1 :> <<k1>>) @@ (r2 :> <<k1>>) @@ (r3 :> <<k3>>)

\* One request extends the other.
PairKeysOf == (r1 :> <<k1, k2>>) @@ (r2 :> <<k1>>)

BlockSymmetry == Permutations(Block)
=============================================================================
