---------------------------- MODULE MCEncapsPool ----------------------------
(* EncapsPool for model checking: two keys share the subpool of level l1,   *)
(* level l2 has a subpool of its own, that of l3 was not requested.          *)
EXTENDS EncapsPool, TLC

CONSTANTS l1, l2, l3, k1, k2, k3, k4

MCPoolCount == (l1 :> 1) @@ (l2 :> 1) @@ (l3 :> 0)
MCLevelOf == (k1 :> l1) @@ (k2 :> l1) @@ (k3 :> l2) @@ (k4 :> l3)

Symmetry == Permutations(Threads) \cup Permutations(Messages)
=============================================================================
