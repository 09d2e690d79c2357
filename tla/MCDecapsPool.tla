---------------------------- MODULE MCDecapsPool ----------------------------
(* DecapsPool for model checking: forged ciphertexts decrypt to a message   *)
(* that honest senders use too, and the threads are interchangeable.        *)
EXTENDS DecapsPool, TLC

CONSTANTS m1, m2, f1

MCPlain == [f \in Forged |-> m1]

Symmetry == Permutations(Threads)
=============================================================================
