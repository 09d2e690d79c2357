--------------------------- MODULE ModArithSweep ---------------------------
(***************************************************************************)
(* A walk through the operands of ModArith for TLC: every residue in turn,  *)
(* with the second operands and products that sit on a boundary.            *)
(* PrimitivesProofs has the other operands.                                 *)
(***************************************************************************)
EXTENDS ModArith

CONSTANTS
  Others,    \* second operands of the sweep: the boundaries
  Wide       \* products beyond those of two residues the sweep also reduces

\* No two numbers of twelve bits have a larger product.
MaxProduct == 16777216

ASSUME ModArithAssumption ==
  /\ Others \subseteq 0 .. ML_KEM_Q - 1
  /\ \A w \in Wide : w \in Nat /\ w + ML_KEM_Q <= MaxProduct

VARIABLE v    \* the residue the sweep has come to

Init == v = 0

Next == v' = (v + 1) % ML_KEM_Q

Spec == Init /\ [][Next]_v

\* The conditional subtraction is exact below 2q, the range its callers keep
\* to: sums, lifted differences, and the 12-bit fields of an imported key.
SubIfGeExact ==
  \A x \in {v, v + ML_KEM_Q} : ml_kem_ct_sub_if_ge(x) = x % ML_KEM_Q

\* Sum and difference of residues are the residues they should be.
AddSubExact ==
  \A b \in Others \cup {v, ML_KEM_Q - 1 - v, (ML_KEM_Q - v) % ML_KEM_Q} :
    /\ ml_kem_add_mod(v, b) = (v + b) % ML_KEM_Q
    /\ ml_kem_sub_mod(v, b) = (v - b) % ML_KEM_Q

\* The Barrett quotient is off by one at most, upwards or not at all, so that
\* the two corrections suffice; just below, at and above the multiples of q,
\* where it is decided, and for the products of the sweep.
ReduceExact ==
  \A x \in {v * ML_KEM_Q + e : e \in {0, 1, ML_KEM_Q - 1}}
             \cup {v * b : b \in Others \cup {v}} \cup {w + v : w \in Wide} :
    /\ Remainder(x) \in -ML_KEM_Q .. ML_KEM_Q - 1
    /\ ml_kem_barrett_reduce(x) = x % ML_KEM_Q

\* Every operation on residues is exact, wrapping or not: all of the above.
ModularExact == SubIfGeExact /\ AddSubExact /\ ReduceExact
=============================================================================
