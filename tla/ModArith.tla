------------------------------ MODULE ModArith ------------------------------
(***************************************************************************)
(* The arithmetic modulo q = 3329 of ml_kem_core_header.h, with the widths  *)
(* of its integers: u16 wraps at 2^16, the quotient of the Barrett          *)
(* reduction comes from a 64-bit product, masks replace branches.           *)
(***************************************************************************)
EXTENDS Integers

ML_KEM_Q == 3329
BARRETT_MU == 20159

Residues == 0 .. ML_KEM_Q - 1

U16(x) == x % 65536

\* x & mask where mask is all ones or zero.
And(x, mask) == IF mask = 0 THEN 0 ELSE x

\* (r >> 31) & q, the sign bit of an s32 spread over the word.
IfNegative(r) == IF r < 0 THEN ML_KEM_Q ELSE 0

\* Slip used to test the properties: q is not subtracted from itself.
BorrowStrict(diff) == U16(diff - 1) \div 32768

\* 1 if the subtraction went below zero.
Borrow(diff) == diff \div 32768

\* x mod q for x < 2q.
ml_kem_ct_sub_if_ge(x) ==
  LET diff == U16(x - ML_KEM_Q)
      mask == U16(0 - Borrow(diff))
  IN  U16(diff + And(ML_KEM_Q, mask))

\* (a * BARRETT_MU) >> 26 in 64 bits, written in halves: the numbers of TLC
\* have 32.
Quotient(a) ==
  ((a \div 65536) * BARRETT_MU + ((a % 65536) * BARRETT_MU) \div 65536) \div 1024

Remainder(a) == a - Quotient(a) * ML_KEM_Q

ml_kem_barrett_reduce(a) ==
  LET r == Remainder(a)
      s == r + IfNegative(r) - ML_KEM_Q
  IN  U16(s + IfNegative(s))

ml_kem_multipl_mod(a, b) == ml_kem_barrett_reduce(a * b)

ml_kem_add_mod(a, b) == ml_kem_ct_sub_if_ge(U16(a + b))

\* a - b, lifted above zero.
Lift(a, b) == a + ML_KEM_Q - b

ml_kem_sub_mod(a, b) == ml_kem_ct_sub_if_ge(U16(Lift(a, b)))
=============================================================================
