---------------------------- MODULE Compression ----------------------------
(***************************************************************************)
(* Compression of coefficients to d bits, their decompression, and the      *)
(* decoding of a coefficient to a message bit, with the integer arithmetic  *)
(* of the code: a 48-bit reciprocal in place of the division, unsigned      *)
(* 32-bit subtraction in place of comparisons.                              *)
(***************************************************************************)
EXTENDS ModArith

ML_KEM_Q_HALF == 1664

\* ML_KEM_Q_RECIP_48 in digits of twelve bits, the lowest first.
RecipDigit == <<2059, 2934, 943, 1>>

\* Slip used to test the properties: no correction of the quotient.
NeedsIncNever(num, q0) == 0

\* (num * ML_KEM_Q_RECIP_48) >> 48: the carries of a multiplication by digits.
QuotientApprox(num) ==
  LET n0 == num % 4096
      n1 == num \div 4096
      column == [i \in 0 .. 4 |-> (IF i < 4 THEN n0 * RecipDigit[i + 1] ELSE 0)
                                    + (IF i > 0 THEN n1 * RecipDigit[i] ELSE 0)]
      carry[i \in 0 .. 3] == (column[i] + (IF i = 0 THEN 0 ELSE carry[i - 1])) \div 4096
  IN  column[4] + carry[3]

\* 1 if the approximation is one too low.
NeedsInc(num, q0) == IF (q0 + 1) * ML_KEM_Q <= num THEN 1 ELSE 0

ml_kem_compress(x, d) ==
  LET num == x * 2^d + ML_KEM_Q_HALF
      q0 == QuotientApprox(num)
  IN  (q0 + NeedsInc(num, q0)) % 2^d

ml_kem_decompress_one_coeff(y, d) == (y * ML_KEM_Q + 2^(d - 1)) \div 2^d

\* The top bit of a - b in 32 bits, for a and b below 2^31.
BorrowOut(a, b) == IF a < b THEN 1 ELSE 0

ml_kem_decode1_bit(w) ==
  IF BorrowOut(w, 833) = 1 \/ BorrowOut(2496, w) = 1 THEN 0 ELSE 1
=============================================================================
