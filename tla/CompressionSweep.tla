-------------------------- MODULE CompressionSweep --------------------------
(***************************************************************************)
(* Every coefficient and every width through Compression, against the       *)
(* definitions with exact division.                                         *)
(***************************************************************************)
EXTENDS Compression

VARIABLES x, d    \* the coefficient and the width the sweep has come to

vars == <<x, d>>

Widths == {4, 5, 10, 11}      \* d_v and d_u of the three levels

Init == x = 0 /\ d \in Widths

Next == x' = (x + 1) % ML_KEM_Q /\ UNCHANGED d

Spec == Init /\ [][Next]_vars

\* The nearest integer to a / b, halves upwards.
Nearest(a, b) == (2 * a + b) \div (2 * b)

\* How far two coefficients are apart on the circle of residues.
Distance(a, b) ==
  LET gap == (a - b) % ML_KEM_Q
  IN  IF 2 * gap > ML_KEM_Q THEN ML_KEM_Q - gap ELSE gap

\* Compression rounds 2^d x / q to the nearest integer, for every coefficient:
\* the reciprocal is short by less than one, and the correction makes up for it
\* at the four coefficients where that matters.
CompressExact ==
  ml_kem_compress(x, d) = Nearest(x * 2^d, ML_KEM_Q) % 2^d

\* A coefficient that went through compression and back has moved by no more
\* than the rounding of q / 2^(d+1): what the failure rate of decryption rests
\* on.
RoundingBounded ==
  Distance(ml_kem_decompress_one_coeff(ml_kem_compress(x, d), d), x)
    <= Nearest(ML_KEM_Q, 2^(d + 1))

\* Compression undoes decompression, so that re-encryption of a ciphertext can
\* reproduce it to the bit.
CompressInverts ==
  LET y == x % 2^d
  IN  ml_kem_compress(ml_kem_decompress_one_coeff(y, d), d) = y

\* The thresholds decode each coefficient to the nearer of 0 and 1665.
DecodeNearest ==
  ml_kem_decode1_bit(x) = IF Distance(x, 1665) < Distance(x, 0) THEN 1 ELSE 0

\* Compression, decompression and decoding are exact where they have to be: all
\* of the above.
CompressionExact ==
  CompressExact /\ RoundingBounded /\ CompressInverts /\ DecodeNearest
=============================================================================
