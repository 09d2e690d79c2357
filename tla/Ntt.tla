-------------------------------- MODULE Ntt --------------------------------
(***************************************************************************)
(* The number theoretic transform of ml_kem_ntt_main.c: the loops of the    *)
(* transform, of the multiplication in its domain, whose result overwrites  *)
(* a factor, and of the inverse, over one buffer, with the tables of the    *)
(* source. The buffer starts with a monomial X^m and is multiplied by X^n:  *)
(* by linearity, what holds of the monomials holds of every polynomial.     *)
(***************************************************************************)
EXTENDS ModArith

CONSTANT Factors      \* the values of n

ML_KEM_N == 256
Cells == 0 .. ML_KEM_N - 1
HALF_NUMB_COEF_TWIDDLES == 128
ML_KEM_COEFF_NORMALIZATION == 3303

ZetaTable == <<
  1, 1729, 2580, 3289, 2642, 630, 1897, 848, 1062, 1919, 193, 797, 2786, 3260, 569, 1746,
  296, 2447, 1339, 1476, 3046, 56, 2240, 1333, 1426, 2094, 535, 2882, 2393, 2879, 1974, 821,
  289, 331, 3253, 1756, 1197, 2304, 2277, 2055, 650, 1977, 2513, 632, 2865, 33, 1320, 1915,
  2319, 1435, 807, 452, 1438, 2868, 1534, 2402, 2647, 2617, 1481, 648, 2474, 3110, 1227, 910,
  17, 2761, 583, 2649, 1637, 723, 2288, 1100, 1409, 2662, 3281, 233, 756, 2156, 3015, 3050,
  1703, 1651, 2789, 1789, 1847, 952, 1461, 2687, 939, 2308, 2437, 2388, 733, 2337, 268, 641,
  1584, 2298, 2037, 3220, 375, 2549, 2090, 1645, 1063, 319, 2773, 757, 2099, 561, 2466, 2594,
  2804, 1092, 403, 1026, 1143, 2150, 2775, 886, 1722, 1212, 1874, 1029, 2110, 2935, 885, 2154>>

GammaTable == <<
  17, 3312, 2761, 568, 583, 2746, 2649, 680, 1637, 1692, 723, 2606, 2288, 1041, 1100, 2229,
  1409, 1920, 2662, 667, 3281, 48, 233, 3096, 756, 2573, 2156, 1173, 3015, 314, 3050, 279,
  1703, 1626, 1651, 1678, 2789, 540, 1789, 1540, 1847, 1482, 952, 2377, 1461, 1868, 2687, 642,
  939, 2390, 2308, 1021, 2437, 892, 2388, 941, 733, 2596, 2337, 992, 268, 3061, 641, 2688,
  1584, 1745, 2298, 1031, 2037, 1292, 3220, 109, 375, 2954, 2549, 780, 2090, 1239, 1645, 1684,
  1063, 2266, 319, 3010, 2773, 556, 757, 2572, 2099, 1230, 561, 2768, 2466, 863, 2594, 735,
  2804, 525, 1092, 2237, 403, 2926, 1026, 2303, 1143, 2186, 2150, 1179, 2775, 554, 886, 2443,
  1722, 1607, 1212, 2117, 1874, 1455, 1029, 2300, 2110, 1219, 2935, 394, 885, 2444, 2154, 1175>>

ml_kem_zetas(n) == ZetaTable[n + 1]
ml_kem_gammas(n) == GammaTable[n + 1]

VARIABLES
  pc,              \* the loop that runs
  m, n,
  f,               \* the buffer
  len, start, i    \* the counters of the loop

vars == <<pc, m, n, f, len, start, i>>

----------------------------------------------------------------------------
\* Powers of 17, a root of unity of order 256, and the reversal of seven bits.
Power[e \in 0 .. 255] ==
  IF e = 0 THEN 1
  ELSE LET half == Power[e \div 2]
       IN  (((half * half) % ML_KEM_Q) * (IF e % 2 = 0 THEN 1 ELSE 17)) % ML_KEM_Q

Reversed(b) ==
  LET bit(s) == (b \div 2^s) % 2
  IN  64 * bit(0) + 32 * bit(1) + 16 * bit(2) + 8 * bit(3) + 4 * bit(4) + 2 * bit(5) + bit(6)

\* X^e modulo X^2 - 17^(2 Reversed(b) + 1), for each b: its transform.
Transform(e) ==
  [c \in Cells |->
     IF c % 2 # e % 2 THEN 0
     ELSE Power[((2 * Reversed(c \div 2) + 1) * (e \div 2)) % 256]]

\* The coefficients of X^e modulo X^256 + 1.
Monomial(e) ==
  [c \in Cells |-> IF c # e % 256 THEN 0 ELSE IF e < 256 THEN 1 ELSE ML_KEM_Q - 1]

Transformed == [e \in Cells |-> Transform(e)]
----------------------------------------------------------------------------
\* Slip used to test the properties: an iteration of the multiplication that
\* reads what it has just written.
OverwrittenOdd(a0, a1, b0, b1, g) ==
  ml_kem_add_mod(ml_kem_multipl_mod(ml_kem_add_mod(ml_kem_multipl_mod(a0, b0),
                   ml_kem_multipl_mod(ml_kem_multipl_mod(a1, b1), g)), b1),
                 ml_kem_multipl_mod(a1, b0))

Stride == 2 * len

\* The two results of a butterfly of the transform, for t = zeta * f[j + len].
Sum(low, t) == ml_kem_add_mod(low, t)
Diff(low, t) == ml_kem_sub_mod(low, t)

\* u - t of the inverse.
InverseDiff(low, high) == ml_kem_sub_mod(high, low)

\* The two results of an iteration of the multiplication.
Even(a0, a1, b0, b1, g) ==
  ml_kem_add_mod(ml_kem_multipl_mod(a0, b0),
                 ml_kem_multipl_mod(ml_kem_multipl_mod(a1, b1), g))
Odd(a0, a1, b0, b1, g) ==
  ml_kem_add_mod(ml_kem_multipl_mod(a0, b1), ml_kem_multipl_mod(a1, b0))

Init ==
  /\ pc = "ntt" /\ m \in Cells /\ n \in Factors
  /\ f = Monomial(m)
  /\ len = 128 /\ start = 0 /\ i = 1

\* The loop over j, and f after it: wing[j] is what becomes of f[j] and f[j + len].
Wings == start .. start + len - 1

Block(wing) ==
  [c \in Cells |-> CASE c \in Wings -> wing[c][1]
                     [] c - len \in Wings -> wing[c - len][2]
                     [] OTHER -> f[c]]

\* ml_kem_ntt_fips203: one block.
ml_kem_ntt_fips203 ==
  /\ pc = "ntt"
  /\ LET zeta == ml_kem_zetas(i)
         t(j) == ml_kem_multipl_mod(zeta, f[j + len])
     IN  f' = Block([j \in Wings |-> <<Sum(f[j], t(j)), Diff(f[j], t(j))>>])
  /\ IF start + Stride < ML_KEM_N
     THEN start' = start + Stride /\ i' = i + 1 /\ UNCHANGED <<pc, len>>
     ELSE /\ start' = 0
          /\ IF len > 2 THEN len' = len \div 2 /\ i' = i + 1 /\ UNCHANGED pc
                        ELSE pc' = "multiply" /\ i' = 0 /\ UNCHANGED len
  /\ UNCHANGED <<m, n>>

\* ml_kem_multiply by the transform of X^n, in place: eight iterations.
ml_kem_multiply ==
  /\ pc = "multiply"
  /\ LET second == Transformed[n]
         at(c, result(_, _, _, _, _)) ==
            LET p == c - (c % 2)
            IN  result(f[p], f[p + 1], second[p], second[p + 1], ml_kem_gammas(c \div 2))
     IN  f' = [c \in Cells |-> IF c \div 2 \notin i .. i + 7 THEN f[c]
                               ELSE IF c % 2 = 0 THEN at(c, Even) ELSE at(c, Odd)]
  /\ IF i + 8 < HALF_NUMB_COEF_TWIDDLES
     THEN i' = i + 8 /\ UNCHANGED <<pc, len, start>>
     ELSE pc' = "intt" /\ i' = HALF_NUMB_COEF_TWIDDLES - 1 /\ len' = 2 /\ start' = 0
  /\ UNCHANGED <<m, n>>

\* ml_kem_intt_fips203: one block.
ml_kem_intt_fips203 ==
  /\ pc = "intt"
  /\ LET zeta == ml_kem_zetas(i)
     IN  f' = Block([j \in Wings |-> <<Sum(f[j], f[j + len]),
                       ml_kem_multipl_mod(zeta, InverseDiff(f[j], f[j + len]))>>])
  /\ IF start + Stride < ML_KEM_N
     THEN start' = start + Stride /\ i' = i - 1 /\ UNCHANGED <<pc, len>>
     ELSE /\ start' = 0
          /\ IF len < HALF_NUMB_COEF_TWIDDLES THEN len' = 2 * len /\ i' = i - 1 /\ UNCHANGED pc
                                              ELSE pc' = "scale" /\ UNCHANGED <<len, i>>
  /\ UNCHANGED <<m, n>>

\* The multiplication by n^(-1) that ends the inverse.
Scale ==
  /\ pc = "scale"
  /\ f' = [c \in Cells |-> ml_kem_multipl_mod(f[c], ML_KEM_COEFF_NORMALIZATION)]
  /\ pc' = "done"
  /\ UNCHANGED <<m, n, len, start, i>>

Next == ml_kem_ntt_fips203 \/ ml_kem_multiply \/ ml_kem_intt_fips203 \/ Scale

Spec == Init /\ [][Next]_vars
----------------------------------------------------------------------------
\* Type invariant: every coefficient stays reduced, as the next operation needs
\* it.
TypeOK ==
  /\ pc \in {"ntt", "multiply", "intt", "scale", "done"}
  /\ len \in 2 .. 128 /\ start \in 0 .. 255 /\ i \in 0 .. 128
  /\ f \in [Cells -> Residues]

\* The running index meets each block with the twiddle factor that belongs to
\* it: forwards from 1, backwards from 127, and never outside the table.
TwiddleInOrder ==
  /\ pc = "ntt" => i = 128 \div len + start \div (2 * len)
  /\ pc = "intt" => i = 256 \div len - 1 - start \div (2 * len)

\* The transform of X^m is its residue modulo each X^2 - gamma.
TransformIsResidues == pc = "multiply" /\ i = 0 => f = Transformed[m]

\* Back from the domain of the transform is the product X^(m+n) modulo
\* X^256 + 1, although it was formed in the buffer of a factor.
ProductIsNegacyclic == pc = "done" => f = Monomial(m + n)

\* Transform, product and inverse are right: all of the above.
NegacyclicProduct ==
  TypeOK /\ TwiddleInOrder /\ TransformIsResidues /\ ProductIsNegacyclic
=============================================================================
