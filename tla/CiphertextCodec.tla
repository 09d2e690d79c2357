-------------------------- MODULE CiphertextCodec --------------------------
(***************************************************************************)
(* Packing of the compressed polynomials u_0 .. u_{k-1}, v into the bytes   *)
(* of a ciphertext, and their unpacking: two loops over a bit accumulator,  *)
(* in files of their own, that must agree on widths, order and layout.      *)
(* polys[p] and result[p] are u_p for p < k and v for p = k.                *)
(***************************************************************************)
EXTENDS Compression, FiniteSets

CONSTANTS ML_KEM_N,     \* coefficients of a polynomial, a multiple of 8
          Levels,       \* the values of k
          Samples       \* coefficients that occur in the polynomials

VARIABLES
  side,         \* the loop that runs: "pack", "unpack", or "done"
  k, polys,
  ciphertext,   \* bytes, by their offset
  p, i,         \* the polynomial and the coefficient the loop has come to
  pos,          \* where the polynomial starts in the ciphertext
  cursor,       \* the next byte to write or to read
  acc, acc_bits,\* the bit accumulator and how many bits it holds
  result

vars == <<side, k, polys, ciphertext, p, i, pos, cursor, acc, acc_bits, result>>

Coeffs == 0 .. ML_KEM_N - 1

PackWidth(level, poly) ==
  IF level \in {2, 3} THEN (IF poly < level THEN 10 ELSE 4)
                      ELSE (IF poly < level THEN 11 ELSE 5)

\* Slip used to test the properties: the widths of the smaller levels for all.
UnpackWidthSmall(level, poly) == IF poly < level THEN 10 ELSE 4

UnpackWidth(level, poly) ==
  IF level = 4 THEN (IF poly < level THEN 11 ELSE 5)
               ELSE (IF poly < level THEN 10 ELSE 4)

ciphertext_len == ((k * PackWidth(k, 0) + PackWidth(k, k)) * ML_KEM_N) \div 8

StepBytes(d) == (d * ML_KEM_N) \div 8

\* Byte j of the m bytes that leave the accumulator together.
ByteOut(word, j, m) == (word \div 256^j) % 256

\* The whole bytes in the accumulator; the bytes it takes to reach d bits.
FlushCount(bits) == bits \div 8
FillCount(bits, d) == IF bits >= d THEN 0 ELSE (d - bits + 7) \div 8

Init ==
  /\ side = "pack" /\ k \in Levels
  /\ \E a, b \in Samples, q \in 0 .. k, c \in Coeffs :
        polys = [r \in 0 .. k |-> [j \in Coeffs |-> IF r = q /\ j = c THEN a ELSE b]]
  /\ ciphertext = [o \in 0 .. ciphertext_len - 1 |-> 0]
  /\ p = 0 /\ i = 0 /\ pos = 0 /\ cursor = 0 /\ acc = 0 /\ acc_bits = 0
  /\ result = [r \in 0 .. k |-> [j \in Coeffs |-> 0]]

\* One turn of the loop of ml_kem_compress_and_pack. The bits of the new
\* coefficient lie above those of the accumulator, so that | is +.
PackCoefficient ==
  /\ side = "pack" /\ i < ML_KEM_N
  /\ LET d == PackWidth(k, p)
         word == acc + ml_kem_compress(polys[p][i], d) * 2^acc_bits
         m == FlushCount(acc_bits + d)
     IN  /\ ciphertext' = [o \in DOMAIN ciphertext |->
              IF o \in cursor .. cursor + m - 1 THEN ByteOut(word, o - cursor, m)
                                                ELSE ciphertext[o]]
         /\ cursor' = cursor + m
         /\ acc' = word \div 256^m
         /\ acc_bits' = acc_bits + d - 8 * m
  /\ i' = i + 1
  /\ UNCHANGED <<side, k, polys, p, pos, result>>

\* The next call of a loop starts with an empty accumulator.
StartPolynomial(poly, at) ==
  /\ p' = poly /\ i' = 0 /\ pos' = at /\ cursor' = at /\ acc' = 0 /\ acc_bits' = 0

\* ml_kem_compress_ciphertext goes on to the next polynomial; after v the
\* ciphertext is complete and its receiver unpacks it.
PackNext ==
  /\ side = "pack" /\ i = ML_KEM_N
  /\ \/ p < k /\ StartPolynomial(p + 1, pos + StepBytes(PackWidth(k, 0))) /\ UNCHANGED side
     \/ p = k /\ StartPolynomial(0, 0) /\ side' = "unpack"
  /\ UNCHANGED <<k, polys, ciphertext, result>>

\* One turn of the outer loop of ml_kem_decompress_one_poly.
UnpackCoefficient ==
  /\ side = "unpack" /\ i < ML_KEM_N
  /\ LET d == UnpackWidth(k, p)
         m == FillCount(acc_bits, d)
         filled[j \in 0 .. m] == IF j = 0 THEN acc
             ELSE filled[j - 1] + (IF cursor + j - 1 < ciphertext_len
                                   THEN ciphertext[cursor + j - 1] ELSE 0)
                                    * 2^(acc_bits + 8 * (j - 1))
     IN  /\ cursor' = cursor + m
         /\ result' = [result EXCEPT ![p][i] =
                         ml_kem_decompress_one_coeff(filled[m] % 2^d, d)]
         /\ acc' = filled[m] \div 2^d
         /\ acc_bits' = acc_bits + 8 * m - d
  /\ i' = i + 1
  /\ UNCHANGED <<side, k, polys, ciphertext, p, pos>>

\* ml_kem_decompress goes on while there are polynomials of u and bytes left,
\* then to v.
UnpackNext ==
  /\ side = "unpack" /\ i = ML_KEM_N
  /\ LET at == pos + StepBytes(UnpackWidth(k, 0))
     IN  \/ /\ p < k
            /\ StartPolynomial(IF p + 1 < k /\ at < ciphertext_len THEN p + 1 ELSE k, at)
            /\ UNCHANGED side
         \/ p = k /\ side' = "done" /\ UNCHANGED <<p, i, pos, cursor, acc, acc_bits>>
  /\ UNCHANGED <<k, polys, ciphertext, result>>

Next == PackCoefficient \/ PackNext \/ UnpackCoefficient \/ UnpackNext

Spec == Init /\ [][Next]_vars
----------------------------------------------------------------------------
\* Type invariant of both loops: what the accumulator holds fits the bits it
\* counts, fewer than eight of them between two coefficients.
TypeOK ==
  /\ side \in {"pack", "unpack", "done"} /\ k \in Levels /\ p \in 0 .. k /\ i \in 0 .. ML_KEM_N
  /\ pos \in 0 .. ciphertext_len /\ cursor \in pos .. ciphertext_len
  /\ acc_bits \in 0 .. 7 /\ acc \in 0 .. 2^acc_bits - 1
  /\ \A o \in DOMAIN ciphertext : ciphertext[o] \in 0 .. 255
  /\ \A r \in 0 .. k, j \in Coeffs : result[r][j] \in 0 .. ML_KEM_Q - 1

BitOf(word, n) == (word \div 2^n) % 2

\* What is written is the bit string of FIPS 203: without gaps, the lowest bit
\* of each coefficient and of each byte first, for every byte out so far.
BitStream ==
  side = "pack" =>
    \A n \in 0 .. 8 * (cursor - pos) - 1 :
      LET d == PackWidth(k, p)
      IN  BitOf(ciphertext[pos + n \div 8], n % 8)
            = BitOf(ml_kem_compress(polys[p][n \div d], d), n % d)

\* No bits are left in the accumulator when a polynomial ends, so that the loop
\* needs no final flush and the next polynomial starts where this one ended.
AccDrained ==
  side = "pack" /\ i = ML_KEM_N =>
    acc_bits = 0 /\ acc = 0 /\ cursor = pos + StepBytes(PackWidth(k, p))

\* Unpacking reads the bytes of its own polynomial and, for v, none behind the
\* ciphertext.
ReadsOwnBytes ==
  side = "unpack" => cursor <= pos + StepBytes(UnpackWidth(k, p))

\* The receiver has, for every coefficient of every polynomial, what compression
\* left of the one that was packed.
RoundTrip ==
  side = "done" =>
    \A r \in 0 .. k, j \in Coeffs :
      LET d == PackWidth(k, r)
      IN  result[r][j] = ml_kem_decompress_one_coeff(ml_kem_compress(polys[r][j], d), d)

\* The two loops agree: all of the above.
PackAndUnpackAgree ==
  TypeOK /\ BitStream /\ AccDrained /\ ReadsOwnBytes /\ RoundTrip
=============================================================================
