---------------------------- MODULE CodecsProofs ----------------------------
(***************************************************************************)
(* Proofs about the three codecs.  Keys, for every level and every length   *)
(* of a polynomial: what an export wrote, an import reads; what an import   *)
(* accepts, canonical or foreign, is a key object every peer can read.      *)
(* Compression: the reciprocal, its correction and the masks are exact.     *)
(* Ciphertexts, for all polynomials of every length: bytes and accumulator  *)
(* hold the stream of compressed bits at every step of the two loops, so    *)
(* that what one packs the other unpacks.                                   *)
(***************************************************************************)
EXTENDS Codecs, SequenceTheorems, TLAPS

Bytes == 0 .. 255
Twelve == 0 .. 4095

-----------------------------------------------------------------------------
(* Two coefficients, three bytes *)

\* The place of a coefficient and of a byte in its triple.
LEMMA CoefficientPlace ==
  ASSUME NEW n \in Nat, n % 2 = 0, NEW j \in 1 .. n
  PROVE  \E t \in Nat : /\ (j - 1) \div 2 = t /\ 2 * t + 2 <= n
                        /\ \/ j % 2 = 1 /\ j = 2 * t + 1
                           \/ j % 2 = 0 /\ j = 2 * t + 2
                        /\ 3 * t + 3 <= (3 * n) \div 2
  <1> DEFINE t == (j - 1) \div 2
  <1>1. t \in Nat /\ (j = 2 * t + 1 \/ j = 2 * t + 2)
    OBVIOUS
  <1>2. 2 * t + 2 <= n
    BY <1>1
  <1>3. 3 * t + 3 <= (3 * n) \div 2
    BY <1>2
  <1> HIDE DEF t
  <1>4. (j = 2 * t + 1 => j % 2 = 1) /\ (j = 2 * t + 2 => j % 2 = 0)
    BY <1>1
  <1> QED
    BY <1>1, <1>2, <1>3, <1>4 DEF t

LEMMA BytePlace ==
  ASSUME NEW n \in Nat, n % 2 = 0, NEW b \in 1 .. (3 * n) \div 2
  PROVE  \E t \in Nat : /\ (b - 1) \div 3 = t /\ 2 * t + 2 <= n
                        /\ \/ b % 3 = 1 /\ b = 3 * t + 1
                           \/ b % 3 = 2 /\ b = 3 * t + 2
                           \/ b % 3 = 0 /\ b = 3 * t + 3
  <1> DEFINE t == (b - 1) \div 3
  <1>1. t \in Nat /\ (b = 3 * t + 1 \/ b = 3 * t + 2 \/ b = 3 * t + 3)
    OBVIOUS
  <1>2. 2 * t + 2 <= n
    BY <1>1
  <1> HIDE DEF t
  <1>3. /\ b = 3 * t + 1 => b % 3 = 1
        /\ b = 3 * t + 2 => b % 3 = 2
        /\ b = 3 * t + 3 => b % 3 = 0
    BY <1>1
  <1> QED
    BY <1>1, <1>2, <1>3 DEF t

LEMMA PackPair ==
  ASSUME NEW c0 \in Twelve, NEW c1 \in Twelve
  PROVE  /\ U8(c0) \in Bytes /\ U8(c0 \div 256 + c1 * 16) \in Bytes /\ U8(c1 \div 16) \in Bytes
         /\ U8(c0 \div 256) + U8(c1 * 16) = U8(c0 \div 256 + c1 * 16)
         /\ U8(U8(c0)) + (U8(U8(c0 \div 256 + c1 * 16)) % 16) * 256 = c0
         /\ U8(U8(c0 \div 256 + c1 * 16)) \div 16 + U8(U8(c1 \div 16)) * 16 = c1
  <1>1. PICK a \in 0 .. 15, r \in 0 .. 255 : c0 = 256 * a + r
    <2>1. c0 \div 256 \in 0 .. 15 /\ c0 % 256 \in 0 .. 255 /\ c0 = 256 * (c0 \div 256) + (c0 % 256)
      BY DEF Twelve
    <2> QED
      BY <2>1
  <1>2. PICK e \in 0 .. 255, f \in 0 .. 15 : c1 = 16 * e + f
    <2>1. c1 \div 16 \in 0 .. 255 /\ c1 % 16 \in 0 .. 15 /\ c1 = 16 * (c1 \div 16) + (c1 % 16)
      BY DEF Twelve
    <2> QED
      BY <2>1
  <1>3. U8(c0) = r /\ c0 \div 256 = a /\ c1 \div 16 = e /\ U8(a) = a /\ U8(r) = r /\ U8(e) = e
    BY <1>1, <1>2 DEF U8
  <1>4. U8(c1 * 16) = 16 * f
    BY <1>2 DEF U8
  <1>5. U8(a + c1 * 16) = a + 16 * f /\ U8(a + 16 * f) = a + 16 * f
    BY <1>1, <1>2 DEF U8
  <1>6. (a + 16 * f) % 16 = a /\ (a + 16 * f) \div 16 = f
    BY <1>1, <1>2
  <1>7. U8(c0 \div 256 + c1 * 16) = a + 16 * f /\ U8(U8(c0 \div 256 + c1 * 16)) = a + 16 * f
    BY <1>3, <1>5
  <1>8. U8(U8(c0)) = r /\ U8(U8(c1 \div 16)) = e /\ U8(c0 \div 256) = a
    BY <1>3
  <1>9. r \in Bytes /\ e \in Bytes /\ a + 16 * f \in Bytes
    BY <1>1, <1>2 DEF Bytes
  <1>10. r + a * 256 = c0 /\ f + e * 16 = c1
    BY <1>1, <1>2
  <1> DEFINE m == U8(c0 \div 256 + c1 * 16)
             h == U8(c1 \div 16)
             g == a + 16 * f
             lo == U8(c0 \div 256)
             up == U8(c1 * 16)
  <1>11. /\ U8(c0) = r /\ m = g /\ h = e /\ lo = a /\ up = 16 * f
         /\ U8(r) = r /\ U8(g) = g /\ U8(e) = e
    BY <1>3, <1>4, <1>5, <1>7, <1>8
  <1>12. g \in Bytes /\ g % 16 = a /\ g \div 16 = f /\ lo + up = g
    BY <1>6, <1>9, <1>11
  <1> HIDE DEF m, h, g, lo, up
  <1>13. U8(c0) \in Bytes /\ m \in Bytes /\ h \in Bytes /\ lo + up = m
    BY <1>9, <1>11, <1>12
  <1>14. U8(U8(c0)) + (U8(m) % 16) * 256 = c0 /\ U8(m) \div 16 + U8(h) * 16 = c1
    BY <1>10, <1>11, <1>12
  <1> QED
    BY <1>13, <1>14 DEF m, h, lo, up

LEMMA UnpackTriple ==
  ASSUME NEW b1 \in Bytes, NEW b2 \in Bytes, NEW b3 \in Bytes,
         NEW c0, c0 = U8(b1) + (U8(b2) % 16) * 256,
         NEW c1, c1 = U8(b2) \div 16 + U8(b3) * 16
  PROVE  U8(c0) = b1 /\ U8(c0 \div 256 + c1 * 16) = b2 /\ U8(c1 \div 16) = b3
  BY SMTT(60) DEF U8, Bytes

\* A field has twelve bits whatever it is read from.
LEMMA FieldFits ==
  ASSUME NEW b1 \in Int, NEW b2 \in Int, NEW b3 \in Int
  PROVE  U8(b1) + (U8(b2) % 16) * 256 \in Twelve /\ U8(b2) \div 16 + U8(b3) * 16 \in Twelve
  BY SMTT(60) DEF U8, Twelve

-----------------------------------------------------------------------------
(* Vectors *)

LEMMA TriplePlaces ==
  ASSUME NEW n \in Nat, n % 2 = 0, NEW t \in Nat, 2 * t + 2 <= n
  PROVE  /\ 2 * t + 1 \in 1 .. n /\ (2 * t + 1 - 1) \div 2 = t /\ (2 * t + 1) % 2 = 1
         /\ 2 * t + 2 \in 1 .. n /\ (2 * t + 2 - 1) \div 2 = t /\ (2 * t + 2) % 2 = 0
         /\ 3 * t + 1 \in 1 .. (3 * n) \div 2 /\ (3 * t + 1 - 1) \div 3 = t /\ (3 * t + 1) % 3 = 1
         /\ 3 * t + 2 \in 1 .. (3 * n) \div 2 /\ (3 * t + 2 - 1) \div 3 = t /\ (3 * t + 2) % 3 = 2
         /\ 3 * t + 3 \in 1 .. (3 * n) \div 2 /\ (3 * t + 3 - 1) \div 3 = t /\ (3 * t + 3) % 3 = 0
  OBVIOUS

LEMMA TripleOf ==
  ASSUME NEW n \in Nat, n % 2 = 0, NEW b \in 1 .. (3 * n) \div 2
  PROVE  \E t \in Nat : 2 * t + 2 <= n /\ (b = 3 * t + 1 \/ b = 3 * t + 2 \/ b = 3 * t + 3)
  BY BytePlace

LEMMA PairOf ==
  ASSUME NEW n \in Nat, n % 2 = 0, NEW j \in 1 .. n
  PROVE  \E t \in Nat : 2 * t + 2 <= n /\ (j = 2 * t + 1 \/ j = 2 * t + 2)
  BY CoefficientPlace

\* The bytes of triple t of a packed vector, and the fields read from it.
Packs(v, t) ==
  /\ get_s_vector(v)[3 * t + 1] = U8(v[2 * t + 1])
  /\ get_s_vector(v)[3 * t + 2] = U8(v[2 * t + 1] \div 256 + v[2 * t + 2] * 16)
  /\ get_s_vector(v)[3 * t + 3] = U8(v[2 * t + 2] \div 16)
  /\ convert_to_bytes_format(v)[3 * t + 1] = U8(v[2 * t + 1])
  /\ convert_to_bytes_format(v)[3 * t + 2] = U8(v[2 * t + 1] \div 256) + U8(v[2 * t + 2] * 16)
  /\ convert_to_bytes_format(v)[3 * t + 3] = U8(v[2 * t + 2] \div 16)
Unpacks(bytes, t) ==
  /\ Field(bytes, 2 * t + 1) = U8(bytes[3 * t + 1]) + (U8(bytes[3 * t + 2]) % 16) * 256
  /\ Field(bytes, 2 * t + 2) = U8(bytes[3 * t + 2]) \div 16 + U8(bytes[3 * t + 3]) * 16

LEMMA PackTriple ==
  ASSUME NEW n \in Nat, n % 2 = 0, NEW v \in Seq(Nat), Len(v) = n, NEW t \in Nat, 2 * t + 2 <= n
  PROVE  Packs(v, t)
  <1> DEFINE b1 == 3 * t + 1
             b2 == 3 * t + 2
             b3 == 3 * t + 3
  <1>1. /\ b1 \in 1 .. (3 * n) \div 2 /\ (b1 - 1) \div 3 = t /\ b1 % 3 = 1
        /\ b2 \in 1 .. (3 * n) \div 2 /\ (b2 - 1) \div 3 = t /\ b2 % 3 = 2
        /\ b3 \in 1 .. (3 * n) \div 2 /\ (b3 - 1) \div 3 = t /\ b3 % 3 = 0
    BY TriplePlaces
  <1> HIDE DEF b1, b2, b3
  <1>2. ASSUME NEW b \in 1 .. (3 * n) \div 2, (b - 1) \div 3 = t
        PROVE  /\ get_s_vector(v)[b] = CASE b % 3 = 1 -> U8(v[2 * t + 1])
                    [] b % 3 = 2 -> U8(v[2 * t + 1] \div 256 + v[2 * t + 2] * 16)
                    [] b % 3 = 0 -> U8(v[2 * t + 2] \div 16)
               /\ convert_to_bytes_format(v)[b] = CASE b % 3 = 1 -> U8(v[2 * t + 1])
                    [] b % 3 = 2 -> U8(v[2 * t + 1] \div 256) + U8(v[2 * t + 2] * 16)
                    [] b % 3 = 0 -> U8(v[2 * t + 2] \div 16)
    <2>1. get_s_vector(v)[b] =
            CASE b % 3 = 1 -> U8(v[2 * ((b - 1) \div 3) + 1])
              [] b % 3 = 2 -> U8(v[2 * ((b - 1) \div 3) + 1] \div 256
                                   + v[2 * ((b - 1) \div 3) + 2] * 16)
              [] b % 3 = 0 -> U8(v[2 * ((b - 1) \div 3) + 2] \div 16)
      BY DEF get_s_vector
    <2>2. convert_to_bytes_format(v)[b] =
            CASE b % 3 = 1 -> U8(v[2 * ((b - 1) \div 3) + 1])
              [] b % 3 = 2 -> U8(v[2 * ((b - 1) \div 3) + 1] \div 256)
                                + U8(v[2 * ((b - 1) \div 3) + 2] * 16)
              [] b % 3 = 0 -> U8(v[2 * ((b - 1) \div 3) + 2] \div 16)
      BY DEF convert_to_bytes_format
    <2> QED
      BY <1>2, <2>1, <2>2
  <1>3. /\ get_s_vector(v)[b1] = U8(v[2 * t + 1])
        /\ convert_to_bytes_format(v)[b1] = U8(v[2 * t + 1])
    <2>1. b1 \in 1 .. (3 * n) \div 2 /\ (b1 - 1) \div 3 = t /\ ~(b1 % 3 = 2) /\ ~(b1 % 3 = 0)
      BY <1>1
    <2> QED
      BY <1>1, <1>2, <2>1
  <1>4. /\ get_s_vector(v)[b2] = U8(v[2 * t + 1] \div 256 + v[2 * t + 2] * 16)
        /\ convert_to_bytes_format(v)[b2] = U8(v[2 * t + 1] \div 256) + U8(v[2 * t + 2] * 16)
    <2>1. b2 \in 1 .. (3 * n) \div 2 /\ (b2 - 1) \div 3 = t /\ ~(b2 % 3 = 1) /\ ~(b2 % 3 = 0)
      BY <1>1
    <2> QED
      BY <1>1, <1>2, <2>1
  <1>5. /\ get_s_vector(v)[b3] = U8(v[2 * t + 2] \div 16)
        /\ convert_to_bytes_format(v)[b3] = U8(v[2 * t + 2] \div 16)
    <2>1. b3 \in 1 .. (3 * n) \div 2 /\ (b3 - 1) \div 3 = t /\ ~(b3 % 3 = 1) /\ ~(b3 % 3 = 2)
      BY <1>1
    <2> QED
      BY <1>1, <1>2, <2>1
  <1> QED
    BY <1>3, <1>4, <1>5 DEF b1, b2, b3, Packs

LEMMA FieldTriple ==
  ASSUME NEW n \in Nat, n % 2 = 0, NEW bytes, NEW t \in Nat, 2 * t + 2 <= n
  PROVE  Unpacks(bytes, t)
  <1> DEFINE j1 == 2 * t + 1
             j2 == 2 * t + 2
  <1>1. (j1 - 1) \div 2 = t /\ j1 % 2 = 1 /\ (j2 - 1) \div 2 = t /\ j2 % 2 = 0
    BY TriplePlaces
  <1> HIDE DEF j1, j2
  <1>2. Field(bytes, j1) = U8(bytes[3 * t + 1]) + (U8(bytes[3 * t + 2]) % 16) * 256
    BY <1>1 DEF Field
  <1>3. Field(bytes, j2) = U8(bytes[3 * t + 2]) \div 16 + U8(bytes[3 * t + 3]) * 16
    BY <1>1 DEF Field
  <1> QED
    BY <1>2, <1>3 DEF j1, j2, Unpacks

\* A packed vector has bytes for elements, and its fields are the coefficients.
LEMMA PackVector ==
  ASSUME NEW n \in Nat, n % 2 = 0, NEW v \in [1 .. n -> Twelve]
  PROVE  /\ get_s_vector(v) \in [1 .. (3 * n) \div 2 -> Bytes]
         /\ convert_to_bytes_format(v) = get_s_vector(v)
         /\ \A j \in 1 .. n : Field(get_s_vector(v), j) = v[j]
  <1> DEFINE w == get_s_vector(v)
             u == convert_to_bytes_format(v)
  <1>1. v \in Seq(Nat) /\ Len(v) = n
    <2>1. v = [j \in 1 .. n |-> v[j]]
      OBVIOUS
    <2>2. ASSUME NEW j \in 1 .. n PROVE v[j] \in Nat
      <3>1. v[j] \in Twelve
        OBVIOUS
      <3>2. Twelve \subseteq Nat
        BY DEF Twelve
      <3> QED
        BY <3>1, <3>2
    <2> QED
      BY <2>1, <2>2
  <1>2. w = [b \in 1 .. (3 * n) \div 2 |-> w[b]] /\ u = [b \in 1 .. (3 * n) \div 2 |-> u[b]]
    BY <1>1 DEF get_s_vector, convert_to_bytes_format
  <1>3. ASSUME NEW t \in Nat, 2 * t + 2 <= n
        PROVE  /\ w[3 * t + 1] \in Bytes /\ w[3 * t + 2] \in Bytes /\ w[3 * t + 3] \in Bytes
               /\ u[3 * t + 1] = w[3 * t + 1] /\ u[3 * t + 2] = w[3 * t + 2]
               /\ u[3 * t + 3] = w[3 * t + 3]
               /\ Field(w, 2 * t + 1) = v[2 * t + 1] /\ Field(w, 2 * t + 2) = v[2 * t + 2]
    <2> DEFINE c0 == v[2 * t + 1]
               c1 == v[2 * t + 2]
    <2>1. c0 \in Twelve /\ c1 \in Twelve
      BY <1>3
    <2>2. /\ w[3 * t + 1] = U8(c0) /\ w[3 * t + 2] = U8(c0 \div 256 + c1 * 16)
          /\ w[3 * t + 3] = U8(c1 \div 16)
          /\ u[3 * t + 1] = U8(c0) /\ u[3 * t + 2] = U8(c0 \div 256) + U8(c1 * 16)
          /\ u[3 * t + 3] = U8(c1 \div 16)
      <3>1. Packs(v, t)
        BY <1>1, <1>3, PackTriple
      <3> QED
        BY <3>1 DEF Packs
    <2> HIDE DEF w, u
    <2>3. /\ Field(w, 2 * t + 1) = U8(w[3 * t + 1]) + (U8(w[3 * t + 2]) % 16) * 256
          /\ Field(w, 2 * t + 2) = U8(w[3 * t + 2]) \div 16 + U8(w[3 * t + 3]) * 16
      BY <1>3, FieldTriple DEF Unpacks
    <2> HIDE DEF c0, c1
    <2>4. /\ Field(w, 2 * t + 1) = c0 /\ Field(w, 2 * t + 2) = c1
          /\ w[3 * t + 1] \in Bytes /\ w[3 * t + 2] \in Bytes /\ w[3 * t + 3] \in Bytes
          /\ u[3 * t + 1] = w[3 * t + 1] /\ u[3 * t + 2] = w[3 * t + 2]
          /\ u[3 * t + 3] = w[3 * t + 3]
      BY <2>1, <2>2, <2>3, PackPair
    <2> QED
      BY <2>4 DEF c0, c1
  <1> HIDE DEF w, u
  <1>4. ASSUME NEW b \in 1 .. (3 * n) \div 2 PROVE w[b] \in Bytes /\ u[b] = w[b]
    <2>1. PICK t \in Nat : 2 * t + 2 <= n /\ (b = 3 * t + 1 \/ b = 3 * t + 2 \/ b = 3 * t + 3)
      BY TripleOf
    <2> QED
      BY <1>3, <2>1
  <1>5. ASSUME NEW j \in 1 .. n PROVE Field(w, j) = v[j]
    <2>1. PICK t \in Nat : 2 * t + 2 <= n /\ (j = 2 * t + 1 \/ j = 2 * t + 2)
      BY PairOf
    <2> QED
      BY <1>3, <2>1
  <1>6. w \in [1 .. (3 * n) \div 2 -> Bytes] /\ u = w
    BY <1>2, <1>4
  <1> QED
    BY <1>5, <1>6 DEF w, u

LEMMA RepackTriple ==
  ASSUME NEW v, NEW t, Packs(v, t), NEW b1 \in Bytes, NEW b2 \in Bytes, NEW b3 \in Bytes,
         v[2 * t + 1] = U8(b1) + (U8(b2) % 16) * 256,
         v[2 * t + 2] = U8(b2) \div 16 + U8(b3) * 16
  PROVE  /\ get_s_vector(v)[3 * t + 1] = b1 /\ get_s_vector(v)[3 * t + 2] = b2
         /\ get_s_vector(v)[3 * t + 3] = b3
  <1> DEFINE c0 == v[2 * t + 1]
             c1 == v[2 * t + 2]
  <1>1. c0 = U8(b1) + (U8(b2) % 16) * 256 /\ c1 = U8(b2) \div 16 + U8(b3) * 16
    OBVIOUS
  <1>2. /\ get_s_vector(v)[3 * t + 1] = U8(c0)
        /\ get_s_vector(v)[3 * t + 2] = U8(c0 \div 256 + c1 * 16)
        /\ get_s_vector(v)[3 * t + 3] = U8(c1 \div 16)
    BY DEF Packs
  <1> HIDE DEF c0, c1
  <1>3. U8(c0) = b1 /\ U8(c0 \div 256 + c1 * 16) = b2 /\ U8(c1 \div 16) = b3
    BY <1>1, UnpackTriple
  <1> QED
    BY <1>2, <1>3

\* Bytes that are unpacked and packed again are the same bytes.
LEMMA RepackVector ==
  ASSUME NEW n \in Nat, n % 2 = 0, NEW bytes,
         \A b \in 1 .. (3 * n) \div 2 : bytes[b] \in Bytes
  PROVE  LET v == [j \in 1 .. n |-> Field(bytes, j)]
         IN  /\ v \in [1 .. n -> Twelve]
             /\ \A b \in 1 .. (3 * n) \div 2 : get_s_vector(v)[b] = bytes[b]
  <1> DEFINE v == [j \in 1 .. n |-> Field(bytes, j)]
             w == get_s_vector(v)
  <1>1. ASSUME NEW t \in Nat, 2 * t + 2 <= n
        PROVE  /\ bytes[3 * t + 1] \in Bytes /\ bytes[3 * t + 2] \in Bytes
               /\ bytes[3 * t + 3] \in Bytes
    <2>1. /\ 3 * t + 1 \in 1 .. (3 * n) \div 2 /\ 3 * t + 2 \in 1 .. (3 * n) \div 2
          /\ 3 * t + 3 \in 1 .. (3 * n) \div 2
      BY <1>1, TriplePlaces
    <2> QED
      BY <2>1
  <1>2. ASSUME NEW t \in Nat, 2 * t + 2 <= n
        PROVE  /\ v[2 * t + 1] = U8(bytes[3 * t + 1]) + (U8(bytes[3 * t + 2]) % 16) * 256
               /\ v[2 * t + 2] = U8(bytes[3 * t + 2]) \div 16 + U8(bytes[3 * t + 3]) * 16
    <2>1. 2 * t + 1 \in 1 .. n /\ 2 * t + 2 \in 1 .. n
      BY <1>2
    <2> QED
      BY <1>2, <2>1, FieldTriple DEF Unpacks
  <1>3. DOMAIN v = 1 .. n /\ v = [j \in 1 .. n |-> v[j]]
    OBVIOUS
  <1> HIDE DEF v
  <1>4. ASSUME NEW j \in 1 .. n PROVE v[j] \in Twelve
    <2>1. PICK t \in Nat : 2 * t + 2 <= n /\ (j = 2 * t + 1 \/ j = 2 * t + 2)
      BY PairOf
    <2>2. /\ bytes[3 * t + 1] \in Int /\ bytes[3 * t + 2] \in Int /\ bytes[3 * t + 3] \in Int
      <3>1. /\ bytes[3 * t + 1] \in Bytes /\ bytes[3 * t + 2] \in Bytes
            /\ bytes[3 * t + 3] \in Bytes
        BY <1>1, <2>1
      <3>2. Bytes \subseteq Int
        BY DEF Bytes
      <3> QED
        BY <3>1, <3>2
    <2>3. v[2 * t + 1] \in Twelve /\ v[2 * t + 2] \in Twelve
      BY <1>2, <2>1, <2>2, FieldFits
    <2> QED
      BY <2>1, <2>3
  <1>5. v \in [1 .. n -> Twelve]
    BY <1>3, <1>4
  <1>6. v \in Seq(Nat) /\ Len(v) = n
    <2>1. ASSUME NEW j \in 1 .. n PROVE v[j] \in Nat
      <3>1. Twelve \subseteq Nat
        BY DEF Twelve
      <3> QED
        BY <1>4, <3>1
    <2> QED
      BY <1>3, <2>1
  <1>7. ASSUME NEW t \in Nat, 2 * t + 2 <= n
        PROVE  /\ w[3 * t + 1] = bytes[3 * t + 1] /\ w[3 * t + 2] = bytes[3 * t + 2]
               /\ w[3 * t + 3] = bytes[3 * t + 3]
    <2>1. /\ bytes[3 * t + 1] \in Bytes /\ bytes[3 * t + 2] \in Bytes
          /\ bytes[3 * t + 3] \in Bytes
          /\ v[2 * t + 1] = U8(bytes[3 * t + 1]) + (U8(bytes[3 * t + 2]) % 16) * 256
          /\ v[2 * t + 2] = U8(bytes[3 * t + 2]) \div 16 + U8(bytes[3 * t + 3]) * 16
      BY <1>1, <1>2, <1>7
    <2>2. Packs(v, t)
      BY <1>6, <1>7, PackTriple
    <2> DEFINE b1 == bytes[3 * t + 1]
               b2 == bytes[3 * t + 2]
               b3 == bytes[3 * t + 3]
    <2>3. /\ b1 \in Bytes /\ b2 \in Bytes /\ b3 \in Bytes
          /\ v[2 * t + 1] = U8(b1) + (U8(b2) % 16) * 256
          /\ v[2 * t + 2] = U8(b2) \div 16 + U8(b3) * 16
      BY <2>1
    <2> HIDE DEF b1, b2, b3
    <2>4. /\ get_s_vector(v)[3 * t + 1] = b1 /\ get_s_vector(v)[3 * t + 2] = b2
          /\ get_s_vector(v)[3 * t + 3] = b3
      BY <2>2, <2>3, RepackTriple
    <2> QED
      BY <2>4 DEF b1, b2, b3
  <1> HIDE DEF w
  <1>8. ASSUME NEW b \in 1 .. (3 * n) \div 2 PROVE w[b] = bytes[b]
    <2>1. PICK t \in Nat : 2 * t + 2 <= n /\ (b = 3 * t + 1 \/ b = 3 * t + 2 \/ b = 3 * t + 3)
      BY TripleOf
    <2> QED
      BY <1>7, <2>1
  <1> QED
    BY <1>5, <1>8 DEF v, w

LEMMA SameFields ==
  ASSUME NEW n \in Nat, n % 2 = 0, NEW a, NEW b, \A m \in 1 .. (3 * n) \div 2 : a[m] = b[m],
         NEW j \in 1 .. n
  PROVE  Field(a, j) = Field(b, j)
  <1>1. PICK t \in Nat : 2 * t + 2 <= n /\ (j = 2 * t + 1 \/ j = 2 * t + 2)
    BY PairOf
  <1>2. a[3 * t + 1] = b[3 * t + 1] /\ a[3 * t + 2] = b[3 * t + 2] /\ a[3 * t + 3] = b[3 * t + 3]
    <2>1. /\ 3 * t + 1 \in 1 .. (3 * n) \div 2 /\ 3 * t + 2 \in 1 .. (3 * n) \div 2
          /\ 3 * t + 3 \in 1 .. (3 * n) \div 2
      BY <1>1, TriplePlaces
    <2> QED
      BY <2>1
  <1>3. Unpacks(a, t) /\ Unpacks(b, t)
    BY <1>1, FieldTriple
  <1> QED
    BY <1>1, <1>2, <1>3 DEF Unpacks

LEMMA FieldIsTwelve ==
  ASSUME NEW n \in Nat, n % 2 = 0, NEW b, \A m \in 1 .. (3 * n) \div 2 : b[m] \in Int,
         NEW j \in 1 .. n
  PROVE  Field(b, j) \in Twelve
  <1>1. PICK t \in Nat : 2 * t + 2 <= n /\ (j = 2 * t + 1 \/ j = 2 * t + 2)
    BY PairOf
  <1>2. b[3 * t + 1] \in Int /\ b[3 * t + 2] \in Int /\ b[3 * t + 3] \in Int
    <2>1. /\ 3 * t + 1 \in 1 .. (3 * n) \div 2 /\ 3 * t + 2 \in 1 .. (3 * n) \div 2
          /\ 3 * t + 3 \in 1 .. (3 * n) \div 2
      BY <1>1, TriplePlaces
    <2> QED
      BY <2>1
  <1>3. Unpacks(b, t)
    BY <1>1, FieldTriple
  <1>4. Field(b, 2 * t + 1) \in Twelve /\ Field(b, 2 * t + 2) \in Twelve
    BY <1>2, <1>3, FieldFits DEF Unpacks
  <1> QED
    BY <1>1, <1>4

LEMMA SubIfGe ==
  ASSUME NEW f \in Twelve
  PROVE  /\ ml_kem_ct_sub_if_ge(f) = f % ML_KEM_Q /\ ml_kem_ct_sub_if_ge(f) \in Residues
         /\ f \in Residues => ml_kem_ct_sub_if_ge(f) = f
  BY SMTT(60) DEF ml_kem_ct_sub_if_ge, U16, And, Borrow, ML_KEM_Q, Twelve, Residues

-----------------------------------------------------------------------------
(* Key objects *)

LEMMA Lengths ==
  ASSUME NEW l \in Levels
  PROVE  /\ l \in {2, 3, 4} /\ l * N \in Nat \ {0} /\ (l * N) % 2 = 0
         /\ VectorLen(l) = (3 * (l * N)) \div 2 /\ VectorLen(l) \in Nat \ {0}
         /\ PkLen(l) = VectorLen(l) + 1 /\ SkLen(l) = 2 * VectorLen(l) + 3
         /\ \A m \in Levels : /\ SkLen(l) = SkLen(m) => l = m
                              /\ SkLen(l) < SkLen(m) => SkLen(l) + 1 < SkLen(m)
  <1>1. PICK h \in Nat \ {0} : N = 2 * h
    <2>1. N \in Nat \ {0} /\ N % 2 = 0
      BY CodecAssumption
    <2>2. N \div 2 \in Nat \ {0} /\ N = 2 * (N \div 2)
      BY <2>1
    <2> QED
      BY <2>2
  <1>2. Levels \subseteq {2, 3, 4}
    BY CodecAssumption
  <1>3. ASSUME NEW m \in {2, 3, 4}
        PROVE  /\ m * N = 2 * (m * h) /\ VectorLen(m) = 3 * (m * h) /\ m * h \in Nat \ {0}
               /\ PkLen(m) = VectorLen(m) + 1 /\ SkLen(m) = 6 * (m * h) + 3
    <2>1. CASE m = 2
      BY <1>1, <2>1 DEF VectorLen, PkLen, SkLen, Seed
    <2>2. CASE m = 3
      BY <1>1, <2>2 DEF VectorLen, PkLen, SkLen, Seed
    <2>3. CASE m = 4
      BY <1>1, <2>3 DEF VectorLen, PkLen, SkLen, Seed
    <2> QED
      BY <2>1, <2>2, <2>3
  <1>4. \A m \in Levels : /\ SkLen(l) = SkLen(m) => l = m
                          /\ SkLen(l) < SkLen(m) => SkLen(l) + 1 < SkLen(m)
    <2> TAKE m \in Levels
    <2>1. SkLen(l) = 6 * (l * h) + 3 /\ SkLen(m) = 6 * (m * h) + 3
      BY <1>2, <1>3
    <2>2. l \in {2, 3, 4} /\ m \in {2, 3, 4}
      BY <1>2
    <2> QED
      BY <1>1, <2>1, <2>2
  <1>5. /\ l \in {2, 3, 4} /\ l * N = 2 * (l * h) /\ VectorLen(l) = 3 * (l * h)
        /\ l * h \in Nat \ {0} /\ PkLen(l) = VectorLen(l) + 1 /\ SkLen(l) = 6 * (l * h) + 3
    BY <1>2, <1>3
  <1> QED
    BY <1>4, <1>5

LEMMA HashIsNoByte == \A b : Hash(b) \in Nat /\ Hash(b) > 255
  BY DEF Hash

\* A canonical key object.
KeyOK(o) ==
  /\ o.k \in Levels
  /\ o.secret \in [1 .. o.k * N -> Residues]
  /\ o.pk \in Seq(Int) /\ Len(o.pk) = PkLen(o.k)
  /\ \A n \in 1 .. VectorLen(o.k) : o.pk[n] \in Bytes
  /\ ml_kem_validate_pk(o.pk, o.k)
  /\ o.h = Hash(o.pk) /\ o.rho = o.pk[PkLen(o.k)] /\ o.z \in Int
  /\ o = [k |-> o.k, secret |-> o.secret, pk |-> o.pk, rho |-> o.rho, h |-> o.h, z |-> o.z]

\* The export of o, perhaps with zeros behind it.
Holds(b, o) ==
  /\ b \in Seq(Int) /\ Len(b) >= SkLen(o.k)
  /\ \A n \in 1 .. VectorLen(o.k) : b[n] = get_s_vector(o.secret)[n]
  /\ \A n \in 1 .. PkLen(o.k) : b[VectorLen(o.k) + n] = o.pk[n]
  /\ b[VectorLen(o.k) + PkLen(o.k) + 1] = o.h
  /\ b[VectorLen(o.k) + PkLen(o.k) + 2] = o.z
  /\ \A n \in SkLen(o.k) + 1 .. Len(b) : b[n] = 0

\* A secret key from elsewhere.
Foreign(b, l) ==
  /\ l \in Levels /\ b \in Seq(Int) /\ Len(b) = SkLen(l)
  /\ \A n \in 1 .. 2 * VectorLen(l) : b[n] \in Bytes

LEMMA ResiduesAreTwelve == Residues \subseteq Twelve
  <1> SUFFICES ASSUME NEW r \in Residues PROVE r \in Twelve
    OBVIOUS
  <1> QED
    BY DEF Residues, ML_KEM_Q, Twelve

LEMMA SecretPacked ==
  ASSUME NEW l \in Levels, NEW v \in [1 .. l * N -> Residues]
  PROVE  /\ get_s_vector(v) \in [1 .. VectorLen(l) -> Bytes]
         /\ convert_to_bytes_format(v) = get_s_vector(v)
         /\ \A j \in 1 .. l * N : Field(get_s_vector(v), j) = v[j]
  <1>1. l * N \in Nat /\ (l * N) % 2 = 0 /\ VectorLen(l) = (3 * (l * N)) \div 2
    BY Lengths
  <1>2. v \in [1 .. l * N -> Twelve]
    BY ResiduesAreTwelve
  <1> QED
    BY <1>1, <1>2, PackVector

LEMMA ParsedParts ==
  ASSUME NEW l \in Levels, NEW b \in Seq(Int), Len(b) >= SkLen(l)
  PROVE  LET o == Parsed(b, l)
         IN  /\ o = [k |-> o.k, secret |-> o.secret, pk |-> o.pk, rho |-> o.rho, h |-> o.h,
                     z |-> o.z]
             /\ o.k = l
             /\ o.secret \in [1 .. l * N -> Residues]
             /\ \A j \in 1 .. l * N : /\ Field(b, j) \in Twelve
                                      /\ o.secret[j] = ml_kem_ct_sub_if_ge(Field(b, j))
             /\ o.pk \in Seq(Int) /\ Len(o.pk) = PkLen(l)
             /\ \A n \in 1 .. PkLen(l) : o.pk[n] = b[VectorLen(l) + n]
             /\ o.rho = o.pk[PkLen(l)]
             /\ o.h = b[VectorLen(l) + PkLen(l) + 1] /\ o.z = b[VectorLen(l) + PkLen(l) + 2]
             /\ o.z \in Int
  <1> DEFINE vl == VectorLen(l)
             pl == PkLen(l)
             q == SubSeq(b, vl + 1, vl + pl)
             o == Parsed(b, l)
  <1>0. l * N \in Nat /\ (l * N) % 2 = 0 /\ vl = (3 * (l * N)) \div 2
    BY Lengths
  <1>1. vl \in Nat \ {0} /\ pl = vl + 1 /\ SkLen(l) = 2 * vl + 3
    BY Lengths
  <1> HIDE DEF vl, pl
  <1>2. \A m \in 1 .. 2 * vl + 3 : b[m] \in Int
    <2>1. Len(b) \in Nat /\ Len(b) >= 2 * vl + 3
      BY <1>1
    <2>2. ASSUME NEW m \in 1 .. 2 * vl + 3 PROVE b[m] \in Int
      <3>1. m \in 1 .. Len(b)
        BY <1>1, <2>1
      <3> QED
        BY <3>1, ElementOfSeq
    <2> QED
      BY <2>2
  <1>3. /\ q \in Seq(Int) /\ Len(q) = pl
        /\ \A n \in 1 .. pl : q[n] = b[vl + n]
    <2> DEFINE lo == vl + 1
               up == vl + pl
    <2>1. lo \in Int /\ up \in Int /\ lo <= up /\ up - lo + 1 = pl
      BY <1>1
    <2>2. \A m \in lo .. up : b[m] \in Int
      BY <1>1, <1>2
    <2>3. \A n \in 1 .. pl : lo + n - 1 = vl + n
      BY <1>1
    <2>4. q = SubSeq(b, lo, up)
      OBVIOUS
    <2> HIDE DEF lo, up, q
    <2>5. /\ q \in Seq(Int) /\ Len(q) = (IF lo <= up THEN up - lo + 1 ELSE 0)
          /\ \A n \in 1 .. up - lo + 1 : q[n] = b[lo + n - 1]
      BY <2>1, <2>2, <2>4, SubSeqProperties
    <2> QED
      BY <2>1, <2>3, <2>5
  <1>4. \A j \in 1 .. l * N : Field(b, j) \in Twelve
    <2>1. \A m \in 1 .. (3 * (l * N)) \div 2 : b[m] \in Int
      BY <1>0, <1>1, <1>2
    <2> QED
      BY <1>0, <2>1, FieldIsTwelve
  <1>5. o = [k |-> l, secret |-> unpack_s_vector(b, l), pk |-> q, rho |-> q[pl],
             h |-> b[vl + pl + 1], z |-> b[vl + pl + 2]]
    BY DEF Parsed, vl, pl
  <1>6. o.secret = [j \in 1 .. l * N |-> ml_kem_ct_sub_if_ge(Field(b, j))]
    BY <1>5 DEF unpack_s_vector
  <1> HIDE DEF q, o
  <1>7. o.secret \in [1 .. l * N -> Residues]
    BY <1>4, <1>6, SubIfGe
  <1>8. b[vl + pl + 2] \in Int
    BY <1>1, <1>2
  <1>9. /\ o = [k |-> o.k, secret |-> o.secret, pk |-> o.pk, rho |-> o.rho, h |-> o.h, z |-> o.z]
        /\ o.k = l /\ o.pk = q /\ o.rho = q[pl] /\ o.h = b[vl + pl + 1] /\ o.z = b[vl + pl + 2]
    BY <1>5
  <1> QED
    BY <1>3, <1>4, <1>6, <1>7, <1>8, <1>9 DEF o, vl, pl

Joins(q, r, s) ==
  /\ q \in Seq(Int) /\ Len(q) = Len(r) + Len(s)
  /\ \A n \in 1 .. Len(r) : q[n] = r[n]
  /\ \A n \in 1 .. Len(s) : q[Len(r) + n] = s[n]

LEMMA Joined ==
  ASSUME NEW r \in Seq(Int), NEW s \in Seq(Int)
  PROVE  Joins(r \o s, r, s)
  <1> DEFINE q == r \o s
             a == Len(r)
             b == Len(s)
  <1>1. a \in Nat /\ b \in Nat
    OBVIOUS
  <1>2. /\ q \in Seq(Int) /\ Len(q) = a + b
        /\ \A n \in 1 .. a + b : q[n] = IF n <= a THEN r[n] ELSE s[n - a]
    BY ConcatProperties
  <1> HIDE DEF a, b, q
  <1>3. \A n \in 1 .. a : q[n] = r[n]
    BY <1>1, <1>2
  <1>4. ASSUME NEW n \in 1 .. b PROVE q[a + n] = s[n]
    <2> DEFINE m == a + n
    <2>1. m \in 1 .. a + b /\ ~(m <= a) /\ m - a = n
      BY <1>1
    <2> HIDE DEF m
    <2>2. q[m] = s[n]
      BY <1>2, <2>1
    <2> QED
      BY <2>2 DEF m
  <1> QED
    BY <1>2, <1>3, <1>4 DEF a, b, q, Joins

LEMMA VectorIsSeq ==
  ASSUME NEW n \in Nat, NEW w \in [1 .. n -> Bytes]
  PROVE  w \in Seq(Int) /\ Len(w) = n
  <1>1. ASSUME NEW m \in 1 .. n PROVE w[m] \in Int
    <2>1. Bytes \subseteq Int
      BY DEF Bytes
    <2> QED
      BY <2>1
  <1>2. w = [m \in 1 .. n |-> w[m]]
    OBVIOUS
  <1> QED
    BY <1>1, <1>2

\* An export holds the object.
LEMMA ExportHolds ==
  ASSUME NEW o, KeyOK(o), NEW room \in Nat, room >= SkLen(o.k), NEW b,
         b = get_s_vector(o.secret) \o o.pk \o <<o.h, o.z>> \o [j \in 1 .. room - SkLen(o.k) |-> 0]
  PROVE  Holds(b, o) /\ Len(b) = room
  <1> DEFINE vl == VectorLen(o.k)
             w == get_s_vector(o.secret)
             c == w \o o.pk
             e == c \o <<o.h, o.z>>
             gap == room - SkLen(o.k)
             zeros == [j \in 1 .. gap |-> 0]
  <1>1. vl \in Nat \ {0} /\ PkLen(o.k) = vl + 1 /\ SkLen(o.k) = 2 * vl + 3
    BY Lengths DEF KeyOK
  <1>2. w \in Seq(Int) /\ Len(w) = vl
    <2>1. w \in [1 .. vl -> Bytes]
      BY SecretPacked DEF KeyOK
    <2> HIDE DEF w, vl
    <2> QED
      BY <1>1, <2>1, VectorIsSeq
  <1>3. o.pk \in Seq(Int) /\ Len(o.pk) = vl + 1
    BY <1>1 DEF KeyOK
  <1>4. <<o.h, o.z>> \in Seq(Int) /\ Len(<<o.h, o.z>>) = 2
    <2>1. o.h \in Int /\ o.z \in Int
      BY HashIsNoByte DEF KeyOK
    <2> QED
      BY <2>1
  <1>5. zeros \in Seq(Int) /\ Len(zeros) = gap /\ gap \in Nat
    <2>1. gap \in Nat
      BY <1>1
    <2> HIDE DEF gap
    <2> QED
      BY <2>1
  <1> HIDE DEF vl, w, c, e, zeros
  <1>6. /\ c \in Seq(Int) /\ Len(c) = 2 * vl + 1
        /\ \A n \in 1 .. vl : c[n] = w[n]
        /\ \A n \in 1 .. vl + 1 : c[vl + n] = o.pk[n]
    <2>1. /\ c \in Seq(Int) /\ Len(c) = vl + (vl + 1)
          /\ \A n \in 1 .. vl : c[n] = w[n]
          /\ \A n \in 1 .. vl + 1 : c[vl + n] = o.pk[n]
      <3>1. Joins(c, w, o.pk)
        BY <1>2, <1>3, Joined DEF c
      <3> QED
        BY <1>2, <1>3, <3>1 DEF Joins
    <2> QED
      BY <1>1, <2>1
  <1>7. /\ e \in Seq(Int) /\ Len(e) = 2 * vl + 3
        /\ \A n \in 1 .. 2 * vl + 1 : e[n] = c[n]
        /\ e[2 * vl + 1 + 1] = o.h /\ e[2 * vl + 1 + 2] = o.z
    <2>1. /\ e \in Seq(Int) /\ Len(e) = 2 * vl + 1 + 2
          /\ \A n \in 1 .. 2 * vl + 1 : e[n] = c[n]
          /\ \A n \in 1 .. 2 : e[2 * vl + 1 + n] = <<o.h, o.z>>[n]
      <3>1. Joins(e, c, <<o.h, o.z>>)
        BY <1>4, <1>6, Joined DEF e
      <3> QED
        BY <1>4, <1>6, <3>1 DEF Joins
    <2>2. 1 \in 1 .. 2 /\ 2 \in 1 .. 2 /\ 2 * vl + 1 + 2 = 2 * vl + 3
      BY <1>1
    <2> QED
      BY <2>1, <2>2
  <1>8. /\ b \in Seq(Int) /\ Len(b) = 2 * vl + 3 + gap
        /\ \A n \in 1 .. 2 * vl + 3 : b[n] = e[n]
        /\ \A n \in 1 .. gap : b[2 * vl + 3 + n] = zeros[n]
    <2>1. b = e \o zeros
      BY DEF w, c, e, zeros
    <2>2. Joins(b, e, zeros)
      BY <1>5, <1>7, <2>1, Joined
    <2> HIDE DEF gap
    <2> QED
      BY <1>5, <1>7, <2>2 DEF Joins
  <1>9. Len(b) = room /\ Len(b) >= SkLen(o.k)
    <2>1. 2 * vl + 3 + gap = room
      BY <1>1
    <2> QED
      BY <1>1, <1>8, <2>1
  <1>10. ASSUME NEW n \in 1 .. vl PROVE b[n] = w[n]
    <2>1. n \in 1 .. 2 * vl + 1 /\ n \in 1 .. 2 * vl + 3
      BY <1>1
    <2> QED
      BY <1>6, <1>7, <1>8, <2>1
  <1>11. ASSUME NEW n \in 1 .. vl + 1 PROVE b[vl + n] = o.pk[n]
    <2>1. vl + n \in 1 .. 2 * vl + 1 /\ vl + n \in 1 .. 2 * vl + 3
      BY <1>1
    <2> QED
      BY <1>6, <1>7, <1>8, <2>1
  <1>12. b[vl + (vl + 1) + 1] = o.h /\ b[vl + (vl + 1) + 2] = o.z
    <2>1. /\ vl + (vl + 1) + 1 = 2 * vl + 1 + 1 /\ vl + (vl + 1) + 2 = 2 * vl + 1 + 2
          /\ 2 * vl + 1 + 1 \in 1 .. 2 * vl + 3 /\ 2 * vl + 1 + 2 \in 1 .. 2 * vl + 3
      BY <1>1
    <2> QED
      BY <1>7, <1>8, <2>1
  <1>13. ASSUME NEW n \in 2 * vl + 3 + 1 .. Len(b) PROVE b[n] = 0
    <2> HIDE DEF gap
    <2>1. Len(b) = 2 * vl + 3 + gap
      BY <1>8
    <2> DEFINE m == n - (2 * vl + 3)
    <2>2. m \in 1 .. gap /\ 2 * vl + 3 + m = n
      <3>1. n \in 2 * vl + 3 + 1 .. 2 * vl + 3 + gap /\ vl \in Nat /\ gap \in Nat
        BY <1>1, <1>5, <2>1
      <3> QED
        BY ONLY <3>1
    <2> HIDE DEF m
    <2>3. b[2 * vl + 3 + m] = zeros[m] /\ zeros[m] = 0
      BY <1>8, <2>2 DEF zeros
    <2> QED
      BY <2>2, <2>3
  <1> QED
    BY <1>1, <1>8, <1>9, <1>10, <1>11, <1>12, <1>13 DEF Holds, vl, w

\* Two equal halves of packed fields, a seed, a hash and a seed.
LEMMA ReceivedForeign ==
  ASSUME NEW l \in Levels, NEW s \in [1 .. l * N -> Twelve], NEW t \in [1 .. l * N -> Twelve],
         NEW h \in Int, NEW b, b = get_s_vector(s) \o get_s_vector(t) \o <<7, h, 9>>
  PROVE  Foreign(b, l)
  <1> DEFINE vl == VectorLen(l)
             u == get_s_vector(s)
             w == get_s_vector(t)
             c == u \o w
  <1>1. /\ l * N \in Nat /\ (l * N) % 2 = 0 /\ vl = (3 * (l * N)) \div 2
    BY Lengths
  <1>2. vl \in Nat \ {0} /\ SkLen(l) = 2 * vl + 3
    BY Lengths
  <1>3. u \in [1 .. vl -> Bytes] /\ w \in [1 .. vl -> Bytes]
    BY <1>1, PackVector
  <1> HIDE DEF u, w, vl, c
  <1>4. u \in Seq(Int) /\ Len(u) = vl /\ w \in Seq(Int) /\ Len(w) = vl
    BY <1>2, <1>3, VectorIsSeq
  <1>5. <<7, h, 9>> \in Seq(Int) /\ Len(<<7, h, 9>>) = 3
    OBVIOUS
  <1>6. /\ c \in Seq(Int) /\ Len(c) = vl + vl
        /\ \A n \in 1 .. vl : c[n] = u[n]
        /\ \A n \in 1 .. vl : c[vl + n] = w[n]
    <2>1. Joins(c, u, w)
      BY <1>4, Joined DEF c
    <2> QED
      BY <1>4, <2>1 DEF Joins
  <1>7. /\ b \in Seq(Int) /\ Len(b) = vl + vl + 3
        /\ \A n \in 1 .. vl + vl : b[n] = c[n]
    <2>1. b = c \o <<7, h, 9>>
      BY DEF c, u, w
    <2>2. Joins(b, c, <<7, h, 9>>)
      BY <1>5, <1>6, <2>1, Joined
    <2> QED
      BY <1>5, <1>6, <2>2 DEF Joins
  <1>8. ASSUME NEW n \in 1 .. 2 * vl PROVE b[n] \in Bytes
    <2>1. CASE n <= vl
      <3>1. n \in 1 .. vl /\ n \in 1 .. vl + vl
        BY <1>2, <2>1
      <3>2. b[n] = u[n] /\ u[n] \in Bytes
        BY <1>3, <1>6, <1>7, <3>1
      <3> QED
        BY <3>2
    <2>2. CASE n > vl
      <3> DEFINE m == n - vl
      <3>1. m \in 1 .. vl /\ vl + m = n /\ n \in 1 .. vl + vl
        BY <1>2, <2>2
      <3> HIDE DEF m
      <3>2. b[n] = c[n] /\ c[vl + m] = w[m] /\ w[m] \in Bytes
        BY <1>3, <1>6, <1>7, <3>1
      <3> QED
        BY <3>1, <3>2
    <2> QED
      <3>1. n <= vl \/ n > vl
        BY <1>2
      <3> QED
        BY <2>1, <2>2, <3>1
  <1>9. Len(b) = SkLen(l)
    BY <1>2, <1>7
  <1> QED
    BY <1>7, <1>8, <1>9 DEF Foreign, vl

\* What was exported is parsed to the object it was made from.
LEMMA ParseOfExport ==
  ASSUME NEW o, KeyOK(o), NEW b, Holds(b, o)
  PROVE  Parsed(b, o.k) = o
  <1> DEFINE l == o.k
             vl == VectorLen(l)
             r == Parsed(b, l)
             w == get_s_vector(o.secret)
  <1>1. l \in Levels /\ b \in Seq(Int) /\ Len(b) >= SkLen(l)
    BY DEF KeyOK, Holds
  <1>2. vl \in Nat /\ PkLen(l) = vl + 1
    BY <1>1, Lengths
  <1>3. /\ r = [k |-> r.k, secret |-> r.secret, pk |-> r.pk, rho |-> r.rho, h |-> r.h, z |-> r.z]
        /\ r.k = l /\ r.secret \in [1 .. l * N -> Residues]
        /\ \A j \in 1 .. l * N : r.secret[j] = ml_kem_ct_sub_if_ge(Field(b, j))
        /\ r.pk \in Seq(Int) /\ Len(r.pk) = PkLen(l)
        /\ \A n \in 1 .. PkLen(l) : r.pk[n] = b[VectorLen(l) + n]
        /\ r.rho = r.pk[PkLen(l)]
        /\ r.h = b[VectorLen(l) + PkLen(l) + 1] /\ r.z = b[VectorLen(l) + PkLen(l) + 2]
    BY <1>1, ParsedParts
  <1> HIDE DEF r
  <1>4. r.pk = o.pk
    <2>1. o.pk \in Seq(Int) /\ Len(o.pk) = PkLen(l)
      BY DEF KeyOK
    <2>2. \A n \in 1 .. Len(r.pk) : r.pk[n] = o.pk[n]
      BY <1>3 DEF Holds
    <2> HIDE DEF l
    <2> QED
      BY <1>3, <2>1, <2>2, SeqEqual
  <1>5. r.secret = o.secret
    <2>1. l * N \in Nat /\ (l * N) % 2 = 0 /\ VectorLen(l) = (3 * (l * N)) \div 2
      BY <1>1, Lengths
    <2>2. o.secret \in [1 .. l * N -> Residues]
      BY DEF KeyOK
    <2>3. \A m \in 1 .. (3 * (l * N)) \div 2 : b[m] = w[m]
      BY <2>1 DEF Holds
    <2> HIDE DEF l, w
    <2>4. ASSUME NEW j \in 1 .. l * N PROVE r.secret[j] = o.secret[j]
      <3>1. Field(b, j) = Field(w, j)
        BY <2>1, <2>3, SameFields
      <3>2. Field(w, j) = o.secret[j]
        BY <1>1, <2>2, SecretPacked DEF w
      <3>3. o.secret[j] \in Residues /\ o.secret[j] \in Twelve
        BY <2>2, ResiduesAreTwelve
      <3>4. ml_kem_ct_sub_if_ge(o.secret[j]) = o.secret[j]
        BY <3>3, SubIfGe
      <3> QED
        BY <1>3, <3>1, <3>2, <3>4
    <2>5. r.secret = [j \in 1 .. l * N |-> r.secret[j]]
      BY <1>3
    <2>6. o.secret = [j \in 1 .. l * N |-> o.secret[j]]
      BY <2>2
    <2> QED
      BY <2>4, <2>5, <2>6
  <1>6. r.rho = o.rho /\ r.h = o.h /\ r.z = o.z
    BY <1>3, <1>4 DEF KeyOK, Holds
  <1>7. o = [k |-> l, secret |-> o.secret, pk |-> o.pk, rho |-> o.rho, h |-> o.h, z |-> o.z]
    BY DEF KeyOK
  <1>8. r = [k |-> l, secret |-> o.secret, pk |-> o.pk, rho |-> o.rho, h |-> o.h, z |-> o.z]
    BY <1>3, <1>4, <1>5, <1>6
  <1> QED
    BY <1>7, <1>8 DEF r

LEMMA OwnAccepted ==
  ASSUME NEW o, KeyOK(o)
  PROVE  Accepted(o)
  BY DEF KeyOK, Accepted

\* A longer length makes a zero of the padding the hash.
LEMMA PaddingRefused ==
  ASSUME NEW o, KeyOK(o), NEW b, Holds(b, o), NEW l \in Levels, Len(b) = SkLen(l),
         SkLen(l) # SkLen(o.k)
  PROVE  ~Accepted(Parsed(b, l))
  <1> DEFINE vl == VectorLen(l)
             vo == VectorLen(o.k)
             r == Parsed(b, l)
             at == vl + PkLen(l) + 1
  <1>1. o.k \in Levels /\ b \in Seq(Int) /\ Len(b) >= SkLen(o.k)
    BY DEF KeyOK, Holds
  <1>2. vl \in Nat /\ PkLen(l) = vl + 1 /\ SkLen(l) = 2 * vl + 3
    BY Lengths
  <1>3. vo \in Nat /\ SkLen(o.k) = 2 * vo + 3
    BY <1>1, Lengths
  <1>4. SkLen(o.k) < SkLen(l)
    <2> HIDE DEF vl, vo
    <2> QED
      BY <1>1, <1>2, <1>3
  <1>5. SkLen(o.k) + 1 < SkLen(l)
    BY <1>1, <1>4, Lengths
  <1>6. at \in SkLen(o.k) + 1 .. Len(b)
    <2>1. at = SkLen(l) - 1
      <3> HIDE DEF vl
      <3> QED
        BY <1>2
    <2> HIDE DEF at
    <2>2. SkLen(o.k) \in Nat /\ SkLen(l) \in Nat
      BY <1>2, <1>3
    <2> QED
      BY <1>5, <2>1, <2>2
  <1>7. b[at] = 0
    BY <1>6 DEF Holds
  <1>8. r.h = b[at]
    <2>1. Len(b) >= SkLen(l)
      <3> HIDE DEF vl
      <3> QED
        BY <1>2
    <2> QED
      BY <1>1, <2>1, ParsedParts
  <1> HIDE DEF r, at
  <1>9. Hash(r.pk) # r.h
    BY <1>7, <1>8, HashIsNoByte
  <1> QED
    BY <1>9 DEF Accepted, r

\* What is accepted from elsewhere is canonical.
LEMMA ForeignAccepted ==
  ASSUME NEW l, NEW b, Foreign(b, l), Accepted(Parsed(b, l))
  PROVE  KeyOK(Parsed(b, l))
  <1> DEFINE r == Parsed(b, l)
             vl == VectorLen(l)
  <1>1. l \in Levels /\ b \in Seq(Int) /\ Len(b) = SkLen(l)
    BY DEF Foreign
  <1>2. vl \in Nat /\ PkLen(l) = vl + 1 /\ SkLen(l) = 2 * vl + 3
    BY <1>1, Lengths
  <1>3. Len(b) >= SkLen(l)
    BY <1>1, <1>2
  <1>4. /\ r = [k |-> r.k, secret |-> r.secret, pk |-> r.pk, rho |-> r.rho, h |-> r.h, z |-> r.z]
        /\ r.k = l /\ r.secret \in [1 .. l * N -> Residues]
        /\ r.pk \in Seq(Int) /\ Len(r.pk) = PkLen(l)
        /\ \A n \in 1 .. PkLen(l) : r.pk[n] = b[vl + n]
        /\ r.rho = r.pk[PkLen(l)] /\ r.z \in Int
    BY <1>1, <1>3, ParsedParts
  <1>5. Accepted(r)
    OBVIOUS
  <1> HIDE DEF r, vl
  <1>6. ASSUME NEW n \in 1 .. vl PROVE r.pk[n] \in Bytes
    <2>1. n \in 1 .. PkLen(l) /\ vl + n \in 1 .. 2 * vl
      BY <1>2
    <2>2. b[vl + n] \in Bytes
      BY <2>1 DEF Foreign, vl
    <2> QED
      BY <1>4, <2>1, <2>2
  <1>7. KeyOK(r)
    BY <1>1, <1>4, <1>5, <1>6 DEF KeyOK, Accepted, vl
  <1> QED
    BY <1>7 DEF r

-----------------------------------------------------------------------------
(* The invariant *)

\* The buffer holds an export, or came from elsewhere, or is empty.
BufInv ==
  IF written # None
  THEN /\ KeyOK(written) /\ Holds(buf, written)
       /\ size \in {SkLen(written.k), Len(buf)} /\ \E l \in Levels : Len(buf) = SkLen(l)
  ELSE buf = <<>> \/ \E l \in Levels : Foreign(buf, l) /\ size = SkLen(l)

PeerInv ==
  peer # None =>
    /\ key # None
    /\ peer = [k |-> key.k, t |-> ml_kem_unpack_pk_t_u16(key.pk, key.k),
               rho |-> key.pk[PkLen(key.k)]]

CodecInv == (key # None => KeyOK(key)) /\ BufInv /\ PeerInv

LEMMA NoneIsNoKey ==
  ASSUME NEW o, KeyOK(o)
  PROVE  o # None
  <1>1. o.k \in {2, 3, 4}
    BY CodecAssumption DEF KeyOK
  <1>2. None.k = 0
    BY DEF None
  <1> QED
    BY <1>1, <1>2

LEMMA TriedVectors ==
  ASSUME NEW l, NEW S, NEW s \in Vectors(l, S)
  PROVE  s \in [1 .. l * N -> S]
  BY DEF Vectors

BufferFilled == buf # <<>>

\* What an import accepts is canonical, and the written object if there is one.
LEMMA ImportSound ==
  ASSUME CodecInv, BufferFilled, NEW l \in LevelOf(size), Accepted(Parsed(buf, l))
  PROVE  /\ KeyOK(Parsed(buf, l)) /\ (written # None => Parsed(buf, l) = written)
         /\ l \in Levels /\ buf \in Seq(Int) /\ Len(buf) >= SkLen(l)
  <1>1. l \in Levels /\ SkLen(l) = size
    BY DEF LevelOf
  <1>2. SkLen(l) \in Nat
    <2>1. VectorLen(l) \in Nat /\ SkLen(l) = 2 * VectorLen(l) + 3
      BY <1>1, Lengths
    <2> HIDE DEF CodecInv
    <2> QED
      BY <2>1
  <1>3. CASE written # None
    <2>1. KeyOK(written) /\ Holds(buf, written) /\ size \in {SkLen(written.k), Len(buf)}
      BY <1>3 DEF CodecInv, BufInv
    <2>2. SkLen(l) = SkLen(written.k)
      <3>1. CASE size = Len(buf) /\ SkLen(l) # SkLen(written.k)
        BY <1>1, <2>1, <3>1, PaddingRefused
      <3> QED
        BY <1>1, <2>1, <3>1
    <2>3. l = written.k
      <3>1. written.k \in Levels
        BY <2>1 DEF KeyOK
      <3> QED
        BY <1>1, <2>2, <3>1, Lengths
    <2>4. Parsed(buf, l) = written
      BY <2>1, <2>3, ParseOfExport
    <2> QED
      BY <1>1, <2>1, <2>3, <2>4 DEF Holds
  <1>4. CASE written = None
    <2>1. PICK m \in Levels : Foreign(buf, m) /\ size = SkLen(m)
      BY <1>4 DEF CodecInv, BufInv, BufferFilled
    <2>2. l = m
      BY <1>1, <2>1, Lengths
    <2>3. KeyOK(Parsed(buf, l))
      BY <2>1, <2>2, ForeignAccepted
    <2>4. buf \in Seq(Int) /\ Len(buf) = SkLen(l)
      BY <2>1, <2>2 DEF Foreign
    <2>5. Len(buf) >= SkLen(l)
      BY <1>2, <2>4
    <2> QED
      BY <1>1, <1>4, <2>3, <2>4, <2>5
  <1> QED
    BY <1>3, <1>4

-----------------------------------------------------------------------------
(* The actions *)

\* A generated key is canonical.
LEMMA GeneratedOK ==
  ASSUME NEW l \in Levels, NEW s \in [1 .. l * N -> Residues],
         NEW t \in [1 .. l * N -> Residues], NEW seed \in Int,
         NEW b, b = convert_to_bytes_format(t) \o <<seed>>
  PROVE  KeyOK([k |-> l, secret |-> s, pk |-> b, rho |-> seed, h |-> Hash(b), z |-> 9])
  <1> DEFINE vl == VectorLen(l)
             w == get_s_vector(t)
             o == [k |-> l, secret |-> s, pk |-> b, rho |-> seed, h |-> Hash(b), z |-> 9]
  <1>1. /\ l * N \in Nat /\ (l * N) % 2 = 0 /\ vl = (3 * (l * N)) \div 2
        /\ vl \in Nat /\ PkLen(l) = vl + 1
    BY Lengths
  <1>2. /\ w \in [1 .. vl -> Bytes] /\ convert_to_bytes_format(t) = w
        /\ \A j \in 1 .. l * N : Field(w, j) = t[j]
    BY SecretPacked
  <1> HIDE DEF vl, w
  <1>3. w \in Seq(Int) /\ Len(w) = vl
    BY <1>1, <1>2, VectorIsSeq
  <1>4. /\ b \in Seq(Int) /\ Len(b) = vl + 1
        /\ \A n \in 1 .. vl : b[n] = w[n]
        /\ b[vl + 1] = seed
    <2>1. <<seed>> \in Seq(Int) /\ Len(<<seed>>) = 1 /\ <<seed>>[1] = seed
      OBVIOUS
    <2>2. Joins(b, w, <<seed>>)
      BY <1>2, <1>3, <2>1, Joined
    <2>3. \A n \in 1 .. 1 : b[vl + n] = <<seed>>[n]
      BY <1>3, <2>1, <2>2 DEF Joins
    <2>4. b[vl + 1] = <<seed>>[1]
      <3>1. 1 \in 1 .. 1
        OBVIOUS
      <3> QED
        BY ONLY <2>3, <3>1
    <2> QED
      BY <1>3, <2>1, <2>2, <2>4 DEF Joins
  <1>5. ml_kem_validate_pk(b, l)
    <2> SUFFICES ASSUME NEW j \in 1 .. l * N PROVE Field(b, j) < ML_KEM_Q
      BY DEF ml_kem_validate_pk
    <2>1. \A m \in 1 .. (3 * (l * N)) \div 2 : b[m] = w[m]
      BY <1>1, <1>4
    <2>2. Field(b, j) = Field(w, j)
      <3>1. l * N \in Nat /\ (l * N) % 2 = 0
        BY <1>1
      <3> QED
        BY ONLY <2>1, <3>1, j \in 1 .. l * N, SameFields
    <2>3. Field(w, j) = t[j] /\ t[j] \in Residues
      BY <1>2
    <2>4. Field(b, j) \in Residues
      BY <2>2, <2>3
    <2>5. \A r \in Residues : r < ML_KEM_Q
      BY DEF Residues, ML_KEM_Q
    <2> QED
      BY ONLY <2>4, <2>5
  <1>6. \A n \in 1 .. vl : b[n] \in Bytes
    BY <1>2, <1>4
  <1>7. /\ o.k = l /\ o.secret = s /\ o.pk = b /\ o.rho = seed /\ o.h = Hash(b) /\ o.z = 9
        /\ o = [k |-> o.k, secret |-> o.secret, pk |-> o.pk, rho |-> o.rho, h |-> o.h, z |-> o.z]
    OBVIOUS
  <1> HIDE DEF o
  <1>8. /\ o.k \in Levels /\ o.secret \in [1 .. o.k * N -> Residues]
        /\ o.pk \in Seq(Int) /\ Len(o.pk) = PkLen(o.k)
        /\ \A n \in 1 .. VectorLen(o.k) : o.pk[n] \in Bytes
    BY <1>1, <1>4, <1>6, <1>7 DEF vl
  <1>9. ml_kem_validate_pk(o.pk, o.k)
    BY <1>5, <1>7
  <1>10. o.h = Hash(o.pk) /\ o.rho = o.pk[PkLen(o.k)] /\ o.z \in Int
    <2>1. PkLen(o.k) = vl + 1
      BY <1>1, <1>7
    <2> QED
      BY <1>4, <1>7, <2>1
  <1>11. KeyOK(o)
    BY <1>7, <1>8, <1>9, <1>10 DEF KeyOK
  <1> QED
    BY <1>11 DEF o

LEMMA ReverseIsVector ==
  ASSUME NEW n \in Nat, NEW S, NEW s \in [1 .. n -> S]
  PROVE  Reverse(s) \in [1 .. n -> S]
  <1>1. s = [j \in 1 .. n |-> s[j]] /\ \A j \in 1 .. n : s[j] \in S
    OBVIOUS
  <1>2. Len(s) = n
    BY <1>1
  <1>3. ASSUME NEW j \in 1 .. n PROVE (n - j) + 1 \in 1 .. n
    OBVIOUS
  <1>4. Reverse(s) = [j \in 1 .. n |-> s[(n - j) + 1]]
    BY <1>2 DEF Reverse
  <1>5. \A j \in 1 .. n : s[(n - j) + 1] \in S
    BY <1>1, <1>3
  <1> QED
    BY <1>4, <1>5

LEMMA GenerateStep ==
  ASSUME CodecInv, Generate
  PROVE  CodecInv'
  <1>1. PICK l \in Levels : \E s \in Vectors(l, Coefs) : \E t \in {s, Reverse(s)} :
          /\ key' = [k |-> l, secret |-> s, pk |-> convert_to_bytes_format(t) \o <<7>>, rho |-> 7,
                     h |-> Hash(convert_to_bytes_format(t) \o <<7>>), z |-> 9]
          /\ peer' = None
    BY DEF Generate
  <1>2. PICK s \in Vectors(l, Coefs) : \E t \in {s, Reverse(s)} :
          /\ key' = [k |-> l, secret |-> s, pk |-> convert_to_bytes_format(t) \o <<7>>, rho |-> 7,
                     h |-> Hash(convert_to_bytes_format(t) \o <<7>>), z |-> 9]
          /\ peer' = None
    BY <1>1
  <1>3. PICK t \in {s, Reverse(s)} :
          /\ key' = [k |-> l, secret |-> s, pk |-> convert_to_bytes_format(t) \o <<7>>, rho |-> 7,
                     h |-> Hash(convert_to_bytes_format(t) \o <<7>>), z |-> 9]
          /\ peer' = None
    BY <1>2
  <1>4. s \in [1 .. l * N -> Residues]
    <2>1. s \in [1 .. l * N -> Coefs]
      BY TriedVectors
    <2>2. Coefs \subseteq Residues
      BY CodecAssumption
    <2> QED
      BY <2>1, <2>2
  <1>5. t \in [1 .. l * N -> Residues]
    <2>1. l * N \in Nat
      BY Lengths
    <2>2. Reverse(s) \in [1 .. l * N -> Residues]
      BY <1>4, <2>1, ReverseIsVector
    <2> QED
      BY <1>4, <2>2
  <1>6. KeyOK(key')
    <2> DEFINE b == convert_to_bytes_format(t) \o <<7>>
    <2>1. KeyOK([k |-> l, secret |-> s, pk |-> b, rho |-> 7, h |-> Hash(b), z |-> 9])
      <3>1. 7 \in Int
        OBVIOUS
      <3> QED
        BY ONLY <1>4, <1>5, <3>1, l \in Levels, GeneratedOK
    <2> QED
      BY <1>3, <2>1
  <1>7. UNCHANGED <<buf, size, written>>
    BY DEF Generate
  <1> QED
    BY <1>3, <1>6, <1>7 DEF CodecInv, BufInv, PeerInv

LEMMA ExportStep ==
  ASSUME CodecInv, Export
  PROVE  CodecInv'
  <1>1. key # None /\ KeyOK(key) /\ written' = key /\ UNCHANGED <<key, peer>>
    BY DEF CodecInv, Export
  <1>2. PICK room \in {SkLen(m) : m \in Levels} :
          /\ room >= SkLen(key.k)
          /\ buf' = get_s_vector(key.secret) \o key.pk \o <<key.h, key.z>>
                      \o [j \in 1 .. room - SkLen(key.k) |-> 0]
          /\ size' \in {SkLen(key.k), room}
    BY DEF Export
  <1>3. PICK l \in Levels : room = SkLen(l)
    OBVIOUS
  <1>4. room \in Nat
    <2>1. VectorLen(l) \in Nat /\ SkLen(l) = 2 * VectorLen(l) + 3
      BY Lengths
    <2> QED
      BY <1>3, <2>1
  <1>5. Holds(buf', key) /\ Len(buf') = room
    BY <1>1, <1>2, <1>4, ExportHolds
  <1>6. BufInv'
    <2>1. /\ KeyOK(written') /\ Holds(buf', written') /\ written' # None
          /\ size' \in {SkLen(written'.k), Len(buf')} /\ \E m \in Levels : Len(buf') = SkLen(m)
      BY <1>1, <1>2, <1>3, <1>5
    <2> QED
      BY <2>1 DEF BufInv
  <1> QED
    BY <1>1, <1>6 DEF CodecInv, PeerInv

LEMMA ReceiveStep ==
  ASSUME CodecInv, Receive
  PROVE  CodecInv'
  <1>0. PICK l \in Levels : \E s \in Vectors(l, Fields) :
          \E t \in {s, Reverse(s)} \cup Vectors(l, {0}) :
            \E h \in {Hash(get_s_vector(t) \o <<7>>), 256} :
              buf' = get_s_vector(s) \o get_s_vector(t) \o <<7, h, 9>>
    BY DEF Receive
  <1>1. PICK s \in Vectors(l, Fields) :
          \E t \in {s, Reverse(s)} \cup Vectors(l, {0}) :
            \E h \in {Hash(get_s_vector(t) \o <<7>>), 256} :
              buf' = get_s_vector(s) \o get_s_vector(t) \o <<7, h, 9>>
    BY <1>0
  <1>2. PICK t \in {s, Reverse(s)} \cup Vectors(l, {0}) :
          \E h \in {Hash(get_s_vector(t) \o <<7>>), 256} :
            buf' = get_s_vector(s) \o get_s_vector(t) \o <<7, h, 9>>
    BY <1>1
  <1>3. PICK h \in {Hash(get_s_vector(t) \o <<7>>), 256} :
          buf' = get_s_vector(s) \o get_s_vector(t) \o <<7, h, 9>>
    BY <1>2
  <1>4. s \in [1 .. l * N -> Twelve]
    <2>1. Fields \subseteq Twelve
      BY CodecAssumption DEF Twelve
    <2> QED
      BY <2>1, TriedVectors
  <1>5. t \in [1 .. l * N -> Twelve]
    <2>1. l * N \in Nat
      BY Lengths
    <2>2. Reverse(s) \in [1 .. l * N -> Twelve]
      BY <1>4, <2>1, ReverseIsVector
    <2>3. ASSUME t \in Vectors(l, {0}) PROVE t \in [1 .. l * N -> Twelve]
      <3>1. t \in [1 .. l * N -> {0}]
        BY <2>3, TriedVectors
      <3>2. 0 \in Twelve
        BY DEF Twelve
      <3> QED
        BY <3>1, <3>2
    <2> QED
      BY <1>4, <2>2, <2>3
  <1>6. h \in Int
    BY HashIsNoByte
  <1>7. Foreign(buf', l)
    BY <1>3, <1>4, <1>5, <1>6, ReceivedForeign
  <1>8. size' = SkLen(l) /\ written' = None /\ UNCHANGED <<key, peer>>
    <2>1. size' = Len(buf') /\ written = None /\ UNCHANGED <<key, written, peer>>
      BY DEF Receive
    <2> QED
      BY <1>7, <2>1 DEF Foreign
  <1> QED
    BY <1>7, <1>8 DEF CodecInv, BufInv, PeerInv

LEMMA ImportStep ==
  ASSUME CodecInv, Import
  PROVE  CodecInv' /\ (written # None => key' = written)
  <1>1. BufferFilled /\ peer' = None /\ UNCHANGED <<buf, size, written>>
    BY DEF Import, BufferFilled
  <1>2. PICK l \in LevelOf(size) : Accepted(Parsed(buf, l)) /\ key' = Parsed(buf, l)
    BY DEF Import
  <1>3. KeyOK(key') /\ (written # None => key' = written)
    BY <1>1, <1>2, ImportSound
  <1> QED
    BY <1>1, <1>3 DEF CodecInv, BufInv, PeerInv

LEMMA RefuseStep ==
  ASSUME CodecInv, Refuse
  PROVE  CodecInv' /\ (written = None \/ size # SkLen(written.k))
  <1>1. /\ key = None /\ UNCHANGED <<key, peer>> /\ buf' = <<>> /\ written' = None
        /\ \A l \in LevelOf(size) : ~Accepted(Parsed(buf, l))
    BY DEF Refuse
  <1>2. CodecInv'
    BY <1>1 DEF CodecInv, BufInv, PeerInv
  <1>3. ASSUME written # None, size = SkLen(written.k) PROVE FALSE
    <2>1. KeyOK(written) /\ Holds(buf, written)
      BY <1>3 DEF CodecInv, BufInv
    <2>2. written.k \in LevelOf(size)
      <3>1. written.k \in Levels
        BY <2>1 DEF KeyOK
      <3> QED
        BY <1>3, <3>1 DEF LevelOf
    <2>3. Accepted(Parsed(buf, written.k))
      BY <2>1, ParseOfExport, OwnAccepted
    <2> QED
      BY <1>1, <2>2, <2>3
  <1> QED
    BY <1>2, <1>3

\* CodecInv is inductive.
LEMMA CodecStep ==
  ASSUME CodecInv, [CodecsNext]_codecVars
  PROVE  CodecInv'
  <1>1. CASE UNCHANGED vars
    BY <1>1 DEF CodecInv, BufInv, PeerInv, vars
  <1>2. CASE Next
    <2>1. CASE Generate
      BY <2>1, GenerateStep
    <2>2. CASE Export
      BY <2>2, ExportStep
    <2>3. CASE Receive
      BY <2>3, ReceiveStep
    <2>4. CASE Import
      BY <2>4, ImportStep
    <2>5. CASE Refuse
      BY <2>5, RefuseStep
    <2>6. CASE Publish
      BY <2>6 DEF CodecInv, BufInv, PeerInv, Publish
    <2>7. CASE Destroy
      BY <2>7 DEF CodecInv, BufInv, PeerInv, Destroy
    <2> QED
      BY <1>2, <2>1, <2>2, <2>3, <2>4, <2>5, <2>6, <2>7 DEF Next
  <1> QED
    BY <1>1, <1>2 DEF CodecsNext, codecVars, RunKeys, RunCiphertexts, RunCompression

\* In every behaviour the key object is canonical, the buffer is empty, an
\* export of the object remembered or a foreign key of a known length, and the
\* peer holds the fields of the public key (ml_kem.c:245-440).
THEOREM Invariance == CodecsSpec => []CodecInv
  <1>1. CodecsInit => CodecInv
    BY DEF CodecsInit, Init, CodecInv, BufInv, PeerInv
  <1>2. CodecInv /\ [CodecsNext]_codecVars => CodecInv'
    BY CodecStep
  <1> QED
    BY <1>1, <1>2, PTL DEF CodecsSpec

-----------------------------------------------------------------------------
(* The properties *)

LEMMA CanonicalObject ==
  ASSUME NEW o, KeyOK(o)
  PROVE  /\ o.k \in Levels /\ o.secret \in Seq(Residues) /\ Len(o.secret) = o.k * N
         /\ o.h = Hash(o.pk) /\ o.rho = o.pk[PkLen(o.k)]
  <1> DEFINE n == o.k * N
             s == o.secret
  <1>1. o.k \in Levels /\ s \in [1 .. n -> Residues] /\ o.h = Hash(o.pk) /\ o.rho = o.pk[PkLen(o.k)]
    BY DEF KeyOK
  <1>2. n \in Nat
    BY <1>1, Lengths
  <1> HIDE DEF n, s
  <1>3. s = [j \in 1 .. n |-> s[j]] /\ \A j \in 1 .. n : s[j] \in Residues
    BY <1>1
  <1>4. s \in Seq(Residues) /\ Len(s) = n
    BY <1>2, <1>3
  <1> QED
    BY <1>1, <1>4 DEF n, s

\* The fields of a canonical public key are residues, and packing them again
\* gives its bytes.
LEMMA PublicKeyRepacks ==
  ASSUME NEW o, KeyOK(o), NEW t, t = ml_kem_unpack_pk_t_u16(o.pk, o.k)
  PROVE  t \in Seq(Residues) /\ convert_to_bytes_format(t) \o <<o.pk[PkLen(o.k)]>> = o.pk
  <1> DEFINE n == o.k * N
             vl == VectorLen(o.k)
             w == get_s_vector(t)
             last == o.pk[PkLen(o.k)]
  <1>1. /\ n \in Nat /\ n % 2 = 0 /\ vl = (3 * n) \div 2 /\ vl \in Nat /\ PkLen(o.k) = vl + 1
        /\ o.k \in Levels
    BY Lengths DEF KeyOK
  <1>2. /\ o.pk \in Seq(Int) /\ Len(o.pk) = PkLen(o.k)
        /\ \A m \in 1 .. vl : o.pk[m] \in Bytes
        /\ \A j \in 1 .. n : Field(o.pk, j) < ML_KEM_Q
    BY DEF KeyOK, ml_kem_validate_pk
  <1>3. t = [j \in 1 .. n |-> Field(o.pk, j)]
    BY DEF ml_kem_unpack_pk_t_u16
  <1> HIDE DEF n, vl, w, last
  <1>4. \A m \in 1 .. (3 * n) \div 2 : o.pk[m] \in Bytes
    BY <1>1, <1>2
  <1>5. /\ t \in [1 .. n -> Twelve]
        /\ \A m \in 1 .. (3 * n) \div 2 : w[m] = o.pk[m]
    <2> DEFINE v == [j \in 1 .. n |-> Field(o.pk, j)]
    <2>1. /\ v \in [1 .. n -> Twelve]
          /\ \A m \in 1 .. (3 * n) \div 2 : get_s_vector(v)[m] = o.pk[m]
      BY <1>1, <1>4, RepackVector
    <2>2. v = t
      BY <1>3
    <2> HIDE DEF v
    <2> QED
      BY <2>1, <2>2 DEF w
  <1>6. t \in [1 .. n -> Residues]
    <2> SUFFICES ASSUME NEW j \in 1 .. n PROVE Field(o.pk, j) \in Residues
      BY <1>3
    <2>1. t[j] = Field(o.pk, j) /\ t[j] \in Twelve
      BY <1>3, <1>5
    <2>2. \A f \in Twelve : f < ML_KEM_Q => f \in Residues
      BY DEF Twelve, ML_KEM_Q, Residues
    <2> QED
      BY <1>2, <2>1, <2>2
  <1>7. t \in Seq(Residues)
    <2>1. t = [j \in 1 .. n |-> t[j]] /\ \A j \in 1 .. n : t[j] \in Residues
      BY <1>6
    <2> QED
      BY <1>1, <2>1
  <1>8. convert_to_bytes_format(t) = w /\ w \in Seq(Int) /\ Len(w) = vl
    <2>1. convert_to_bytes_format(t) = w /\ w \in [1 .. (3 * n) \div 2 -> Bytes]
      BY <1>1, <1>5, PackVector DEF w
    <2> QED
      BY <1>1, <2>1, VectorIsSeq
  <1>9. w \o <<last>> = o.pk
    <2>1. last \in Int
      BY <1>1, <1>2 DEF last
    <2>2. <<last>> \in Seq(Int) /\ Len(<<last>>) = 1 /\ <<last>>[1] = last
      BY <2>1
    <2> DEFINE r == w \o <<last>>
    <2>3. Joins(r, w, <<last>>)
      BY <1>8, <2>2, Joined
    <2> HIDE DEF r
    <2>4. /\ r \in Seq(Int) /\ Len(r) = vl + 1
          /\ \A m \in 1 .. vl : r[m] = w[m]
          /\ \A m \in 1 .. 1 : r[vl + m] = <<last>>[m]
      BY <1>8, <2>2, <2>3 DEF Joins
    <2>5. r[vl + 1] = last
      <3>1. 1 \in 1 .. 1
        OBVIOUS
      <3>2. r[vl + 1] = <<last>>[1]
        BY ONLY <2>4, <3>1
      <3> QED
        BY <2>2, <3>2
    <2>6. ASSUME NEW m \in 1 .. Len(r) PROVE r[m] = o.pk[m]
      <3>1. CASE m = vl + 1
        BY <1>1, <2>5, <3>1 DEF last
      <3>2. CASE m \in 1 .. vl
        <4>1. w[m] = o.pk[m]
          BY <1>1, <1>5, <3>2
        <4> QED
          BY <2>4, <3>2, <4>1
      <3> QED
        BY <1>1, <2>4, <3>1, <3>2
    <2>7. r = o.pk
      BY <1>1, <1>2, <2>4, <2>6, SeqEqual
    <2> QED
      BY <2>7 DEF r
  <1> QED
    BY <1>7, <1>8, <1>9 DEF last

\* A peer finds residues in the public key, those the bytes were made from, and
\* the seed behind them, in a key generated, restored or taken from elsewhere.
THEOREM PublicKeysReadable == CodecsSpec => []PublicKeyReadable
  <1>1. CodecInv => PublicKeyReadable
    <2> SUFFICES ASSUME CodecInv PROVE TypeOK /\ PeerSeesKey
      BY DEF PublicKeyReadable
    <2>1. key # None => KeyOK(key)
      BY DEF CodecInv
    <2>2. TypeOK
      BY <2>1, CanonicalObject DEF TypeOK
    <2>3. ASSUME peer # None
          PROVE  /\ peer.t \in Seq(Residues)
                 /\ convert_to_bytes_format(peer.t) \o <<peer.rho>> = key.pk
      <3>1. /\ KeyOK(key) /\ peer.t = ml_kem_unpack_pk_t_u16(key.pk, key.k)
            /\ peer.rho = key.pk[PkLen(key.k)]
        BY <2>1, <2>3 DEF CodecInv, PeerInv
      <3> QED
        BY <3>1, PublicKeyRepacks
    <2> QED
      BY <2>2, <2>3 DEF PeerSeesKey
  <1> QED
    BY <1>1, Invariance, PTL

\* The secret taken from a buffer is what its fields stand for, and is exported
\* as the same residues.
LEMMA ImportedSecret ==
  ASSUME CodecInv, Import, NEW j \in 1 .. key'.k * N
  PROVE  /\ key'.secret[j] = Field(buf, j) % ML_KEM_Q
         /\ Field(get_s_vector(key'.secret), j) = key'.secret[j]
  <1>1. PICK l \in LevelOf(size) : Accepted(Parsed(buf, l)) /\ key' = Parsed(buf, l)
    BY DEF Import
  <1>2. l \in Levels /\ buf \in Seq(Int) /\ Len(buf) >= SkLen(l)
    <2>1. BufferFilled
      BY DEF Import, BufferFilled
    <2> QED
      BY <1>1, <2>1, ImportSound
  <1>3. /\ key'.k = l /\ key'.secret \in [1 .. l * N -> Residues]
        /\ \A i0 \in 1 .. l * N : /\ Field(buf, i0) \in Twelve
                                  /\ key'.secret[i0] = ml_kem_ct_sub_if_ge(Field(buf, i0))
    BY <1>1, <1>2, ParsedParts
  <1>4. j \in 1 .. l * N
    BY <1>3
  <1>5. key'.secret[j] = Field(buf, j) % ML_KEM_Q
    BY <1>3, <1>4, SubIfGe
  <1>6. Field(get_s_vector(key'.secret), j) = key'.secret[j]
    BY <1>2, <1>3, <1>4, SecretPacked
  <1> QED
    BY <1>5, <1>6

\* An import of an exported key gives the object exported, an import refuses an
\* export only for a length it was not written with, and the secret of any
\* import is made of residues that survive another export (ml_kem.c:245-440).
THEOREM ImportsRestore == CodecsSpec => ImportRestores
  <1>1. ASSUME CodecInv, [CodecsNext]_codecVars
        PROVE  [/\ Import /\ written # None => key' = written
                /\ Refuse => written = None \/ size # SkLen(written.k)
                /\ Import => \A j \in 1 .. key'.k * N :
                     /\ key'.secret[j] = Field(buf, j) % ML_KEM_Q
                     /\ Field(get_s_vector(key'.secret), j) = key'.secret[j]]_vars
    <2>1. Import /\ written # None => key' = written
      BY <1>1, ImportStep
    <2>2. Refuse => written = None \/ size # SkLen(written.k)
      BY <1>1, RefuseStep
    <2>3. Import => \A j \in 1 .. key'.k * N :
            /\ key'.secret[j] = Field(buf, j) % ML_KEM_Q
            /\ Field(get_s_vector(key'.secret), j) = key'.secret[j]
      BY <1>1, ImportedSecret
    <2> QED
      BY <2>1, <2>2, <2>3
  <1> QED
    BY <1>1, Invariance, PTL DEF CodecsSpec, ImportRestores

-----------------------------------------------------------------------------
(* Compression: products, quotients and powers *)

\* A product grows by its factor with every step.
LEMMA ProductGrows ==
  ASSUME NEW r \in Nat \ {0}, NEW a \in Int, NEW b \in Int, a < b
  PROVE  a * r + r <= b * r
  <1>1. (b - (a + 1)) * r >= 0 /\ (b - (a + 1)) * r \in Int
    <2> DEFINE e == b - (a + 1)
    <2>1. e \in Nat
      OBVIOUS
    <2> HIDE DEF e
    <2>2. e * r >= 0 /\ e * r \in Int
      BY SMT, <2>1
    <2> QED
      BY <2>2 DEF e
  <1>2. (b - (a + 1)) * r = b * r - (a * r + r)
    BY SMT
  <1>3. a * r \in Int /\ b * r \in Int
    BY SMT
  <1> QED
    BY SMT, <1>1, <1>2, <1>3

\* Quotient and remainder are determined by what they add up to.
LEMMA DivMod ==
  ASSUME NEW q \in Int, NEW r \in Nat \ {0}, NEW b \in 0 .. r - 1
  PROVE  (q * r + b) \div r = q /\ (q * r + b) % r = b
  <1> DEFINE n == q * r + b
             t == n \div r
             m == n % r
  <1>1. q * r \in Int /\ n \in Int
    OBVIOUS
  <1>2. t \in Int /\ m \in 0 .. r - 1 /\ n = t * r + m
    BY <1>1
  <1> HIDE DEF t, m
  <1>3. ~(t < q)
    <2> SUFFICES ASSUME t < q PROVE FALSE
      OBVIOUS
    <2>1. t * r + r <= q * r
      BY <1>2, ProductGrows
    <2>2. t * r \in Int
      BY <1>2
    <2> QED
      BY <1>1, <1>2, <2>1, <2>2
  <1>4. ~(q < t)
    <2> SUFFICES ASSUME q < t PROVE FALSE
      OBVIOUS
    <2>1. q * r + r <= t * r
      BY <1>2, ProductGrows
    <2>2. t * r \in Int
      BY <1>2
    <2> QED
      BY <1>1, <1>2, <2>1, <2>2
  <1>5. t = q
    BY <1>2, <1>3, <1>4
  <1>6. m = b
    BY <1>1, <1>2, <1>5
  <1> QED
    BY <1>5, <1>6 DEF t, m

LEMMA DivRem ==
  ASSUME NEW n \in Int, NEW r \in Nat \ {0}
  PROVE  n \div r \in Int /\ n % r \in 0 .. r - 1 /\ n = (n \div r) * r + (n % r)
  OBVIOUS

LEMMA Quotient0 ==
  ASSUME NEW r \in Nat \ {0}, NEW n \in 0 .. r - 1
  PROVE  n \div r = 0 /\ n % r = n
  <1>1. 0 * r + n = n /\ n \in Int
    OBVIOUS
  <1> QED
    BY <1>1, DivMod

\* A power of two, without its definition.
Pow(n) == 2^n

\* The powers of two up to the widths.
LEMMA Powers ==
  /\ 2^0 = 1 /\ 2^1 = 2 /\ 2^2 = 4 /\ 2^3 = 8 /\ 2^4 = 16 /\ 2^5 = 32 /\ 2^6 = 64
  /\ 2^7 = 128 /\ 2^8 = 256 /\ 2^9 = 512 /\ 2^10 = 1024 /\ 2^11 = 2048 /\ 2^12 = 4096
  OBVIOUS

\* The sum of the digits' products, carried, is the product's upper part.
LEMMA Reciprocal ==
  ASSUME NEW num \in Nat, num < 4096 * 1685
  PROVE  LET q0 == Compressing!QuotientApprox(num) IN
         q0 \in Nat /\ q0 * 3329 <= num /\ num <= q0 * 3329 + 3329
  <1> DEFINE n0 == num % 4096
             n1 == num \div 4096
             R == Compressing!RecipDigit
             column == [j \in 0 .. 4 |-> (IF j < 4 THEN n0 * R[j + 1] ELSE 0)
                                    + (IF j > 0 THEN n1 * R[j] ELSE 0)]
             c0 == column[0] \div 4096
             c1 == (column[1] + c0) \div 4096
             c2 == (column[2] + c1) \div 4096
             c3 == (column[3] + c2) \div 4096
             H(f) == f = [j \in 0 .. 3 |-> (column[j] + (IF j = 0 THEN 0 ELSE f[j - 1])) \div 4096]
  <1>1. /\ n0 \in 0 .. 4095 /\ n1 \in 0 .. 1700 /\ num = 4096 * n1 + n0
    BY SMT
  <1> HIDE DEF n0, n1
  <1>2. /\ column[0] = n0 * 2059 /\ column[1] = n0 * 2934 + n1 * 2059
        /\ column[2] = n0 * 943 + n1 * 2934 /\ column[3] = n0 + n1 * 943 /\ column[4] = n1
    <2>1. R[1] = 2059 /\ R[2] = 2934 /\ R[3] = 943 /\ R[4] = 1
      BY DEF Compressing!RecipDigit
    <2>2. 0 + 1 = 1 /\ 1 + 1 = 2 /\ 2 + 1 = 3 /\ 3 + 1 = 4
      OBVIOUS
    <2> HIDE DEF R
    <2>3. column[0] = n0 * R[1] + 0
      BY SMT, <2>2
    <2>4. column[1] = n0 * R[2] + n1 * R[1]
      BY SMT, <2>2
    <2>5. column[2] = n0 * R[3] + n1 * R[2]
      BY SMT, <2>2
    <2>6. column[3] = n0 * R[4] + n1 * R[3]
      BY SMT, <2>2
    <2>7. column[4] = 0 + n1 * R[4]
      BY SMT, <2>2
    <2> HIDE DEF column
    <2> QED
      BY SMT, <1>1, <2>1, <2>3, <2>4, <2>5, <2>6, <2>7
  <1> HIDE DEF R, column
  <1> DEFINE Splits(n, m) == m \in Nat /\ 4096 * m <= n /\ n < 4096 * m + 4096
  <1>3. /\ Splits(n0 * 2059, c0) /\ Splits(n0 * 2934 + n1 * 2059 + c0, c1)
        /\ Splits(n0 * 943 + n1 * 2934 + c1, c2) /\ Splits(n0 + n1 * 943 + c2, c3)
    <2>0. \A n \in Nat : Splits(n, n \div 4096)
      BY SMT
    <2> HIDE DEF Splits
    <2>1. Splits(n0 * 2059, c0)
      BY SMT, <1>1, <1>2, <2>0
    <2>2. c0 \in Nat
      BY <2>1 DEF Splits
    <2> HIDE DEF c0
    <2>3. Splits(n0 * 2934 + n1 * 2059 + c0, c1)
      BY SMT, <1>1, <1>2, <2>0, <2>2
    <2>4. c1 \in Nat
      BY <2>3 DEF Splits
    <2> HIDE DEF c1
    <2>5. Splits(n0 * 943 + n1 * 2934 + c1, c2)
      <3>1. column[2] + c1 = n0 * 943 + n1 * 2934 + c1 /\ column[2] + c1 \in Nat
        BY SMT, <1>1, <1>2, <2>4
      <3> QED
        BY <2>0, <3>1
    <2>6. c2 \in Nat
      BY <2>5 DEF Splits
    <2> HIDE DEF c2
    <2>7. Splits(n0 + n1 * 943 + c2, c3)
      BY SMT, <1>1, <1>2, <2>0, <2>6
    <2> QED
      BY <2>1, <2>3, <2>5, <2>7
  <1>4. \E f : H(f)
    <2> DEFINE g == [j \in 0 .. 3 |-> IF j = 0 THEN c0 ELSE IF j = 1 THEN c1
                                      ELSE IF j = 2 THEN c2 ELSE c3]
    <2>1. g[0] = c0 /\ g[1] = c1 /\ g[2] = c2 /\ g[3] = c3
      BY SMT
    <2>2. g = [j \in 0 .. 3 |-> (column[j] + (IF j = 0 THEN 0 ELSE g[j - 1])) \div 4096]
      <3>1. \A j \in 0 .. 3 : g[j] = (column[j] + (IF j = 0 THEN 0 ELSE g[j - 1])) \div 4096
        <4> TAKE j \in 0 .. 3
        <4>1. j = 0 \/ j = 1 \/ j = 2 \/ j = 3
          BY SMT
        <4>2. column[0] + 0 = column[0]
          BY SMT, <1>1, <1>2
        <4> HIDE DEF g
        <4> QED
          BY SMT, <2>1, <4>1, <4>2
      <3> QED
        BY SMT, <3>1
    <2> HIDE DEF g
    <2>3. H(g)
      BY <2>2
    <2> QED
      BY <2>3
  <1> DEFINE carry == CHOOSE f : H(f)
  <1>5. H(carry)
    BY SMT, <1>4
  <1>6. Compressing!QuotientApprox(num) = column[4] + carry[3]
    BY SMT DEF Compressing!QuotientApprox, column, R, n0, n1, Compressing!RecipDigit
  <1>7. carry[0] = c0 /\ carry[1] = c1 /\ carry[2] = c2 /\ carry[3] = c3
    <2> HIDE DEF carry
    <2>1. \A j \in 0 .. 3 : carry[j] = (column[j] + (IF j = 0 THEN 0 ELSE carry[j - 1])) \div 4096
      BY SMT, <1>5
    <2>2. carry[0] = c0
      BY SMT, <2>1, <1>1, <1>2
    <2>3. carry[1] = c1
      BY SMT, <2>1, <2>2
    <2>4. carry[2] = c2
      BY SMT, <2>1, <2>3
    <2> QED
      BY SMT, <2>1, <2>2, <2>3, <2>4
  <1>8. Compressing!QuotientApprox(num) = n1 + c3
    BY SMT, <1>2, <1>6, <1>7
  <1> HIDE DEF c0, c1, c2, c3
  <1> QED
    BY SMT, <1>1, <1>3, <1>8

\* So the quotient is that of the exact division, once corrected.
LEMMA QuotientExact ==
  ASSUME NEW num \in Nat, num < 4096 * 1685
  PROVE  LET q0 == Compressing!QuotientApprox(num) IN
         q0 + Compressing!NeedsInc(num, q0) = num \div 3329
  <1> DEFINE q0 == Compressing!QuotientApprox(num)
             e == Compressing!NeedsInc(num, q0)
  <1>1. q0 \in Nat /\ q0 * 3329 <= num /\ num <= q0 * 3329 + 3329
    BY Reciprocal
  <1> HIDE DEF q0
  <1>2. /\ (q0 + 1) * 3329 <= num => e = 1
        /\ ~((q0 + 1) * 3329 <= num) => e = 0
    BY DEF Compressing!NeedsInc, Compressing!ML_KEM_Q
  <1> HIDE DEF e
  <1>3. q0 + e \in Nat /\ (q0 + e) * 3329 <= num /\ num < (q0 + e) * 3329 + 3329
    BY SMT, <1>1, <1>2
  <1>4. q0 + e = num \div 3329
    <2> DEFINE m == q0 + e
    <2>1. m \in Nat /\ m * 3329 <= num /\ num < m * 3329 + 3329
      BY <1>3
    <2> HIDE DEF m
    <2>2. m = num \div 3329
      BY SMT, <2>1
    <2> QED
      BY <2>2 DEF m
  <1> QED
    BY <1>4 DEF q0, e

Widths == {4, 5, 10, 11}

\* The powers of two next to a width.
Half(w) == 2^(w - 1)
Twice(w) == 2^(w + 1)

\* The powers next to a width, case by case.
LEMMA WidthPowers ==
  ASSUME NEW w \in Widths
  PROVE  \/ w = 4 /\ Pow(w) = 16 /\ Half(w) = 8 /\ Twice(w) = 32
         \/ w = 5 /\ Pow(w) = 32 /\ Half(w) = 16 /\ Twice(w) = 64
         \/ w = 10 /\ Pow(w) = 1024 /\ Half(w) = 512 /\ Twice(w) = 2048
         \/ w = 11 /\ Pow(w) = 2048 /\ Half(w) = 1024 /\ Twice(w) = 4096
  <1>1. CASE w = 4
    <2>1. 4 - 1 = 3 /\ 4 + 1 = 5
      OBVIOUS
    <2> QED
      BY <1>1, <2>1, Powers DEF Pow, Half, Twice
  <1>2. CASE w = 5
    <2>1. 5 - 1 = 4 /\ 5 + 1 = 6
      OBVIOUS
    <2> QED
      BY <1>2, <2>1, Powers DEF Pow, Half, Twice
  <1>3. CASE w = 10
    <2>1. 10 - 1 = 9 /\ 10 + 1 = 11
      OBVIOUS
    <2> QED
      BY <1>3, <2>1, Powers DEF Pow, Half, Twice
  <1>4. CASE w = 11
    <2>1. 11 - 1 = 10 /\ 11 + 1 = 12
      OBVIOUS
    <2> QED
      BY <1>4, <2>1, Powers DEF Pow, Half, Twice
  <1> QED
    BY <1>1, <1>2, <1>3, <1>4 DEF Widths

LEMMA ResiduesAre == Residues = 0 .. 3328
  BY DEF Residues, ML_KEM_Q

\* A coefficient times a power stays below the bound of the reciprocal.
LEMMA Products ==
  ASSUME NEW c \in Residues, NEW w \in Widths
  PROVE  c * Pow(w) \in Nat /\ c * Pow(w) <= 3328 * Pow(w)
  <1>1. c \in Nat /\ c <= 3328
    BY ResiduesAre
  <1>2. Pow(w) \in {16, 32, 1024, 2048}
    BY WidthPowers
  <1> QED
    BY SMT, <1>1, <1>2

\* The rounded quotient, before it wraps.
Scaled(c, w) == (c * Pow(w) + 1664) \div 3329

\* Compression is the rounded quotient, wrapped.
LEMMA CompressIs ==
  ASSUME NEW c \in Residues, NEW w \in Widths
  PROVE  Compressing!ml_kem_compress(c, w) = Scaled(c, w) % Pow(w)
  <1>1. c \in Nat /\ c < 3329
    BY ResiduesAre
  <1>2. Pow(w) \in Nat /\ Pow(w) <= 2048
    BY WidthPowers
  <1>3. c * Pow(w) + 1664 \in Nat /\ c * Pow(w) + 1664 < 4096 * 1685
    <2>1. c * Pow(w) <= 3328 * Pow(w) /\ c * Pow(w) \in Nat
      BY Products
    <2> QED
      BY SMT, <1>2, <2>1
  <1> QED
    BY <1>3, QuotientExact DEF Compressing!ml_kem_compress, Compressing!ML_KEM_Q_HALF, Scaled, Pow

Gap(a, b) == IF a >= b THEN a - b ELSE a - b + 3329
Apart(a, b) == IF 2 * Gap(a, b) > 3329 THEN 3329 - Gap(a, b) ELSE Gap(a, b)

\* The distance on the circle without a remainder.
LEMMA DistanceIs ==
  ASSUME NEW a \in Residues, NEW b \in Residues
  PROVE  Compressing!Distance(a, b) = Apart(a, b)
  <1>1. (a - b) % 3329 = Gap(a, b)
    <2> DEFINE n == a - b
    <2>1. n \in Int /\ (a >= b => n \in 0 .. 3328) /\ (~(a >= b) => n + 3329 \in 0 .. 3328)
      BY ResiduesAre
    <2> HIDE DEF n
    <2>2. a >= b => n % 3329 = n
      BY <2>1, Quotient0
    <2>3. ~(a >= b) => n % 3329 = n + 3329
      <3>1. (-1) * 3329 + (n + 3329) = n
        BY <2>1
      <3> QED
        BY <2>1, <3>1, DivMod
    <2> QED
      BY <2>2, <2>3 DEF Gap, n
  <1> QED
    BY <1>1 DEF Compressing!Distance, Compressing!ML_KEM_Q, Apart

\* The compressed value before it wraps: the nearest, and at most Pow(w).
LEMMA Rounded ==
  ASSUME NEW c \in Residues, NEW w \in Widths
  PROVE  /\ Scaled(c, w) \in 0 .. Pow(w)
         /\ 3329 * Scaled(c, w) <= c * Pow(w) + 1664
         /\ c * Pow(w) <= 3329 * Scaled(c, w) + 1664
         /\ Scaled(c, w) # Pow(w) => Scaled(c, w) % Pow(w) = Scaled(c, w)
         /\ Scaled(c, w) = Pow(w) => Scaled(c, w) % Pow(w) = 0
  <1> DEFINE A == c * Pow(w)
             P == Pow(w)
             s == Scaled(c, w)
  <1>1. P \in {16, 32, 1024, 2048}
    BY WidthPowers
  <1>2. A \in Nat /\ A <= 3328 * P
    BY Products
  <1>3. s = (A + 1664) \div 3329
    BY DEF Scaled
  <1> HIDE DEF A, P, s
  <1>4. s \in Nat /\ 3329 * s <= A + 1664 /\ A + 1664 < 3329 * s + 3329
    BY SMT, <1>2, <1>3
  <1>5. s \in 0 .. P
    BY SMT, <1>1, <1>2, <1>4
  <1>6. s # P => s % P = s
    <2>1. P \in Nat \ {0} /\ (s # P => s \in 0 .. P - 1)
      BY <1>1, <1>5
    <2> QED
      BY <2>1, Quotient0
  <1>7. s = P => s % P = 0
    BY <1>1
  <1>8. A <= 3329 * s + 1664
    BY SMT, <1>2, <1>4
  <1> QED
    BY <1>4, <1>5, <1>6, <1>7, <1>8 DEF A, P, s

\* What a compressed value comes back as.
LEMMA Expanded ==
  ASSUME NEW w \in Widths, NEW y \in 0 .. Pow(w) - 1
  PROVE  /\ Compressing!ml_kem_decompress_one_coeff(y, w) \in Residues
         /\ Compressing!ml_kem_decompress_one_coeff(y, w) * Pow(w) <= y * 3329 + Half(w)
         /\ y * 3329 < Compressing!ml_kem_decompress_one_coeff(y, w) * Pow(w) + Half(w)
  <1> DEFINE P == Pow(w)
             H == Half(w)
             A == y * 3329 + H
             z == A \div P
  <1>1. z = Compressing!ml_kem_decompress_one_coeff(y, w)
    BY DEF Compressing!ml_kem_decompress_one_coeff, Compressing!ML_KEM_Q, Pow, Half
  <1>2. P \in {16, 32, 1024, 2048} /\ P = 2 * H /\ H \in Nat
    BY WidthPowers
  <1> HIDE DEF P, H
  <1>3. A \in Nat /\ A < 3329 * P
    BY SMT, <1>2 DEF P
  <1> HIDE DEF A
  <1>4. z \in Int /\ z * P <= A /\ A < z * P + P
    <2>1. z \in Int /\ A % P \in 0 .. P - 1 /\ A = z * P + (A % P) /\ z * P \in Int
      <3>1. A \in Int /\ P \in Nat \ {0}
        BY <1>2, <1>3
      <3> QED
        BY <3>1, DivRem
    <2> HIDE DEF z
    <2> QED
      BY <1>2, <1>3, <2>1
  <1> HIDE DEF z
  <1>5. z \in Residues
    <2>1. 0 <= z /\ z < 3329
      BY SMT, <1>2, <1>3, <1>4
    <2> QED
      BY SMT, <1>4, <2>1, ResiduesAre
  <1>6. z * P <= y * 3329 + H /\ y * 3329 < z * P + H
    <2>1. z * P \in Int /\ y \in Int
      BY <1>2, <1>4
    <2> QED
      BY <1>2, <1>4, <2>1 DEF A
  <1> QED
    BY <1>1, <1>5, <1>6 DEF P, H

\* Rounding to the nearest, for the odd divisor q.
LEMMA NearestIs ==
  ASSUME NEW A \in Nat
  PROVE  Compressing!Nearest(A, 3329) = (A + 1664) \div 3329
  <1> DEFINE n == (A + 1664) \div 3329
             b == (A + 1664) % 3329
  <1>1. n \in Int /\ b \in 0 .. 3328 /\ A + 1664 = n * 3329 + b
    BY SMT
  <1> HIDE DEF n, b
  <1>2. 2 * A + 3329 = n * 6658 + (2 * b + 1) /\ 2 * b + 1 \in 0 .. 6658 - 1 /\ 2 * 3329 = 6658
    BY SMT, <1>1
  <1>3. (n * 6658 + (2 * b + 1)) \div 6658 = n
    BY <1>1, <1>2, DivMod
  <1> QED
    BY <1>2, <1>3 DEF n, Compressing!Nearest

\* The parts of CompressionExact, for a coefficient and a width.
LEMMA CompressExactAt ==
  ASSUME NEW c \in Residues, NEW w \in Widths
  PROVE  Compressing!ml_kem_compress(c, w) = Compressing!Nearest(c * Pow(w), 3329) % Pow(w)
  <1>1. c * Pow(w) \in Nat
    BY Products
  <1>2. Compressing!Nearest(c * Pow(w), 3329) = Scaled(c, w)
    BY <1>1, NearestIs DEF Scaled
  <1> QED
    BY <1>2, CompressIs

LEMMA RoundTripIs ==
  ASSUME NEW c \in Residues, NEW w \in Widths
  PROVE  /\ Compressing!ml_kem_compress(c, w) \in 0 .. Pow(w) - 1
         /\ Compressing!Distance(Compressing!ml_kem_decompress_one_coeff(
                                   Compressing!ml_kem_compress(c, w), w), c)
               <= Compressing!Nearest(3329, Twice(w))
  <1> DEFINE s == Scaled(c, w)
             y == Compressing!ml_kem_compress(c, w)
             z == Compressing!ml_kem_decompress_one_coeff(y, w)
  <1>1. y = s % Pow(w)
    BY CompressIs
  <1>2. /\ s \in 0 .. Pow(w)
        /\ 3329 * s <= c * Pow(w) + 1664 /\ c * Pow(w) <= 3329 * s + 1664
        /\ s # Pow(w) => s % Pow(w) = s
        /\ s = Pow(w) => s % Pow(w) = 0
    BY Rounded
  <1> HIDE DEF s, y
  <1>3. y \in 0 .. Pow(w) - 1
    BY <1>1, <1>2, WidthPowers
  <1>4. /\ z \in Residues
        /\ z * Pow(w) <= y * 3329 + Half(w) /\ y * 3329 < z * Pow(w) + Half(w)
    BY <1>3, Expanded
  <1> HIDE DEF z
  <1>5. Compressing!Distance(z, c) = Apart(z, c)
    BY <1>4, DistanceIs
  <1>6. ASSUME w = 4 /\ Pow(w) = 16 /\ Half(w) = 8 /\ Twice(w) = 32
        PROVE  Compressing!Distance(z, c) <= Compressing!Nearest(3329, Twice(w))
    <2>1. Compressing!Nearest(3329, Twice(w)) = 104
      BY SMT, <1>6 DEF Compressing!Nearest
    <2>2. Apart(z, c) <= 104
      BY SMT, <1>1, <1>2, <1>4, <1>6, ResiduesAre DEF Apart, Gap
    <2> QED
      BY <1>5, <2>1, <2>2
  <1>7. ASSUME w = 5 /\ Pow(w) = 32 /\ Half(w) = 16 /\ Twice(w) = 64
        PROVE  Compressing!Distance(z, c) <= Compressing!Nearest(3329, Twice(w))
    <2>1. Compressing!Nearest(3329, Twice(w)) = 52
      BY SMT, <1>7 DEF Compressing!Nearest
    <2>2. Apart(z, c) <= 52
      BY SMT, <1>1, <1>2, <1>4, <1>7, ResiduesAre DEF Apart, Gap
    <2> QED
      BY <1>5, <2>1, <2>2
  <1>8. ASSUME w = 10 /\ Pow(w) = 1024 /\ Half(w) = 512 /\ Twice(w) = 2048
        PROVE  Compressing!Distance(z, c) <= Compressing!Nearest(3329, Twice(w))
    <2>1. Compressing!Nearest(3329, Twice(w)) = 2
      BY SMT, <1>8 DEF Compressing!Nearest
    <2>2. Apart(z, c) <= 2
      BY SMT, <1>1, <1>2, <1>4, <1>8, ResiduesAre DEF Apart, Gap
    <2> QED
      BY <1>5, <2>1, <2>2
  <1>9. ASSUME w = 11 /\ Pow(w) = 2048 /\ Half(w) = 1024 /\ Twice(w) = 4096
        PROVE  Compressing!Distance(z, c) <= Compressing!Nearest(3329, Twice(w))
    <2>1. Compressing!Nearest(3329, Twice(w)) = 1
      BY SMT, <1>9 DEF Compressing!Nearest
    <2>2. Apart(z, c) <= 1
      BY SMT, <1>1, <1>2, <1>4, <1>9, ResiduesAre DEF Apart, Gap
    <2> QED
      BY <1>5, <2>1, <2>2
  <1> QED
    BY <1>3, <1>6, <1>7, <1>8, <1>9, WidthPowers DEF y, z

LEMMA InvertsAt ==
  ASSUME NEW w \in Widths, NEW y \in 0 .. Pow(w) - 1
  PROVE  Compressing!ml_kem_compress(Compressing!ml_kem_decompress_one_coeff(y, w), w) = y
  <1> DEFINE z == Compressing!ml_kem_decompress_one_coeff(y, w)
             s == Scaled(z, w)
  <1>1. /\ z \in Residues
        /\ z * Pow(w) <= y * 3329 + Half(w) /\ y * 3329 < z * Pow(w) + Half(w)
    BY Expanded
  <1> HIDE DEF z
  <1>2. /\ s \in 0 .. Pow(w)
        /\ 3329 * s <= z * Pow(w) + 1664 /\ z * Pow(w) <= 3329 * s + 1664
        /\ s # Pow(w) => s % Pow(w) = s
    BY <1>1, Rounded
  <1>3. Compressing!ml_kem_compress(z, w) = s % Pow(w)
    BY <1>1, CompressIs
  <1> HIDE DEF s
  <1>4. s = y
    BY SMT, <1>1, <1>2, WidthPowers, ResiduesAre
  <1>5. s # Pow(w)
    BY SMT, <1>4, WidthPowers
  <1> QED
    BY <1>2, <1>3, <1>4, <1>5 DEF z

LEMMA DecodeAt ==
  ASSUME x \in Residues
  PROVE  Compressing!DecodeNearest
  <1>1. /\ Compressing!Distance(x, 1665) = Apart(x, 1665)
        /\ Compressing!Distance(x, 0) = Apart(x, 0)
    <2>1. 0 \in Residues /\ 1665 \in Residues
      BY ResiduesAre
    <2> QED
      BY <2>1, DistanceIs
  <1> QED
    BY SMT, <1>1, ResiduesAre DEF Compressing!DecodeNearest, Compressing!ml_kem_decode1_bit, Compressing!BorrowOut,
              Apart, Gap

-----------------------------------------------------------------------------
(* Bits *)

\* Each power doubles the one before, as far as the accumulator goes.
LEMMA Doubles ==
  /\ \A n \in 0 .. 17 : Pow(n + 1) = 2 * Pow(n)
  /\ \A n \in 0 .. 18 : Pow(n) \in Nat \ {0}
  <1>1. /\ 2^0 = 1 /\ 2^1 = 2 /\ 2^2 = 4 /\ 2^3 = 8 /\ 2^4 = 16 /\ 2^5 = 32 /\ 2^6 = 64
        /\ 2^7 = 128 /\ 2^8 = 256 /\ 2^9 = 512 /\ 2^10 = 1024 /\ 2^11 = 2048 /\ 2^12 = 4096
        /\ 2^13 = 8192 /\ 2^14 = 16384 /\ 2^15 = 32768 /\ 2^16 = 65536 /\ 2^17 = 131072
        /\ 2^18 = 262144
    BY SMT
  <1>2. /\ Pow(0) = 1 /\ Pow(1) = 2 /\ Pow(2) = 4 /\ Pow(3) = 8 /\ Pow(4) = 16 /\ Pow(5) = 32
        /\ Pow(6) = 64 /\ Pow(7) = 128 /\ Pow(8) = 256 /\ Pow(9) = 512 /\ Pow(10) = 1024
        /\ Pow(11) = 2048 /\ Pow(12) = 4096 /\ Pow(13) = 8192 /\ Pow(14) = 16384
        /\ Pow(15) = 32768 /\ Pow(16) = 65536 /\ Pow(17) = 131072 /\ Pow(18) = 262144
    BY SMT, <1>1 DEF Pow
  <1>3. \A n \in 0 .. 18 : Pow(n) \in Nat \ {0}
    BY SMT, <1>2
  <1>4. \A n \in 0 .. 17 : Pow(n + 1) = 2 * Pow(n)
    BY SMT, <1>2
  <1> QED
    BY <1>3, <1>4

\* Powers add their exponents: by as many steps as there are bits.
LEMMA PowSum == \A e \in 0 .. 18 : \A a \in 0 .. 18 - e : Pow(a + e) = Pow(a) * Pow(e)
  <1> DEFINE S(e) == \A a \in 0 .. 18 - e : Pow(a + e) = Pow(a) * Pow(e)
  <1>0. Pow(0) = 1 /\ \A n \in 0 .. 18 : Pow(n) \in Nat \ {0}
    BY Doubles, Powers DEF Pow
  <1>1. S(0)
    BY <1>0, SMT
  <1>2. \A e \in 0 .. 17 : S(e) => S(e + 1)
    <2> SUFFICES ASSUME NEW e \in 0 .. 17, S(e), NEW a \in 0 .. 18 - (e + 1)
                 PROVE  Pow(a + (e + 1)) = Pow(a) * Pow(e + 1)
      OBVIOUS
    <2>1. Pow(a + e) = Pow(a) * Pow(e) /\ a + e \in 0 .. 17 /\ a + (e + 1) = (a + e) + 1
      BY SMT
    <2>2. Pow(a + (e + 1)) = 2 * Pow(a + e) /\ Pow(e + 1) = 2 * Pow(e)
      BY <2>1, Doubles
    <2> QED
      BY SMT, <2>1, <2>2, <1>0
  <1> HIDE DEF S
  <1>3. /\ S(1) /\ S(2) /\ S(3) /\ S(4) /\ S(5) /\ S(6) /\ S(7) /\ S(8) /\ S(9)
        /\ S(10) /\ S(11) /\ S(12) /\ S(13) /\ S(14) /\ S(15) /\ S(16) /\ S(17) /\ S(18)
    BY SMT, <1>1, <1>2
  <1>4. \A e \in 0 .. 18 : S(e)
    BY SMT, <1>1, <1>3
  <1> QED
    BY <1>4 DEF S

Bit(word, n) == (word \div Pow(n)) % 2

LEMMA PowNat ==
  ASSUME NEW n \in 0 .. 18
  PROVE  Pow(n) \in Nat \ {0}
  BY Doubles

LEMMA PowPlus ==
  ASSUME NEW a \in 0 .. 18, NEW e \in 0 .. 18 - a
  PROVE  Pow(a + e) = Pow(a) * Pow(e)
  <1>1. e \in 0 .. 18 /\ a \in 0 .. 18 - e
    OBVIOUS
  <1> QED
    BY <1>1, PowSum

\* Adding above a bit leaves it.
LEMMA BitLow ==
  ASSUME NEW a \in 0 .. 18, NEW n \in 0 .. a - 1, NEW u \in Nat, NEW c \in Nat
  PROVE  Bit(u + c * Pow(a), n) = Bit(u, n)
  <1> DEFINE X == Pow(n)
             Z == Pow(a - n - 1)
             q == u \div X
             r == u % X
  <1>1. X \in Nat \ {0} /\ Z \in Nat \ {0}
    BY PowNat
  <1>2. Pow(a) = X * (2 * Z)
    <2>1. n + 1 \in 0 .. 18 /\ a - n - 1 \in 0 .. 18 - (n + 1) /\ n \in 0 .. 17
          /\ (n + 1) + (a - n - 1) = a
      OBVIOUS
    <2>2. Pow(a) = Pow(n + 1) * Z
      BY <2>1, PowPlus
    <2>3. Pow(n + 1) = 2 * X
      BY <2>1, Doubles
    <2> HIDE DEF X, Z
    <2> QED
      BY SMT, <1>1, <2>2, <2>3
  <1> HIDE DEF X, Z
  <1>3. q \in Int /\ r \in 0 .. X - 1 /\ u = q * X + r
    BY <1>1, DivRem
  <1> HIDE DEF q, r
  <1> DEFINE E == c * Z
  <1>4. E \in Nat /\ c * Pow(a) = X * (2 * E)
    BY SMT, <1>1, <1>2
  <1> HIDE DEF E
  <1>5. u + c * Pow(a) = (q + 2 * E) * X + r /\ q + 2 * E \in Int
    BY SMT, <1>1, <1>3, <1>4
  <1>6. u \div X = q
    BY <1>1, <1>3, DivMod
  <1>8. (u + c * Pow(a)) \div X = q + 2 * E
    <2> DEFINE f == q + 2 * E
    <2>1. f \in Int /\ u + c * Pow(a) = f * X + r
      BY <1>5
    <2> HIDE DEF f
    <2>2. (f * X + r) \div X = f
      BY <1>1, <1>3, <2>1, DivMod
    <2> QED
      BY <2>1, <2>2 DEF f
  <1>7. (q + 2 * E) % 2 = q % 2
    BY SMT, <1>3, <1>4
  <1> QED
    BY <1>6, <1>7, <1>8 DEF Bit, X

\* The bits of what was added above the others.
LEMMA BitHigh ==
  ASSUME NEW a \in 0 .. 18, NEW e \in 0 .. 18 - a, NEW u \in 0 .. Pow(a) - 1, NEW c \in Nat
  PROVE  Bit(u + c * Pow(a), a + e) = Bit(c, e)
  <1> DEFINE A == Pow(a)
             W == Pow(e)
             q == c \div W
             r == c % W
  <1>0. Pow(a + e) = A * W
    BY PowPlus
  <1>1. A \in Nat \ {0} /\ W \in Nat \ {0}
    BY PowNat
  <1> HIDE DEF A, W
  <1>2. q \in Int /\ r \in 0 .. W - 1 /\ c = q * W + r
    <2>1. c \in Int
      OBVIOUS
    <2> QED
      BY <1>1, <2>1, DivRem
  <1> HIDE DEF q, r
  <1>3. r * A + A <= W * A
    BY <1>1, <1>2, ProductGrows
  <1>4. u \in 0 .. A - 1
    BY DEF A
  <1>5. A * W \in Nat \ {0} /\ r * A \in Nat /\ W * A = A * W
    BY SMT, <1>1, <1>2
  <1>6. r * A + u \in 0 .. A * W - 1
    BY <1>1, <1>3, <1>4, <1>5
  <1>7. u + c * A = q * (A * W) + (r * A + u)
    BY SMT, <1>1, <1>2, <1>4
  <1>8. (u + c * A) \div (A * W) = q
    BY <1>2, <1>5, <1>6, <1>7, DivMod
  <1>9. c \div W = q
    BY DEF q
  <1> QED
    BY <1>0, <1>8, <1>9 DEF Bit, A, W

\* Division twice is division by the product.
LEMMA DivDiv ==
  ASSUME NEW n \in Int, NEW h \in Nat \ {0}, NEW m \in Nat \ {0}
  PROVE  (n \div h) \div m = n \div (h * m)
  <1> DEFINE q == n \div h
             r == n % h
             s == q \div m
             t == q % m
  <1>1. q \in Int /\ r \in 0 .. h - 1 /\ n = q * h + r
    BY DivRem
  <1> HIDE DEF q, r
  <1>2. s \in Int /\ t \in 0 .. m - 1 /\ q = s * m + t
    BY <1>1, DivRem
  <1> HIDE DEF s, t
  <1>3. t * h + h <= m * h
    BY <1>2, ProductGrows
  <1>4. h * m \in Nat \ {0} /\ t * h \in Nat /\ m * h = h * m
    BY SMT, <1>2
  <1>5. t * h + r \in 0 .. h * m - 1
    BY <1>1, <1>3, <1>4
  <1>6. n = s * (h * m) + (t * h + r)
    BY SMT, <1>1, <1>2
  <1>7. n \div (h * m) = s
    BY <1>2, <1>4, <1>5, <1>6, DivMod
  <1> QED
    BY <1>7 DEF s, q

\* Dropping the lowest bits, and keeping only these.
LEMMA BitDropped ==
  ASSUME NEW h \in 0 .. 18, NEW n \in 0 .. 18 - h, NEW u \in Nat
  PROVE  Bit(u \div Pow(h), n) = Bit(u, h + n)
  <1>1. Pow(h + n) = Pow(h) * Pow(n)
    BY PowPlus
  <1>2. Pow(h) \in Nat \ {0} /\ Pow(n) \in Nat \ {0} /\ u \in Int
    BY PowNat
  <1>3. (u \div Pow(h)) \div Pow(n) = u \div (Pow(h) * Pow(n))
    BY <1>2, DivDiv
  <1> QED
    BY <1>1, <1>3 DEF Bit

\* A bit below those cut off stays as it is.
LEMMA BitKept ==
  ASSUME NEW h \in 0 .. 18, NEW n \in 0 .. h - 1, NEW u \in Nat
  PROVE  Bit(u % Pow(h), n) = Bit(u, n)
  <1> DEFINE q == u \div Pow(h)
             r == u % Pow(h)
  <1>1. Pow(h) \in Nat \ {0}
    BY PowNat
  <1>2. q \in Int /\ r \in 0 .. Pow(h) - 1 /\ u = q * Pow(h) + r
    <2>1. u \in Int
      OBVIOUS
    <2> QED
      BY <1>1, <2>1, DivRem
  <1> HIDE DEF q, r
  <1>3. q \in Nat
    <2> SUFFICES ASSUME q < 0 PROVE FALSE
      BY <1>2
    <2>1. q * Pow(h) + Pow(h) <= 0 * Pow(h)
      BY <1>1, <1>2, ProductGrows
    <2>2. q * Pow(h) \in Int /\ 0 * Pow(h) = 0
      BY <1>1, <1>2
    <2> QED
      BY <1>1, <1>2, <2>1, <2>2
  <1>4. u = r + q * Pow(h) /\ r \in Nat
    <2>1. q * Pow(h) \in Nat
      BY <1>1, <1>3
    <2> QED
      BY <1>1, <1>2, <2>1
  <1>5. Bit(r + q * Pow(h), n) = Bit(r, n)
    BY <1>3, <1>4, BitLow
  <1> QED
    BY <1>4, <1>5 DEF r

\* Two numbers of w bits that agree in each of them are equal.
LEMMA SameBits ==
  ASSUME NEW w \in 0 .. 11, NEW y \in 0 .. Pow(w) - 1, NEW z \in 0 .. Pow(w) - 1,
         \A n \in 0 .. w - 1 : Bit(y, n) = Bit(z, n)
  PROVE  y = z
  <1> DEFINE Agree(n) == y \div Pow(n) = z \div Pow(n)
             At(n) == n <= w => Agree(n)
  <1>0. y \in Nat /\ z \in Nat /\ Pow(w) \in Nat \ {0}
    BY PowNat
  <1>1. Agree(w)
    BY <1>0, Quotient0
  <1>2. ASSUME NEW n \in 0 .. 10, n < w, Agree(n + 1)
        PROVE  Agree(n)
    <2> DEFINE u == y \div Pow(n)
               v == z \div Pow(n)
    <2>1. Pow(n) \in Nat \ {0} /\ Pow(n + 1) = Pow(n) * 2
      <3>1. n \in 0 .. 17 /\ n \in 0 .. 18
        OBVIOUS
      <3>2. Pow(n) \in Nat \ {0} /\ Pow(n + 1) = 2 * Pow(n)
        BY <3>1, Doubles
      <3> QED
        BY SMT, <3>2
    <2>2. y \div (Pow(n) * 2) = u \div 2 /\ z \div (Pow(n) * 2) = v \div 2
      <3>1. y \in Int /\ z \in Int /\ 2 \in Nat \ {0}
        BY <1>0
      <3> QED
        BY <2>1, <3>1, DivDiv
    <2>3. u % 2 = v % 2
      <3>1. n \in 0 .. w - 1
        BY <1>2
      <3> QED
        BY <3>1 DEF Bit
    <2>4. u \in Int /\ v \in Int
      <3>1. y \in Int /\ z \in Int
        BY <1>0
      <3> QED
        BY <2>1, <3>1, DivRem
    <2>5. u \div 2 = v \div 2
      BY <1>2, <2>1, <2>2
    <2> HIDE DEF u, v
    <2>6. u = v
      BY SMT, <2>3, <2>4, <2>5
    <2> QED
      BY <2>6 DEF u, v
  <1> HIDE DEF Agree
  <1>3. At(11)
    BY <1>1
  <1>4. \A n \in 0 .. 10, m \in 1 .. 11 : m = n + 1 /\ At(m) => At(n)
    BY <1>1, <1>2
  <1> HIDE DEF At
  <1>5. At(0)
    <2>1. /\ At(11) => At(10)
          /\ At(10) => At(9)
          /\ At(9) => At(8)
          /\ At(8) => At(7)
          /\ At(7) => At(6)
          /\ At(6) => At(5)
          /\ At(5) => At(4)
          /\ At(4) => At(3)
          /\ At(3) => At(2)
          /\ At(2) => At(1)
          /\ At(1) => At(0)
      BY SMT, <1>4
    <2> QED
      BY <1>3, <2>1
  <1>6. y \div Pow(0) = z \div Pow(0) /\ Pow(0) = 1
    BY <1>5, Powers DEF At, Agree, Pow
  <1> QED
    BY SMT, <1>0, <1>6
-----------------------------------------------------------------------------
(* The stream of a polynomial *)

Width(r) == Ciphertexts!PackWidth(k, r)

Coded(r, c) == Ciphertexts!ml_kem_compress(polys[r][c], Width(r))

\* Bit n of the compressed coefficients of polynomial r, the lowest first.
StreamBit(r, n) == Bit(Coded(r, n \div Width(r)), n % Width(r))

\* word holds as many bits of the stream, from bit n on.
HasBits(r, word, many, n) ==
  /\ word \in 0 .. Pow(many) - 1
  /\ \A e \in 0 .. many - 1 : Bit(word, e) = StreamBit(r, n + e)

\* Bits appended to an accumulator continue its part of the stream.
LEMMA Appended ==
  ASSUME NEW r, NEW u, NEW v, NEW a \in 0 .. 18, NEW b \in 0 .. 18 - a, NEW n \in Nat,
         HasBits(r, u, a, n), HasBits(r, v, b, n + a)
  PROVE  HasBits(r, u + v * Pow(a), a + b, n)
  <1>1. u \in 0 .. Pow(a) - 1 /\ v \in 0 .. Pow(b) - 1
    BY DEF HasBits
  <1>2. Pow(a) \in Nat \ {0} /\ Pow(b) \in Nat \ {0}
    BY PowNat
  <1>3. u \in Nat /\ v \in Nat
    BY <1>1, <1>2
  <1>4. u + v * Pow(a) \in 0 .. Pow(a + b) - 1
    <2>1. v * Pow(a) + Pow(a) <= Pow(b) * Pow(a)
      BY <1>1, <1>2, ProductGrows
    <2>2. Pow(a + b) = Pow(a) * Pow(b)
      BY PowPlus
    <2>3. Pow(a) * Pow(b) = Pow(b) * Pow(a) /\ v * Pow(a) \in Nat /\ Pow(b) * Pow(a) \in Nat
      BY SMT, <1>2, <1>3
    <2> QED
      BY <1>1, <1>2, <2>1, <2>2, <2>3
  <1>5. ASSUME NEW e \in 0 .. (a + b) - 1
        PROVE  Bit(u + v * Pow(a), e) = StreamBit(r, n + e)
    <2>1. CASE e < a
      <3>1. e \in 0 .. a - 1
        BY <2>1
      <3>2. Bit(u + v * Pow(a), e) = Bit(u, e)
        BY <1>3, <3>1, BitLow
      <3> QED
        BY <3>1, <3>2 DEF HasBits
    <2>2. CASE ~(e < a)
      <3> DEFINE f == e - a
      <3>1. f \in 0 .. b - 1 /\ f \in 0 .. 18 - a /\ e = a + f /\ n + e = (n + a) + f
        BY <2>2
      <3> HIDE DEF f
      <3>2. Bit(u + v * Pow(a), a + f) = Bit(v, f)
        BY <1>1, <1>3, <3>1, BitHigh
      <3> QED
        BY <3>1, <3>2 DEF HasBits
    <2> QED
      BY <2>1, <2>2
  <1> QED
    BY <1>4, <1>5 DEF HasBits

\* Bits taken from an accumulator are the front of its part of the stream.
LEMMA Dropped ==
  ASSUME NEW r, NEW u, NEW a \in 0 .. 18, NEW b \in 0 .. 18 - a, NEW n \in Nat,
         HasBits(r, u, a + b, n)
  PROVE  /\ HasBits(r, u % Pow(a), a, n)
         /\ HasBits(r, u \div Pow(a), b, n + a)
  <1>1. u \in 0 .. Pow(a + b) - 1 /\ Pow(a + b) = Pow(a) * Pow(b)
    BY PowPlus DEF HasBits
  <1>2. Pow(a) \in Nat \ {0} /\ Pow(b) \in Nat \ {0}
    BY PowNat
  <1>3. u \in Nat
    BY <1>1, <1>2
  <1>4. u % Pow(a) \in 0 .. Pow(a) - 1 /\ u \div Pow(a) \in Int
        /\ u = (u \div Pow(a)) * Pow(a) + (u % Pow(a))
    <2>1. u \in Int
      BY <1>3
    <2> QED
      BY <1>2, <2>1, DivRem
  <1>5. u \div Pow(a) \in 0 .. Pow(b) - 1
    <2> DEFINE q == u \div Pow(a)
    <2>0. q \in Int /\ q * Pow(a) \in Int /\ Pow(b) * Pow(a) = Pow(a) * Pow(b) /\ 0 * Pow(a) = 0
      BY SMT, <1>2, <1>4
    <2> DEFINE m == u % Pow(a)
    <2>9. m \in 0 .. Pow(a) - 1 /\ u = q * Pow(a) + m
      BY <1>4
    <2> HIDE DEF q, m
    <2>1. q * Pow(a) <= u /\ u < q * Pow(a) + Pow(a)
      BY <1>2, <1>3, <2>0, <2>9
    <2>2. ASSUME q < 0 PROVE FALSE
      <3>1. q * Pow(a) + Pow(a) <= 0 * Pow(a)
        BY <1>2, <2>0, <2>2, ProductGrows
      <3> QED
        BY <1>2, <1>3, <2>0, <2>1, <3>1
    <2>3. ASSUME Pow(b) <= q PROVE FALSE
      <3>1. Pow(b) - 1 < q /\ Pow(b) - 1 \in Int
        BY <1>2, <2>0, <2>3
      <3>2. (Pow(b) - 1) * Pow(a) + Pow(a) <= q * Pow(a)
        BY <1>2, <2>0, <3>1, ProductGrows
      <3>3. (Pow(b) - 1) * Pow(a) + Pow(a) = Pow(a) * Pow(b)
        BY SMT, <1>2
      <3>4. Pow(a) * Pow(b) \in Nat
        BY SMT, <1>2
      <3> QED
        BY <1>1, <1>3, <2>0, <2>1, <3>2, <3>3, <3>4
    <2> QED
      BY <1>2, <2>0, <2>2, <2>3 DEF q
  <1>6. ASSUME NEW e \in 0 .. a - 1
        PROVE  Bit(u % Pow(a), e) = StreamBit(r, n + e)
    <2>1. Bit(u % Pow(a), e) = Bit(u, e)
      BY <1>3, BitKept
    <2>2. e \in 0 .. (a + b) - 1
      OBVIOUS
    <2> QED
      BY <2>1, <2>2 DEF HasBits
  <1>7. ASSUME NEW e \in 0 .. b - 1
        PROVE  Bit(u \div Pow(a), e) = StreamBit(r, (n + a) + e)
    <2>1. e \in 0 .. 18 - a /\ a + e \in 0 .. (a + b) - 1 /\ (n + a) + e = n + (a + e)
      OBVIOUS
    <2>2. Bit(u \div Pow(a), e) = Bit(u, a + e)
      BY <1>3, <2>1, BitDropped
    <2> QED
      BY <2>1, <2>2 DEF HasBits
  <1> QED
    BY <1>4, <1>5, <1>6, <1>7 DEF HasBits

-----------------------------------------------------------------------------
(* The layout of a ciphertext *)

\* The bytes of a polynomial, and where they start.
StepLen(r) == Width(r) * (ML_KEM_N \div 8)
Start(r) == r * StepLen(0)

\* Both loops take the same width for a polynomial.
LEMMA WidthIs ==
  ASSUME k \in CiphertextLevels, NEW r \in 0 .. k
  PROVE  /\ k \in {2, 3, 4} /\ Width(r) \in Widths
         /\ Ciphertexts!UnpackWidth(k, r) = Width(r)
         /\ r < k => Width(r) = Width(0)
  <1>1. k \in {2, 3, 4}
    BY CodecsAssumption
  <1> QED
    BY <1>1 DEF Width, Widths, Ciphertexts!PackWidth, Ciphertexts!UnpackWidth

\* Polynomials follow each other without gap, and fill the ciphertext.
LEMMA Layout ==
  ASSUME k \in CiphertextLevels, NEW r \in 0 .. k
  PROVE  /\ StepLen(r) \in Nat \ {0} /\ 8 * StepLen(r) = ML_KEM_N * Width(r)
         /\ Ciphertexts!StepBytes(Width(r)) = StepLen(r)
         /\ Start(r) \in Nat /\ Start(0) = 0
         /\ r < k => StepLen(r) = StepLen(0) /\ Start(r + 1) = Start(r) + StepLen(r)
         /\ \A q \in 0 .. k : r < q => Start(r) + StepLen(r) <= Start(q)
         /\ Ciphertexts!ciphertext_len = Start(k) + StepLen(k)
  <1> DEFINE M == ML_KEM_N \div 8
  <1>1. ML_KEM_N = 8 * M /\ M \in Nat \ {0}
    BY CodecsAssumption
  <1> HIDE DEF M
  <1>2. k \in {2, 3, 4} /\ 0 \in 0 .. k /\ k \in 0 .. k
    BY CodecsAssumption
  <1>3. \A q \in 0 .. k : Width(q) \in Widths /\ (q < k => Width(q) = Width(0))
    BY WidthIs
  <1>4. \A q \in 0 .. k :
          /\ StepLen(q) \in Nat \ {0} /\ 8 * StepLen(q) = ML_KEM_N * Width(q)
          /\ (Width(q) * ML_KEM_N) \div 8 = StepLen(q)
    <2> SUFFICES ASSUME NEW q \in 0 .. k
                 PROVE  /\ StepLen(q) \in Nat \ {0} /\ 8 * StepLen(q) = ML_KEM_N * Width(q)
                        /\ (Width(q) * ML_KEM_N) \div 8 = StepLen(q)
      OBVIOUS
    <2> DEFINE w == Width(q)
    <2>1. w \in {4, 5, 10, 11}
      BY <1>3 DEF Widths
    <2> HIDE DEF w
    <2>2. /\ w * M \in Nat \ {0} /\ 8 * (w * M) = (8 * M) * w /\ (w * (8 * M)) \div 8 = w * M
      BY SMT, <1>1, <2>1
    <2> QED
      BY <1>1, <2>2 DEF w, StepLen, M
  <1>5. \A q \in 0 .. k : q < k => StepLen(q) = StepLen(0)
    BY <1>3 DEF StepLen
  <1> DEFINE L == StepLen(0)
  <1>6. L \in Nat \ {0}
    BY <1>2, <1>4
  <1>7. \A q \in 0 .. k : Start(q) = q * L
    BY DEF Start
  <1>8. Ciphertexts!StepBytes(Width(r)) = StepLen(r)
    BY <1>4 DEF Ciphertexts!StepBytes
  <1>9. Ciphertexts!ciphertext_len = Start(k) + StepLen(k)
    <2> DEFINE u == Width(0)
               v == Width(k)
    <2>1. u \in {4, 5, 10, 11} /\ v \in {4, 5, 10, 11}
      BY <1>2, <1>3 DEF Widths
    <2>2. Ciphertexts!ciphertext_len = ((k * u + v) * ML_KEM_N) \div 8
      BY DEF Ciphertexts!ciphertext_len, Width
    <2>3. Start(k) = k * (u * M) /\ StepLen(k) = v * M
      BY DEF Start, StepLen, M
    <2> HIDE DEF u, v
    <2>4. ((k * u + v) * (8 * M)) \div 8 = k * (u * M) + v * M
      BY SMT, <1>1, <1>2, <2>1
    <2> QED
      BY <1>1, <2>2, <2>3, <2>4
  <1> HIDE DEF L
  <1>10. r < k => Start(r + 1) = Start(r) + L /\ r + 1 \in 0 .. k
    BY SMT, <1>2, <1>6, <1>7
  <1>11. Start(r) \in Nat /\ Start(0) = 0
    BY SMT, <1>2, <1>6, <1>7
  <1>12. \A q \in 0 .. k : r < q => Start(r) + StepLen(r) <= Start(q)
    <2> SUFFICES ASSUME NEW q \in 0 .. k, r < q PROVE Start(r) + StepLen(r) <= Start(q)
      OBVIOUS
    <2>1. StepLen(r) = L
      BY <1>2, <1>5 DEF L
    <2>2. r * L + L <= q * L
      BY <1>2, <1>6, ProductGrows
    <2> QED
      BY <1>7, <2>1, <2>2
  <1> QED
    BY <1>4, <1>5, <1>8, <1>9, <1>10, <1>11, <1>12 DEF L

\* Both instances of Compression compute the same.
LEMMA SameCompress ==
  ASSUME NEW c, NEW w
  PROVE  /\ Ciphertexts!ml_kem_compress(c, w) = Compressing!ml_kem_compress(c, w)
         /\ Ciphertexts!ml_kem_decompress_one_coeff(c, w) = Compressing!ml_kem_decompress_one_coeff(c, w)
  BY DEF Ciphertexts!ml_kem_compress, Compressing!ml_kem_compress, Ciphertexts!QuotientApprox,
         Compressing!QuotientApprox, Ciphertexts!NeedsInc, Compressing!NeedsInc,
         Ciphertexts!RecipDigit, Compressing!RecipDigit, Ciphertexts!ML_KEM_Q, Compressing!ML_KEM_Q,
         Ciphertexts!ML_KEM_Q_HALF, Compressing!ML_KEM_Q_HALF,
         Ciphertexts!ml_kem_decompress_one_coeff, Compressing!ml_kem_decompress_one_coeff

-----------------------------------------------------------------------------
(* Packing *)

Reduced == \A r \in 0 .. k : \A c \in Ciphertexts!Coeffs : polys[r][c] \in Residues

\* The first bytes of polynomial r hold its stream.
OutBits(r, many, bytes) == \A b \in 0 .. many - 1 : HasBits(r, bytes[Start(r) + b], 8, 8 * b)

\* The first coefficients of polynomial r are what compression left of them.
Restored(r, many, coeffs) ==
  \A c \in 0 .. many - 1 :
    coeffs[r][c] = Ciphertexts!ml_kem_decompress_one_coeff(Coded(r, c), Width(r))

\* Whatever the step: the shapes, and where the cursor can be.
CtShape ==
  /\ side \in {"pack", "unpack", "done"} /\ k \in CiphertextLevels
  /\ p \in 0 .. k /\ i \in 0 .. ML_KEM_N /\ Reduced
  /\ DOMAIN ciphertext = 0 .. Ciphertexts!ciphertext_len - 1
  /\ \A o \in DOMAIN ciphertext : ciphertext[o] \in 0 .. 255
  /\ result \in [0 .. k -> [Ciphertexts!Coeffs -> Residues]]
  /\ pos = Start(p) /\ cursor \in pos .. pos + StepLen(p)
  /\ acc_bits \in 0 .. 7 /\ acc \in 0 .. Pow(acc_bits) - 1

\* The bytes out and the accumulator hold all coefficients so far, and nothing
\* else.
Packing ==
  side = "pack" =>
    /\ 8 * (cursor - pos) + acc_bits = i * Width(p)
    /\ HasBits(p, acc, acc_bits, 8 * (cursor - pos))
    /\ OutBits(p, cursor - pos, ciphertext)
    /\ \A r \in 0 .. p - 1 : OutBits(r, StepLen(r), ciphertext)

\* The accumulator holds what was read and is not yet taken.
Unpacking ==
  side = "unpack" =>
    /\ 8 * (cursor - pos) = i * Width(p) + acc_bits
    /\ HasBits(p, acc, acc_bits, i * Width(p))
    /\ \A r \in 0 .. k : OutBits(r, StepLen(r), ciphertext)
    /\ Restored(p, i, result)
    /\ \A r \in 0 .. p - 1 : Restored(r, ML_KEM_N, result)

Unpacked == side = "done" => \A r \in 0 .. k : Restored(r, ML_KEM_N, result)

CtInv == CtShape /\ Packing /\ Unpacking /\ Unpacked

\* A compressed coefficient is Width(r) bits of the stream.
LEMMA CoefficientBits ==
  ASSUME k \in CiphertextLevels, Reduced, NEW r \in 0 .. k, NEW c \in Ciphertexts!Coeffs
  PROVE  HasBits(r, Coded(r, c), Width(r), c * Width(r))
  <1> DEFINE w == Width(r)
  <1>1. w \in Widths
    BY WidthIs
  <1>2. w \in 1 .. 11 /\ c \in Nat
    BY <1>1, CodecsAssumption DEF Widths, Ciphertexts!Coeffs
  <1>3. Coded(r, c) \in 0 .. Pow(w) - 1
    <2>1. polys[r][c] \in Residues
      BY DEF Reduced
    <2> QED
      BY <1>1, <2>1, RoundTripIs, SameCompress DEF Coded
  <1>4. ASSUME NEW e \in 0 .. w - 1
        PROVE  Bit(Coded(r, c), e) = StreamBit(r, c * w + e)
    <2> HIDE DEF w
    <2>1. c \in Int /\ w \in Nat \ {0}
      BY <1>2
    <2>2. (c * w + e) \div w = c /\ (c * w + e) % w = e
      BY <2>1, DivMod
    <2> QED
      BY <2>2 DEF StreamBit, w
  <1> QED
    BY <1>3, <1>4 DEF HasBits

\* The lowest byte of a word is the front of its part of the stream.
LEMMA Byte ==
  ASSUME NEW r, NEW u, NEW many \in 8 .. 18, NEW n \in Nat, HasBits(r, u, many, n)
  PROVE  HasBits(r, u % 256, 8, n)
  <1>1. many - 8 \in 0 .. 18 - 8 /\ 8 + (many - 8) = many /\ 8 \in 0 .. 18
    OBVIOUS
  <1>2. HasBits(r, u % Pow(8), 8, n)
    BY <1>1, Dropped
  <1> QED
    BY <1>2, Powers DEF Pow

\* The bytes out leave a shorter accumulator; the coefficient extends it.
LEMMA PackStep ==
  ASSUME CtInv, Ciphertexts!PackCoefficient
  PROVE  CtInv'
  <1> DEFINE w == Width(p)
             out == cursor - pos
             word == acc + Coded(p, i) * Pow(acc_bits)
             m == (acc_bits + w) \div 8
             rest == acc_bits + w - 8 * m
             byte(b) == (word \div 256^b) % 256
  <1>0. CtShape /\ Packing /\ side = "pack" /\ i < ML_KEM_N
    BY DEF CtInv, Ciphertexts!PackCoefficient
  <1>1. /\ cursor' = cursor + m /\ acc' = word \div 256^m /\ acc_bits' = rest /\ i' = i + 1
        /\ ciphertext' = [o \in DOMAIN ciphertext |->
             IF o \in cursor .. cursor + m - 1 THEN byte(o - cursor) ELSE ciphertext[o]]
        /\ side' = side /\ k' = k /\ polys' = polys /\ p' = p /\ pos' = pos /\ result' = result
    BY DEF Ciphertexts!PackCoefficient, Ciphertexts!FlushCount, Ciphertexts!ByteOut, Width, Coded, Pow
  <1>2. w \in {4, 5, 10, 11} /\ p \in 0 .. k /\ k \in {2, 3, 4} /\ i \in 0 .. ML_KEM_N - 1
        /\ ML_KEM_N \in Nat /\ ML_KEM_N % 8 = 0
    BY <1>0, WidthIs, CodecsAssumption DEF CtShape, Widths
  <1>3. HasBits(p, Coded(p, i), w, i * w)
    BY <1>0, <1>2, CoefficientBits DEF CtShape, Ciphertexts!Coeffs
  <1>4. /\ StepLen(p) \in Nat /\ 8 * StepLen(p) = ML_KEM_N * w /\ Start(p) \in Nat
        /\ Ciphertexts!ciphertext_len = Start(k) + StepLen(k)
        /\ p < k => Start(p) + StepLen(p) <= Start(k)
        /\ Start(k) \in Nat /\ StepLen(k) \in Nat
    <2>1. k \in CiphertextLevels /\ k \in 0 .. k
      BY <1>0, <1>2 DEF CtShape
    <2> QED
      BY <1>2, <2>1, Layout
  <1>5. /\ pos = Start(p) /\ out \in Nat /\ cursor \in Nat /\ cursor = pos + out
        /\ acc_bits \in 0 .. 7 /\ 8 * out + acc_bits = i * w
        /\ HasBits(p, acc, acc_bits, 8 * out)
    <2>1. pos = Start(p) /\ cursor \in pos .. pos + StepLen(p) /\ acc_bits \in 0 .. 7
      BY <1>0 DEF CtShape
    <2>2. 8 * out + acc_bits = i * w /\ HasBits(p, acc, acc_bits, 8 * out)
      BY <1>0 DEF Packing
    <2>3. cursor \in Nat /\ out \in Nat /\ cursor = pos + out
      BY <1>4, <2>1
    <2> QED
      BY <2>1, <2>2, <2>3
  <1> HIDE DEF w, out
  <1>6. m \in 0 .. 2 /\ rest \in 0 .. 7 /\ acc_bits + w = 8 * m + rest /\ acc_bits + w \in 0 .. 18
    BY <1>2, <1>5
  <1>7. HasBits(p, word, acc_bits + w, 8 * out)
    <2>1. acc_bits \in 0 .. 18 /\ w \in 0 .. 18 - acc_bits /\ 8 * out \in Nat
      BY <1>2, <1>5
    <2>2. HasBits(p, Coded(p, i), w, 8 * out + acc_bits)
      BY <1>3, <1>5
    <2> QED
      BY <1>5, <2>1, <2>2, Appended
  <1> HIDE DEF word, m, rest
  <1>8. \A b \in 0 .. 2 : 256^b = Pow(8 * b)
    <2>1. 256^0 = 1 /\ 256^1 = 256 /\ 256^2 = 65536 /\ 2^0 = 1 /\ 2^8 = 256 /\ 2^16 = 65536
      BY SMT
    <2>2. Pow(8 * 0) = 1 /\ Pow(8 * 1) = 256 /\ Pow(8 * 2) = 65536
      BY <2>1 DEF Pow
    <2> SUFFICES ASSUME NEW b \in 0 .. 2 PROVE 256^b = Pow(8 * b)
      OBVIOUS
    <2>3. CASE b = 0
      BY <2>1, <2>2, <2>3
    <2>4. CASE b = 1
      BY <2>1, <2>2, <2>4
    <2>5. CASE b = 2
      BY <2>1, <2>2, <2>5
    <2> QED
      BY <2>3, <2>4, <2>5
  <1>9. \A b \in 0 .. m : HasBits(p, word \div 256^b, acc_bits + w - 8 * b, 8 * out + 8 * b)
    <2> SUFFICES ASSUME NEW b \in 0 .. m
                 PROVE  HasBits(p, word \div 256^b, acc_bits + w - 8 * b, 8 * out + 8 * b)
      OBVIOUS
    <2>1. /\ 8 * b \in 0 .. 18 /\ acc_bits + w - 8 * b \in 0 .. 18 - 8 * b /\ 8 * out \in Nat
          /\ 8 * b + (acc_bits + w - 8 * b) = acc_bits + w /\ b \in 0 .. 2
      BY <1>2, <1>5, <1>6
    <2>2. HasBits(p, word \div Pow(8 * b), acc_bits + w - 8 * b, 8 * out + 8 * b)
      BY <1>7, <2>1, Dropped
    <2> QED
      BY <1>8, <2>1, <2>2
  <1>10. \A b \in 0 .. m - 1 : HasBits(p, byte(b), 8, 8 * out + 8 * b)
    <2> SUFFICES ASSUME NEW b \in 0 .. m - 1 PROVE HasBits(p, byte(b), 8, 8 * out + 8 * b)
      OBVIOUS
    <2> DEFINE u == word \div 256^b
               many == acc_bits + w - 8 * b
    <2>1. b \in 0 .. m /\ many \in 8 .. 18 /\ 8 * out + 8 * b \in Nat
      BY <1>2, <1>5, <1>6
    <2>2. HasBits(p, u, many, 8 * out + 8 * b)
      BY <1>9, <2>1
    <2> HIDE DEF u, many
    <2>3. HasBits(p, u % 256, 8, 8 * out + 8 * b)
      BY <2>1, <2>2, Byte
    <2> QED
      BY <2>3 DEF u
  <1>11. HasBits(p, acc', rest, 8 * (out + m))
    <2>1. m \in 0 .. m /\ acc_bits + w - 8 * m = rest /\ 8 * out + 8 * m = 8 * (out + m)
      BY <1>2, <1>5, <1>6
    <2> QED
      BY <1>1, <1>9, <2>1
  <1>12. 8 * (out + m) + rest = (i + 1) * w
    BY SMT, <1>2, <1>5, <1>6
  <1>13. out + m \in 0 .. StepLen(p)
    <2>1. (i + 1) * w <= ML_KEM_N * w
      BY SMT, <1>2
    <2>2. (i + 1) * w \in Nat /\ ML_KEM_N * w \in Nat
      BY SMT, <1>2
    <2> QED
      BY <1>4, <1>5, <1>6, <1>12, <2>1, <2>2
  <1>14. \A o \in DOMAIN ciphertext : ciphertext'[o] \in 0 .. 255
    <2> SUFFICES ASSUME NEW o \in DOMAIN ciphertext PROVE ciphertext'[o] \in 0 .. 255
      OBVIOUS
    <2>1. CASE o \in cursor .. cursor + m - 1
      <3>1. o - cursor \in 0 .. m - 1
        BY <1>5, <1>6, <2>1
      <3>2. HasBits(p, byte(o - cursor), 8, 8 * out + 8 * (o - cursor))
        BY <1>10, <3>1
      <3>3. byte(o - cursor) \in 0 .. Pow(8) - 1
        <4> HIDE DEF byte
        <4> QED
          BY <3>2 DEF HasBits
      <3>4. Pow(8) - 1 = 255
        BY Powers DEF Pow
      <3> QED
        BY <1>1, <2>1, <3>3, <3>4
    <2>2. CASE o \notin cursor .. cursor + m - 1
      BY <1>0, <1>1, <2>2 DEF CtShape
    <2> QED
      BY <2>1, <2>2
  <1>15. /\ \A b \in 0 .. out - 1 : ciphertext'[Start(p) + b] = ciphertext[Start(p) + b]
         /\ \A b \in 0 .. m - 1 : ciphertext'[Start(p) + (out + b)] = byte(b)
    <2>1. \A b \in 0 .. out + m - 1 : Start(p) + b \in DOMAIN ciphertext
      <3>1. Start(p) + StepLen(p) <= Ciphertexts!ciphertext_len
        BY <1>2, <1>4
      <3>2. Ciphertexts!ciphertext_len \in Nat
        BY <1>4
      <3>3. DOMAIN ciphertext = 0 .. Ciphertexts!ciphertext_len - 1
        BY <1>0 DEF CtShape
      <3> DEFINE len == Ciphertexts!ciphertext_len
                 at == Start(p)
                 step == StepLen(p)
      <3>4. at + step <= len /\ len \in Nat /\ at \in Nat /\ step \in Nat /\ out + m \in 0 .. step
        BY <1>4, <1>13, <3>1, <3>2
      <3> HIDE DEF len, at, step
      <3>5. ASSUME NEW b \in 0 .. out + m - 1 PROVE at + b \in 0 .. len - 1
        BY <1>5, <1>6, <3>4
      <3> QED
        BY <3>3, <3>5 DEF at, len
    <2>2. ASSUME NEW b \in 0 .. out - 1
          PROVE  ciphertext'[Start(p) + b] = ciphertext[Start(p) + b]
      <3>1. b \in 0 .. out + m - 1 /\ Start(p) + b \notin cursor .. cursor + m - 1
        BY <1>4, <1>5, <1>6
      <3> QED
        BY <1>1, <2>1, <3>1
    <2>3. ASSUME NEW b \in 0 .. m - 1
          PROVE  ciphertext'[Start(p) + (out + b)] = byte(b)
      <3> DEFINE o == Start(p) + (out + b)
      <3>1. out + b \in 0 .. out + m - 1 /\ o \in cursor .. cursor + m - 1 /\ o - cursor = b
        BY <1>4, <1>5, <1>6
      <3>2. o \in DOMAIN ciphertext
        BY <2>1, <3>1
      <3> HIDE DEF o
      <3>3. ciphertext'[o] = byte(o - cursor)
        BY <1>1, <3>1, <3>2
      <3> QED
        BY <3>1, <3>3 DEF o
    <2> QED
      BY <2>2, <2>3
  <1>16. OutBits(p, out + m, ciphertext')
    <2> DEFINE InStream(b) == HasBits(p, ciphertext'[Start(p) + b], 8, 8 * b)
    <2>1. ASSUME NEW b \in 0 .. out - 1 PROVE InStream(b)
      <3>1. HasBits(p, ciphertext[Start(p) + b], 8, 8 * b)
        BY <1>0 DEF Packing, OutBits, out
      <3> QED
        BY <1>15, <3>1
    <2>2. ASSUME NEW e \in 0 .. m - 1 PROVE InStream(out + e)
      <3>1. 8 * (out + e) = 8 * out + 8 * e
        BY <1>5, <1>6
      <3> QED
        BY <1>10, <1>15, <3>1
    <2> HIDE DEF InStream
    <2>3. ASSUME NEW b \in 0 .. (out + m) - 1 PROVE InStream(b)
      <3>1. CASE b < out
        <4>1. b \in 0 .. out - 1
          BY <1>5, <1>6, <3>1
        <4> QED
          BY <2>1, <4>1
      <3>2. CASE ~(b < out)
        <4>1. b - out \in 0 .. m - 1 /\ b = out + (b - out)
          BY <1>5, <1>6, <3>2
        <4> QED
          BY <2>2, <4>1
      <3> QED
        BY <3>1, <3>2
    <2> QED
      BY <2>3 DEF OutBits, InStream
  <1>17. \A r \in 0 .. p - 1 : OutBits(r, StepLen(r), ciphertext')
    <2> SUFFICES ASSUME NEW r \in 0 .. p - 1, NEW b \in 0 .. StepLen(r) - 1
                 PROVE  HasBits(r, ciphertext'[Start(r) + b], 8, 8 * b)
      BY DEF OutBits
    <2>1. HasBits(r, ciphertext[Start(r) + b], 8, 8 * b)
      BY <1>0 DEF Packing, OutBits
    <2>2. /\ Start(r) \in Nat /\ StepLen(r) \in Nat
          /\ Start(r) + StepLen(r) <= Start(p)
      <3>1. k \in CiphertextLevels /\ r \in 0 .. k /\ r < p
        BY <1>0, <1>2 DEF CtShape
      <3> QED
        BY <1>2, <3>1, Layout
    <2>3. Start(r) + b \in 0 .. Ciphertexts!ciphertext_len - 1 /\ Start(r) + b < cursor
      <3>1. Start(p) + StepLen(p) <= Ciphertexts!ciphertext_len /\ Ciphertexts!ciphertext_len \in Nat
        BY <1>2, <1>4
      <3> QED
        BY <1>4, <1>5, <2>2, <3>1
    <2>4. ciphertext'[Start(r) + b] = ciphertext[Start(r) + b]
      <3>1. Start(r) + b \notin cursor .. cursor + m - 1 /\ Start(r) + b \in DOMAIN ciphertext
        BY <1>0, <1>5, <1>6, <2>2, <2>3 DEF CtShape
      <3> QED
        BY <1>1, <3>1
    <2> QED
      BY <2>1, <2>4
  <1>18. CtShape'
    <2>1. Reduced' /\ Start(p)' = Start(p) /\ StepLen(p)' = StepLen(p)
          /\ Ciphertexts!ciphertext_len' = Ciphertexts!ciphertext_len
      BY <1>0, <1>1 DEF CtShape, Reduced, Start, StepLen, Width, Ciphertexts!ciphertext_len
    <2>2. acc' \in 0 .. Pow(rest) - 1
      BY <1>11 DEF HasBits
    <2>3. cursor' \in pos .. pos + StepLen(p) /\ i' \in 0 .. ML_KEM_N
      BY <1>1, <1>2, <1>4, <1>5, <1>6, <1>13
    <2>4. DOMAIN ciphertext' = DOMAIN ciphertext
      BY <1>1
    <2> QED
      BY <1>0, <1>1, <1>6, <1>14, <2>1, <2>2, <2>3, <2>4 DEF CtShape
  <1>19. Packing'
    <2>1. cursor' - pos' = out + m
      BY <1>1, <1>4, <1>5, <1>6
    <2>2. /\ 8 * (cursor' - pos') + acc_bits' = i' * w
          /\ HasBits(p, acc', acc_bits', 8 * (cursor' - pos'))
          /\ OutBits(p, cursor' - pos', ciphertext')
      BY <1>1, <1>11, <1>12, <1>16, <2>1
    <2> QED
      BY <1>1, <1>17, <2>2
      DEF Packing, HasBits, OutBits, StreamBit, Coded, Width, Start, StepLen, w
  <1> QED
    BY <1>0, <1>1, <1>18, <1>19 DEF CtInv, Unpacking, Unpacked

\* A word of no bits is part of every stream.
LEMMA NoBits ==
  /\ \A r, n : HasBits(r, 0, 0, n)
  /\ \A r, bytes : OutBits(r, 0, bytes)
  /\ \A r, coeffs : Restored(r, 0, coeffs)
  <1>1. Pow(0) = 1
    BY Powers DEF Pow
  <1>2. 0 \in 0 .. 1 - 1 /\ \A e \in 0 .. 0 - 1 : FALSE
    OBVIOUS
  <1> QED
    BY <1>1, <1>2 DEF HasBits, OutBits, Restored

\* After the last coefficient nothing is left in the accumulator: the bits of a
\* polynomial are whole bytes.
LEMMA Drained ==
  ASSUME CtInv, side \in {"pack", "unpack"}, i = ML_KEM_N
  PROVE  acc_bits = 0 /\ acc = 0 /\ cursor = pos + StepLen(p)
  <1> DEFINE w == Width(p)
             step == StepLen(p)
             out == cursor - pos
  <1>0. CtShape
    BY DEF CtInv
  <1>1. step \in Nat /\ 8 * step = ML_KEM_N * w /\ Start(p) \in Nat
    BY <1>0, Layout DEF CtShape
  <1>2. 8 * out + acc_bits = ML_KEM_N * w \/ 8 * out = ML_KEM_N * w + acc_bits
    BY DEF CtInv, Packing, Unpacking
  <1>3. /\ pos = Start(p) /\ cursor \in Nat /\ out \in Nat /\ cursor = pos + out /\ acc_bits \in 0 .. 7
    BY <1>0, <1>1 DEF CtShape
  <1> HIDE DEF step, out
  <1> DEFINE bits == ML_KEM_N * w
  <1>4. 8 * step = bits /\ (8 * out + acc_bits = bits \/ 8 * out = bits + acc_bits)
    BY <1>1, <1>2
  <1> HIDE DEF bits
  <1>5. acc_bits = 0 /\ out = step
    BY SMT, <1>1, <1>3, <1>4
  <1>6. acc \in 0 .. Pow(0) - 1
    BY <1>0, <1>5 DEF CtShape
  <1>7. Pow(0) = 1
    BY Powers DEF Pow
  <1> QED
    BY <1>3, <1>5, <1>6, <1>7 DEF step

\* The next polynomial, or the receiver, starts with nothing in hand.
LEMMA PackNextStep ==
  ASSUME CtInv, Ciphertexts!PackNext
  PROVE  CtInv'
  <1>0. CtShape /\ Packing /\ side = "pack" /\ i = ML_KEM_N /\ p \in 0 .. k /\ k \in CiphertextLevels
        /\ k \in {2, 3, 4}
    BY CodecsAssumption DEF CtInv, CtShape, Ciphertexts!PackNext
  <1>1. /\ k' = k /\ polys' = polys /\ ciphertext' = ciphertext /\ result' = result
        /\ i' = 0 /\ acc' = 0 /\ acc_bits' = 0 /\ cursor' = pos'
    BY DEF Ciphertexts!PackNext, Ciphertexts!StartPolynomial
  <1>2. \A r \in 0 .. p : OutBits(r, StepLen(r), ciphertext)
    <2>1. cursor = pos + StepLen(p)
      BY <1>0, Drained
    <2>2. StepLen(p) \in Nat /\ pos \in Nat
      BY <1>0, Layout DEF CtShape
    <2>3. cursor - pos = StepLen(p)
      BY <2>1, <2>2
    <2>4. OutBits(p, StepLen(p), ciphertext)
      BY <1>0, <2>3 DEF Packing
    <2>5. \A r \in 0 .. p : r \in 0 .. p - 1 \/ r = p
      BY <1>0
    <2> QED
      BY <1>0, <2>4, <2>5 DEF Packing
  <1>3. p' \in 0 .. k /\ pos' = Start(p')
    <2>1. CASE p < k /\ p' = p + 1 /\ pos' = pos + Ciphertexts!StepBytes(Ciphertexts!PackWidth(k, 0))
      <3>1. 0 \in 0 .. k /\ p + 1 \in 0 .. k
        BY <1>0, <2>1
      <3>2. Ciphertexts!StepBytes(Width(0)) = StepLen(0)
        BY <1>0, <3>1, Layout
      <3>3. StepLen(p) = StepLen(0) /\ Start(p + 1) = Start(p) + StepLen(p)
        BY <1>0, <2>1, Layout
      <3> QED
        BY <1>0, <2>1, <3>1, <3>2, <3>3 DEF Width, CtShape
    <2>2. CASE p = k /\ p' = 0 /\ pos' = 0
      <3>1. 0 \in 0 .. k
        BY <1>0
      <3> QED
        BY <1>0, <2>2, <3>1, Layout
    <2> QED
      BY <2>1, <2>2 DEF Ciphertexts!PackNext, Ciphertexts!StartPolynomial
  <1>4. CtShape'
    <2>1. Reduced' /\ Start(p)' = Start(p') /\ StepLen(p)' = StepLen(p')
          /\ Ciphertexts!ciphertext_len' = Ciphertexts!ciphertext_len
      BY <1>0, <1>1 DEF CtShape, Reduced, Start, StepLen, Width, Ciphertexts!ciphertext_len
    <2>2. side' \in {"pack", "unpack", "done"}
      BY <1>0 DEF Ciphertexts!PackNext
    <2>3. StepLen(p') \in Nat /\ Start(p') \in Nat
      BY <1>0, <1>3, Layout
    <2>4. cursor' \in pos' .. pos' + StepLen(p')
      BY <1>1, <1>3, <2>3
    <2>5. i' \in 0 .. ML_KEM_N
      BY <1>1, CodecsAssumption
    <2>6. acc_bits' \in 0 .. 7 /\ acc' \in 0 .. Pow(0) - 1
      BY <1>1, NoBits DEF HasBits
    <2> QED
      BY <1>0, <1>1, <1>3, <2>1, <2>2, <2>4, <2>5, <2>6 DEF CtShape
  <1>5. 8 * (cursor' - pos') = 0 /\ 8 * (cursor' - pos') + acc_bits' = i' * Width(p')
        /\ 8 * (cursor' - pos') = i' * Width(p') + acc_bits'
        /\ cursor' - pos' = 0 /\ i' * Width(p') = 0
    <2>1. Width(p') \in {4, 5, 10, 11} /\ Start(p') \in Nat
      BY <1>0, <1>3, WidthIs, Layout DEF Widths
    <2> DEFINE w == Width(p')
    <2> HIDE DEF w
    <2>2. cursor' \in Nat /\ cursor' = pos' /\ i' = 0 /\ acc_bits' = 0 /\ w \in {4, 5, 10, 11}
      BY <1>1, <1>3, <2>1 DEF w
    <2>3. cursor' - pos' = 0
      <3>1. \A n \in Nat : n - n = 0
        OBVIOUS
      <3> QED
        BY <2>2, <3>1
    <2>4. i' * w = 0
      <3>1. 0 * w = 0
        BY <2>2
      <3> QED
        BY <2>2, <3>1
    <2>5. 8 * 0 = 0 /\ 0 + 0 = 0
      OBVIOUS
    <2> QED
      BY <2>2, <2>3, <2>4, <2>5 DEF w
  <1>6. Packing'
    <2>1. CASE side' = "pack"
      <3>1. p' = p + 1
        BY <1>0, <2>1 DEF Ciphertexts!PackNext, Ciphertexts!StartPolynomial
      <3>2. \A r \in 0 .. p' - 1 : OutBits(r, StepLen(r), ciphertext')
        BY <1>0, <1>1, <1>2, <3>1
      <3>3. HasBits(p', acc', acc_bits', 8 * (cursor' - pos')) /\ OutBits(p', cursor' - pos', ciphertext')
        BY <1>1, <1>5, NoBits
      <3> QED
        BY <1>1, <1>5, <3>2, <3>3
        DEF Packing, HasBits, OutBits, StreamBit, Coded, Width, Start, StepLen
    <2> QED
      BY <2>1 DEF Packing
  <1>7. Unpacking'
    <2>1. CASE side' = "unpack"
      <3>1. p = k /\ p' = 0
        BY <1>0, <2>1 DEF Ciphertexts!PackNext, Ciphertexts!StartPolynomial
      <3>2. \A r \in 0 .. k : OutBits(r, StepLen(r), ciphertext')
        BY <1>1, <1>2, <3>1
      <3>3. HasBits(p', acc', acc_bits', i' * Width(p')) /\ Restored(p', i', result')
        BY <1>1, <1>5, NoBits
      <3>4. \A r \in 0 .. p' - 1 : FALSE
        BY <3>1
      <3> QED
        BY <1>1, <1>5, <3>2, <3>3, <3>4
        DEF Unpacking, HasBits, OutBits, Restored, StreamBit, Coded, Width, Start, StepLen
    <2> QED
      BY <2>1 DEF Unpacking
  <1>8. Unpacked'
    BY <1>0 DEF Unpacked, Ciphertexts!PackNext
  <1> QED
    BY <1>4, <1>6, <1>7, <1>8 DEF CtInv

-----------------------------------------------------------------------------
(* Unpacking *)

\* The bytes taken into the accumulator: enough for a coefficient, and fewer
\* than a byte too many.
LEMMA Filling ==
  ASSUME NEW w \in {4, 5, 10, 11}, NEW many \in 0 .. 7
  PROVE  LET m == Ciphertexts!FillCount(many, w)
         IN  m \in 0 .. 2 /\ many + 8 * m - w \in 0 .. 7
  BY SMT DEF Ciphertexts!FillCount

\* What the recursion over the bytes comes to, for as many bytes as there can be.
LEMMA FilledIs ==
  ASSUME NEW m \in 0 .. 2, NEW v0 \in Nat, NEW v1 \in Nat, acc \in Nat, acc_bits \in 0 .. 7,
         cursor \in Nat, cursor + m <= Ciphertexts!ciphertext_len,
         Ciphertexts!ciphertext_len \in Nat,
         m >= 1 => v0 = ciphertext[cursor], m >= 2 => v1 = ciphertext[cursor + 1]
  PROVE  LET filled[j \in 0 .. m] == IF j = 0 THEN acc
               ELSE filled[j - 1] + (IF cursor + j - 1 < Ciphertexts!ciphertext_len
                                     THEN ciphertext[cursor + j - 1] ELSE 0)
                                      * 2^(acc_bits + 8 * (j - 1))
         IN  /\ m = 0 => filled[m] = acc
             /\ m = 1 => filled[m] = acc + v0 * Pow(acc_bits)
             /\ m = 2 => filled[m] = (acc + v0 * Pow(acc_bits)) + v1 * Pow(acc_bits + 8)
  <1> DEFINE g(j) == (IF cursor + j - 1 < Ciphertexts!ciphertext_len
                      THEN ciphertext[cursor + j - 1] ELSE 0) * 2^(acc_bits + 8 * (j - 1))
             H(h) == h = [j \in 0 .. m |-> IF j = 0 THEN acc ELSE h[j - 1] + g(j)]
             f == CHOOSE h : H(h)
             e == [j \in 0 .. m |-> IF j = 0 THEN acc ELSE IF j = 1 THEN acc + g(1)
                                    ELSE (acc + g(1)) + g(2)]
  <1>1. m >= 1 => g(1) = v0 * Pow(acc_bits)
    <2>1. cursor + 1 - 1 = cursor /\ acc_bits + 8 * (1 - 1) = acc_bits
      OBVIOUS
    <2>2. m >= 1 => cursor < Ciphertexts!ciphertext_len
      OBVIOUS
    <2> QED
      BY <2>1, <2>2 DEF Pow
  <1>2. m >= 2 => g(2) = v1 * Pow(acc_bits + 8)
    <2>1. cursor + 2 - 1 = cursor + 1 /\ acc_bits + 8 * (2 - 1) = acc_bits + 8
      OBVIOUS
    <2>2. m >= 2 => cursor + 1 < Ciphertexts!ciphertext_len
      OBVIOUS
    <2> QED
      BY <2>1, <2>2 DEF Pow
  <1> HIDE DEF g
  <1>3. H(e)
    <2>1. \A j \in 0 .. m : j = 0 \/ j = 1 \/ j = 2
      OBVIOUS
    <2>2. 0 \in 0 .. m /\ (m > 0 => 1 \in 0 .. m) /\ 1 - 1 = 0 /\ 2 - 1 = 1
      OBVIOUS
    <2>3. e[0] = acc /\ (1 \in 0 .. m => e[1] = acc + g(1)) /\ (2 \in 0 .. m => e[2] = (acc + g(1)) + g(2))
      BY SMT, <2>2
    <2>4. 2 \in 0 .. m => 1 \in 0 .. m
      OBVIOUS
    <2> HIDE DEF e
    <2>5. \A j \in 0 .. m : e[j] = IF j = 0 THEN acc ELSE e[j - 1] + g(j)
      <3> TAKE j \in 0 .. m
      <3>1. CASE j = 0
        BY <2>3, <3>1
      <3>2. CASE j = 1
        BY <2>2, <2>3, <3>2
      <3>3. CASE j = 2
        BY <2>2, <2>3, <2>4, <3>3
      <3> QED
        BY <2>1, <3>1, <3>2, <3>3
    <2>6. e = [j \in 0 .. m |-> IF j = 0 THEN acc ELSE e[j - 1] + g(j)]
      BY SMT, <2>5 DEF e
    <2> QED
      BY <2>6
  <1>4. H(f)
    <2>1. \E h : H(h)
      BY <1>3
    <2> QED
      BY SMT, <2>1
  <1> HIDE DEF f
  <1>5. \A j \in 0 .. m : f[j] = IF j = 0 THEN acc ELSE f[j - 1] + g(j)
    BY SMT, <1>4
  <1>6. f[0] = acc
    BY SMT, <1>5
  <1>7. m >= 1 => f[1] = acc + g(1)
    BY SMT, <1>5, <1>6
  <1>8. m >= 2 => f[2] = (acc + g(1)) + g(2)
    BY SMT, <1>5, <1>7
  <1>9. /\ m = 0 => f[m] = acc
        /\ m = 1 => f[m] = acc + v0 * Pow(acc_bits)
        /\ m = 2 => f[m] = (acc + v0 * Pow(acc_bits)) + v1 * Pow(acc_bits + 8)
    BY <1>1, <1>2, <1>6, <1>7, <1>8
  <1> QED
    BY <1>9 DEF f, g

\* The bytes taken in extend the accumulator; the coefficient leaves it.
LEMMA UnpackStep ==
  ASSUME CtInv, Ciphertexts!UnpackCoefficient
  PROVE  CtInv'
  <1> DEFINE w == Width(p)
             in == cursor - pos
             m == Ciphertexts!FillCount(acc_bits, w)
             rest == acc_bits + 8 * m - w
             n == i * w
             y == Coded(p, i)
             filled[j \in 0 .. m] == IF j = 0 THEN acc
               ELSE filled[j - 1] + (IF cursor + j - 1 < Ciphertexts!ciphertext_len
                                     THEN ciphertext[cursor + j - 1] ELSE 0)
                                      * 2^(acc_bits + 8 * (j - 1))
             word == filled[m]
  <1>0. CtShape /\ Unpacking /\ side = "unpack" /\ i < ML_KEM_N
    BY DEF CtInv, Ciphertexts!UnpackCoefficient
  <1>2. w \in {4, 5, 10, 11} /\ p \in 0 .. k /\ k \in {2, 3, 4} /\ i \in 0 .. ML_KEM_N - 1
        /\ ML_KEM_N \in Nat /\ k \in CiphertextLevels /\ Ciphertexts!UnpackWidth(k, p) = w
        /\ w \in Widths
    BY <1>0, WidthIs, CodecsAssumption DEF CtShape, Widths
  <1>1. /\ cursor' = cursor + m /\ acc' = word \div Pow(w) /\ acc_bits' = rest /\ i' = i + 1
        /\ result' = [result EXCEPT ![p][i] =
                        Ciphertexts!ml_kem_decompress_one_coeff(word % Pow(w), w)]
        /\ side' = side /\ k' = k /\ polys' = polys /\ p' = p /\ pos' = pos
        /\ ciphertext' = ciphertext
    BY <1>2 DEF Ciphertexts!UnpackCoefficient, Pow
  <1> HIDE DEF word
  <1>3. HasBits(p, y, w, n)
    BY <1>0, <1>2, CoefficientBits DEF CtShape, Ciphertexts!Coeffs
  <1>4. /\ StepLen(p) \in Nat /\ 8 * StepLen(p) = ML_KEM_N * w /\ Start(p) \in Nat
        /\ Ciphertexts!ciphertext_len \in Nat /\ Start(p) + StepLen(p) <= Ciphertexts!ciphertext_len
    <2>1. k \in 0 .. k
      BY <1>2
    <2>2. /\ StepLen(k) \in Nat /\ Start(k) \in Nat
          /\ Ciphertexts!ciphertext_len = Start(k) + StepLen(k)
      BY <1>2, <2>1, Layout
    <2>3. StepLen(p) \in Nat /\ 8 * StepLen(p) = ML_KEM_N * w /\ Start(p) \in Nat
          /\ (p < k => Start(p) + StepLen(p) <= Start(k))
      BY <1>2, <2>1, Layout
    <2>4. p < k \/ p = k
      BY <1>2
    <2> QED
      BY <2>2, <2>3, <2>4
  <1>5. /\ pos = Start(p) /\ in \in Nat /\ cursor \in Nat /\ cursor = pos + in
        /\ acc_bits \in 0 .. 7 /\ 8 * in = n + acc_bits /\ acc \in Nat
        /\ HasBits(p, acc, acc_bits, n) /\ OutBits(p, StepLen(p), ciphertext)
    <2>1. /\ pos = Start(p) /\ cursor \in pos .. pos + StepLen(p)
          /\ acc_bits \in 0 .. 7 /\ acc \in 0 .. Pow(acc_bits) - 1
      BY <1>0 DEF CtShape
    <2>2. Pow(acc_bits) \in Nat
      BY <2>1, PowNat
    <2>3. acc \in Nat
      BY <2>1, <2>2
    <2>4. in \in Nat /\ cursor \in Nat /\ cursor = pos + in
      BY <1>4, <2>1
    <2> QED
      BY <1>0, <1>2, <2>1, <2>3, <2>4 DEF Unpacking
  <1> HIDE DEF w, in
  <1>6. m \in 0 .. 2 /\ rest \in 0 .. 7 /\ acc_bits + 8 * m = w + rest /\ w + rest \in 0 .. 18
    <2>1. m \in 0 .. 2 /\ rest \in 0 .. 7
      BY <1>2, <1>5, Filling
    <2> HIDE DEF m
    <2> QED
      BY <1>2, <1>5, <2>1
  <1>7. n \in Nat /\ n + w = (i + 1) * w /\ n + w <= ML_KEM_N * w
    BY SMT, <1>2
  <1> HIDE DEF m, rest, n
  <1>8. in + m \in 0 .. StepLen(p)
    BY <1>2, <1>4, <1>5, <1>6, <1>7
  <1> DEFINE v(j) == ciphertext[cursor + j]
  <1>9. ASSUME NEW j \in 0 .. m - 1
        PROVE  HasBits(p, v(j), 8, n + acc_bits + 8 * j) /\ v(j) \in Nat
    <2>1. in + j \in 0 .. StepLen(p) - 1
      BY <1>4, <1>5, <1>6, <1>8
    <2>2. HasBits(p, ciphertext[Start(p) + (in + j)], 8, 8 * (in + j))
      BY <1>5, <2>1 DEF OutBits
    <2>3. Start(p) + (in + j) = cursor + j /\ 8 * (in + j) = n + acc_bits + 8 * j
      BY <1>4, <1>5, <1>6, <1>7
    <2>4. HasBits(p, v(j), 8, n + acc_bits + 8 * j)
      BY <2>2, <2>3
    <2> QED
      BY <2>4, Powers DEF HasBits, Pow
  <1> DEFINE v0 == IF m >= 1 THEN v(0) ELSE 0
             v1 == IF m >= 2 THEN v(1) ELSE 0
  <1>10. /\ m >= 1 => v0 = v(0) /\ HasBits(p, v0, 8, n + acc_bits)
         /\ m >= 2 => v1 = v(1) /\ HasBits(p, v1, 8, n + (acc_bits + 8))
         /\ v0 \in Nat /\ v1 \in Nat
    <2>1. ASSUME m >= 1 PROVE v0 = v(0) /\ v0 \in Nat /\ HasBits(p, v0, 8, n + acc_bits)
      <3>1. 0 \in 0 .. m - 1 /\ n + acc_bits + 8 * 0 = n + acc_bits
        BY <1>5, <1>6, <1>7, <2>1
      <3> QED
        BY <1>9, <2>1, <3>1
    <2>2. ASSUME m >= 2 PROVE v1 = v(1) /\ v1 \in Nat /\ HasBits(p, v1, 8, n + (acc_bits + 8))
      <3>1. 1 \in 0 .. m - 1 /\ n + acc_bits + 8 * 1 = n + (acc_bits + 8)
        BY <1>5, <1>6, <1>7, <2>2
      <3> QED
        BY <1>9, <2>2, <3>1
    <2> QED
      BY <2>1, <2>2
  <1>11. /\ m = 0 => word = acc
         /\ m = 1 => word = acc + v0 * Pow(acc_bits)
         /\ m = 2 => word = (acc + v0 * Pow(acc_bits)) + v1 * Pow(acc_bits + 8)
    <2>1. cursor + m <= Ciphertexts!ciphertext_len
      BY <1>4, <1>5, <1>6, <1>8
    <2>2. m >= 1 => v0 = ciphertext[cursor]
      BY <1>5, <1>10
    <2>3. m >= 2 => v1 = ciphertext[cursor + 1]
      BY <1>10
    <2> HIDE DEF v0, v1
    <2> QED
      BY <1>4, <1>5, <1>6, <1>10, <2>1, <2>2, <2>3, FilledIs DEF word
  <1> HIDE DEF v0, v1
  <1>12. HasBits(p, word, w + rest, n)
    <2>1. CASE m = 0
      <3>1. w + rest = acc_bits
        BY <1>2, <1>5, <1>6, <2>1
      <3> QED
        BY <1>5, <1>11, <2>1, <3>1
    <2>2. ASSUME m >= 1 PROVE HasBits(p, acc + v0 * Pow(acc_bits), acc_bits + 8, n)
      <3>1. acc_bits \in 0 .. 18 /\ 8 \in 0 .. 18 - acc_bits
        BY <1>5
      <3> QED
        BY <1>5, <1>7, <1>10, <2>2, <3>1, Appended
    <2>3. CASE m = 1
      <3>1. w + rest = acc_bits + 8 /\ m >= 1
        BY <1>2, <1>5, <1>6, <2>3
      <3> QED
        BY <1>11, <2>2, <2>3, <3>1
    <2>4. CASE m = 2
      <3>1. w + rest = (acc_bits + 8) + 8 /\ m >= 1 /\ m >= 2
        BY <1>2, <1>5, <1>6, <2>4
      <3>2. acc_bits + 8 \in 0 .. 18 /\ 8 \in 0 .. 18 - (acc_bits + 8)
        BY <1>5, <1>6, <3>1
      <3>3. HasBits(p, (acc + v0 * Pow(acc_bits)) + v1 * Pow(acc_bits + 8), (acc_bits + 8) + 8, n)
        BY <1>7, <1>10, <2>2, <3>1, <3>2, Appended
      <3> QED
        BY <1>11, <2>4, <3>1, <3>3
    <2>5. m = 0 \/ m = 1 \/ m = 2
      BY <1>6
    <2> QED
      BY <2>1, <2>3, <2>4, <2>5
  <1>13. /\ HasBits(p, word % Pow(w), w, n) /\ HasBits(p, word \div Pow(w), rest, n + w)
    <2>1. w \in 0 .. 18 /\ rest \in 0 .. 18 - w
      BY <1>2, <1>6
    <2> QED
      BY <1>7, <1>12, <2>1, Dropped
  <1>14. word % Pow(w) = y
    <2> DEFINE z == word % Pow(w)
    <2>1. HasBits(p, z, w, n)
      BY <1>13
    <2> HIDE DEF z, y
    <2>2. y \in 0 .. Pow(w) - 1 /\ z \in 0 .. Pow(w) - 1 /\ w \in 0 .. 11
      BY <1>2, <1>3, <2>1 DEF HasBits
    <2>3. \A e \in 0 .. w - 1 : Bit(z, e) = Bit(y, e)
      BY <1>3, <2>1 DEF HasBits
    <2> QED
      BY <2>2, <2>3, SameBits DEF z
  <1> DEFINE c == Ciphertexts!ml_kem_decompress_one_coeff(y, w)
  <1>15. result' = [result EXCEPT ![p][i] = c] /\ c \in Residues
    <2>1. y \in 0 .. Pow(w) - 1
      BY <1>3 DEF HasBits
    <2>2. Compressing!ml_kem_decompress_one_coeff(y, w) \in Residues
      BY <1>2, <2>1, Expanded DEF w
    <2> QED
      BY <1>1, <1>14, <2>2, SameCompress
  <1> HIDE DEF c
  <1>16. /\ result' \in [0 .. k -> [Ciphertexts!Coeffs -> Residues]]
         /\ result'[p][i] = c
         /\ \A r \in 0 .. k : \A j \in Ciphertexts!Coeffs :
              r # p \/ j # i => result'[r][j] = result[r][j]
    <2>1. result \in [0 .. k -> [Ciphertexts!Coeffs -> Residues]] /\ i \in Ciphertexts!Coeffs
      BY <1>0, <1>2 DEF CtShape, Ciphertexts!Coeffs
    <2> QED
      BY <1>2, <1>15, <2>1
  <1>17. Restored(p, i + 1, result')
    <2> DEFINE Right(j) == result'[p][j]
                 = Ciphertexts!ml_kem_decompress_one_coeff(Coded(p, j), Width(p))
    <2>1. ASSUME NEW j \in 0 .. i - 1 PROVE Right(j)
      <3>1. result[p][j] = Ciphertexts!ml_kem_decompress_one_coeff(Coded(p, j), Width(p))
        BY <1>0 DEF Unpacking, Restored
      <3>2. j \in Ciphertexts!Coeffs /\ j # i
        BY <1>2 DEF Ciphertexts!Coeffs
      <3> QED
        BY <1>2, <1>16, <3>1, <3>2
    <2>2. Right(i)
      BY <1>16 DEF c, w
    <2> HIDE DEF Right
    <2>3. \A j \in 0 .. (i + 1) - 1 : j \in 0 .. i - 1 \/ j = i
      BY <1>2
    <2>4. \A j \in 0 .. (i + 1) - 1 : Right(j)
      BY <2>1, <2>2, <2>3
    <2> QED
      BY <2>4 DEF Restored, Right
  <1>18. \A r \in 0 .. p - 1 : Restored(r, ML_KEM_N, result')
    <2> SUFFICES ASSUME NEW r \in 0 .. p - 1, NEW j \in 0 .. ML_KEM_N - 1
                 PROVE  result'[r][j]
                          = Ciphertexts!ml_kem_decompress_one_coeff(Coded(r, j), Width(r))
      BY DEF Restored
    <2>1. result[r][j] = Ciphertexts!ml_kem_decompress_one_coeff(Coded(r, j), Width(r))
      BY <1>0 DEF Unpacking, Restored
    <2>2. r \in 0 .. k /\ r # p /\ j \in Ciphertexts!Coeffs
      BY <1>2 DEF Ciphertexts!Coeffs
    <2> QED
      BY <1>16, <2>1, <2>2
  <1>19. CtShape'
    <2>1. Reduced' /\ Start(p)' = Start(p) /\ StepLen(p)' = StepLen(p)
          /\ Ciphertexts!ciphertext_len' = Ciphertexts!ciphertext_len
      BY <1>0, <1>1 DEF CtShape, Reduced, Start, StepLen, Width, Ciphertexts!ciphertext_len
    <2>2. acc' \in 0 .. Pow(rest) - 1
      BY <1>1, <1>13 DEF HasBits
    <2>3. cursor' \in pos .. pos + StepLen(p) /\ i' \in 0 .. ML_KEM_N
      BY <1>1, <1>2, <1>4, <1>5, <1>6, <1>8
    <2> QED
      BY <1>0, <1>1, <1>6, <1>16, <2>1, <2>2, <2>3 DEF CtShape
  <1>20. Unpacking'
    <2>1. cursor' - pos' = in + m
      BY <1>1, <1>4, <1>5, <1>6
    <2>2. 8 * (in + m) = (i + 1) * w + rest
      BY <1>2, <1>5, <1>6, <1>7
    <2>3. HasBits(p, acc', acc_bits', (i + 1) * w)
      BY <1>1, <1>7, <1>13
    <2>4. /\ 8 * (cursor' - pos') = i' * w + acc_bits'
          /\ HasBits(p, acc', acc_bits', i' * w)
          /\ \A r \in 0 .. k : OutBits(r, StepLen(r), ciphertext')
          /\ Restored(p, i', result')
      BY <1>0, <1>1, <1>17, <2>1, <2>2, <2>3 DEF Unpacking
    <2> QED
      BY <1>1, <1>18, <2>4
      DEF Unpacking, HasBits, OutBits, Restored, StreamBit, Coded, Width, Start, StepLen, w
  <1> QED
    BY <1>0, <1>1, <1>19, <1>20 DEF CtInv, Packing, Unpacked

\* The next polynomial starts where this one ended.
LEMMA UnpackNextStep ==
  ASSUME CtInv, Ciphertexts!UnpackNext
  PROVE  CtInv'
  <1>0. CtShape /\ Unpacking /\ side = "unpack" /\ i = ML_KEM_N /\ p \in 0 .. k
        /\ k \in CiphertextLevels /\ k \in {2, 3, 4}
    BY CodecsAssumption DEF CtInv, CtShape, Ciphertexts!UnpackNext
  <1>1. k' = k /\ polys' = polys /\ ciphertext' = ciphertext /\ result' = result
    BY DEF Ciphertexts!UnpackNext
  <1>2. \A r \in 0 .. p : Restored(r, ML_KEM_N, result)
    <2>1. \A r \in 0 .. p : r \in 0 .. p - 1 \/ r = p
      BY <1>0
    <2> QED
      BY <1>0, <2>1 DEF Unpacking
  <1>3. CASE p = k /\ side' = "done" /\ UNCHANGED <<p, i, pos, cursor, acc, acc_bits>>
    <2>1. Reduced' /\ Start(p)' = Start(p) /\ StepLen(p)' = StepLen(p)
          /\ Ciphertexts!ciphertext_len' = Ciphertexts!ciphertext_len
      BY <1>0, <1>1, <1>3 DEF CtShape, Reduced, Start, StepLen, Width, Ciphertexts!ciphertext_len
    <2>2. CtShape'
      BY <1>0, <1>1, <1>3, <2>1 DEF CtShape
    <2>3. Unpacked'
      BY <1>1, <1>2, <1>3 DEF Unpacked, Restored, Coded, Width
    <2> QED
      BY <1>3, <2>2, <2>3 DEF CtInv, Packing, Unpacking
  <1>4. ASSUME p < k, side' = side, p' = p + 1, pos' = Start(p + 1),
               i' = 0, acc' = 0, acc_bits' = 0, cursor' = pos'
        PROVE  CtInv'
    <2>1. p + 1 \in 0 .. k
      BY <1>0, <1>4
    <2>2. Reduced' /\ Start(p)' = Start(p + 1) /\ StepLen(p)' = StepLen(p + 1)
          /\ Ciphertexts!ciphertext_len' = Ciphertexts!ciphertext_len
      BY <1>0, <1>1, <1>4 DEF CtShape, Reduced, Start, StepLen, Width, Ciphertexts!ciphertext_len
    <2>3. StepLen(p + 1) \in Nat /\ Start(p + 1) \in Nat /\ Width(p + 1) \in {4, 5, 10, 11}
      BY <1>0, <2>1, WidthIs, Layout DEF Widths
    <2>4. cursor' \in pos' .. pos' + StepLen(p + 1) /\ i' \in 0 .. ML_KEM_N
      BY <1>4, <2>3, CodecsAssumption
    <2>5. acc_bits' \in 0 .. 7 /\ acc' \in 0 .. Pow(0) - 1
      BY <1>4, NoBits DEF HasBits
    <2>6. CtShape'
      BY <1>0, <1>1, <1>4, <2>1, <2>2, <2>4, <2>5 DEF CtShape
    <2>7. 8 * (cursor' - pos') = i' * Width(p + 1) + acc_bits' /\ i' * Width(p + 1) = 0
      <3> DEFINE v == Width(p + 1)
                 s == Start(p + 1)
      <3>1. v \in Nat /\ s \in Nat
        BY <2>3
      <3> HIDE DEF v, s
      <3>2. 8 * (s - s) = 0 /\ 0 * v = 0 /\ 0 + 0 = 0
        BY <3>1
      <3> QED
        BY <1>4, <3>2 DEF v, s
    <2>8. /\ HasBits(p + 1, acc', acc_bits', i' * Width(p + 1)) /\ Restored(p + 1, i', result')
      BY <1>4, <2>7, NoBits
    <2>9. /\ \A r \in 0 .. k : OutBits(r, StepLen(r), ciphertext')
          /\ \A r \in 0 .. p' - 1 : Restored(r, ML_KEM_N, result')
      <3>1. \A r \in 0 .. p + 1 - 1 : r \in 0 .. p
        BY <1>0
      <3> QED
        BY <1>0, <1>1, <1>2, <1>4, <3>1 DEF Unpacking
    <2>10. Unpacking'
      BY <1>1, <1>4, <2>7, <2>8, <2>9
      DEF Unpacking, HasBits, OutBits, Restored, StreamBit, Coded, Width, Start, StepLen
    <2> QED
      BY <1>0, <1>4, <2>6, <2>10 DEF CtInv, Packing, Unpacked
  <1>5. CASE p < k
    <2> DEFINE at == pos + Ciphertexts!StepBytes(Ciphertexts!UnpackWidth(k, 0))
    <2>1. at = Start(p + 1)
      <3>1. 0 \in 0 .. k
        BY <1>0
      <3>2. Ciphertexts!StepBytes(Width(0)) = StepLen(0) /\ Ciphertexts!UnpackWidth(k, 0) = Width(0)
        BY <1>0, <3>1, WidthIs, Layout
      <3>3. StepLen(p) = StepLen(0) /\ Start(p + 1) = Start(p) + StepLen(p)
        BY <1>0, <1>5, Layout
      <3> QED
        BY <1>0, <3>2, <3>3 DEF CtShape
    <2>2. p + 1 < k => Start(p + 1) < Ciphertexts!ciphertext_len
      <3> SUFFICES ASSUME p + 1 < k PROVE Start(p + 1) < Ciphertexts!ciphertext_len
        OBVIOUS
      <3>1. p + 1 \in 0 .. k /\ k \in 0 .. k
        BY <1>0
      <3>2. /\ StepLen(p + 1) \in Nat \ {0} /\ Start(p + 1) \in Nat
            /\ Start(p + 1) + StepLen(p + 1) <= Start(k)
            /\ Ciphertexts!ciphertext_len = Start(k) + StepLen(k)
        BY <1>0, <3>1, Layout
      <3>3. StepLen(k) \in Nat /\ Start(k) \in Nat
        BY <1>0, <3>1, Layout
      <3> QED
        BY <3>2, <3>3
    <2>3. /\ p' = IF p + 1 < k /\ at < Ciphertexts!ciphertext_len THEN p + 1 ELSE k
          /\ pos' = at /\ i' = 0 /\ cursor' = pos' /\ acc' = 0 /\ acc_bits' = 0 /\ side' = side
      BY <1>0, <1>5 DEF Ciphertexts!UnpackNext, Ciphertexts!StartPolynomial
    <2>4. p' = p + 1
      <3>1. p + 1 < k \/ p + 1 = k
        BY <1>0, <1>5
      <3> HIDE DEF at
      <3> QED
        BY <2>1, <2>2, <2>3, <3>1
    <2> QED
      BY <1>4, <1>5, <2>1, <2>3, <2>4
  <1> QED
    BY <1>0, <1>3, <1>5 DEF Ciphertexts!UnpackNext

-----------------------------------------------------------------------------
(* Packing and unpacking agree *)

\* The start with any polynomials, not only those of Samples.
AnyPolynomials ==
  /\ side = "pack" /\ k \in CiphertextLevels
  /\ polys \in [0 .. k -> [Ciphertexts!Coeffs -> Residues]]
  /\ ciphertext = [o \in 0 .. Ciphertexts!ciphertext_len - 1 |-> 0]
  /\ p = 0 /\ i = 0 /\ pos = 0 /\ cursor = 0 /\ acc = 0 /\ acc_bits = 0
  /\ result = [r \in 0 .. k |-> [j \in Ciphertexts!Coeffs |-> 0]]

\* Nothing is packed at the start.
LEMMA CtStart ==
  ASSUME AnyPolynomials
  PROVE  CtInv
  <1>1. k \in CiphertextLevels /\ k \in {2, 3, 4} /\ 0 \in 0 .. k
    BY CodecsAssumption DEF AnyPolynomials
  <1>2. Start(0) = 0 /\ StepLen(0) \in Nat /\ Width(0) \in {4, 5, 10, 11}
    BY <1>1, Layout, WidthIs DEF Widths
  <1>3. Reduced
    BY DEF AnyPolynomials, Reduced
  <1>4. DOMAIN ciphertext = 0 .. Ciphertexts!ciphertext_len - 1
        /\ \A o \in DOMAIN ciphertext : ciphertext[o] \in 0 .. 255
    BY DEF AnyPolynomials
  <1>5. result \in [0 .. k -> [Ciphertexts!Coeffs -> Residues]]
    BY ResiduesAre DEF AnyPolynomials
  <1>6. cursor \in pos .. pos + StepLen(0) /\ i \in 0 .. ML_KEM_N
    BY <1>2, CodecsAssumption DEF AnyPolynomials
  <1>7. acc_bits \in 0 .. 7 /\ acc \in 0 .. Pow(0) - 1
    BY NoBits DEF AnyPolynomials, HasBits
  <1>8. CtShape
    BY <1>1, <1>2, <1>3, <1>4, <1>5, <1>6, <1>7 DEF CtShape, AnyPolynomials
  <1>9. Packing
    <2>1. 8 * (cursor - pos) = 0 /\ cursor - pos = 0 /\ i * Width(0) = 0 /\ 0 + 0 = 0
      BY <1>2 DEF AnyPolynomials
    <2>2. \A r \in 0 .. 0 - 1 : FALSE
      OBVIOUS
    <2> QED
      BY <2>1, <2>2, NoBits DEF Packing, AnyPolynomials
  <1> QED
    BY <1>8, <1>9 DEF CtInv, Unpacking, Unpacked, AnyPolynomials

\* Every step of the two loops keeps the invariant.
LEMMA CtStep ==
  ASSUME CtInv, [Ciphertexts!Next]_ciphertextVars
  PROVE  CtInv'
  <1>1. CASE UNCHANGED ciphertextVars
    BY <1>1 DEF ciphertextVars, CtInv, CtShape, Packing, Unpacking, Unpacked, Reduced, OutBits,
                Restored, HasBits, StreamBit, Coded, Width, Start, StepLen, Ciphertexts!ciphertext_len
  <1> QED
    BY <1>1, PackStep, PackNextStep, UnpackStep, UnpackNextStep DEF Ciphertexts!Next

\* What the invariant says of the properties.
LEMMA CtSound ==
  ASSUME CtInv
  PROVE  Ciphertexts!PackAndUnpackAgree
  <1>0. CtShape /\ p \in 0 .. k /\ k \in CiphertextLevels /\ k \in {2, 3, 4} /\ k \in 0 .. k
    BY CodecsAssumption DEF CtInv, CtShape
  <1>1. /\ Start(p) \in Nat /\ StepLen(p) \in Nat
        /\ Start(p) + StepLen(p) <= Ciphertexts!ciphertext_len /\ Ciphertexts!ciphertext_len \in Nat
        /\ Ciphertexts!StepBytes(Width(p)) = StepLen(p)
    <2>1. /\ StepLen(k) \in Nat /\ Start(k) \in Nat
          /\ Ciphertexts!ciphertext_len = Start(k) + StepLen(k)
      BY <1>0, Layout
    <2>2. StepLen(p) \in Nat /\ Start(p) \in Nat /\ Ciphertexts!StepBytes(Width(p)) = StepLen(p)
          /\ (p < k => Start(p) + StepLen(p) <= Start(k))
      BY <1>0, Layout
    <2>3. p < k \/ p = k
      BY <1>0
    <2> QED
      BY <2>1, <2>2, <2>3
  <1>2. Ciphertexts!TypeOK
    <2>1. pos \in 0 .. Ciphertexts!ciphertext_len /\ cursor \in pos .. Ciphertexts!ciphertext_len
      BY <1>0, <1>1 DEF CtShape
    <2>2. \A r \in 0 .. k, j \in Ciphertexts!Coeffs : result[r][j] \in 0 .. Ciphertexts!ML_KEM_Q - 1
      BY <1>0, ResiduesAre DEF CtShape, Ciphertexts!ML_KEM_Q
    <2> QED
      BY <1>0, <2>1, <2>2 DEF CtShape, Ciphertexts!TypeOK, Pow
  <1>3. Ciphertexts!BitStream
    <2> DEFINE out == cursor - pos
    <2> SUFFICES ASSUME side = "pack", NEW n \in 0 .. 8 * out - 1
                 PROVE  Bit(ciphertext[pos + n \div 8], n % 8) = StreamBit(p, n)
      BY DEF Ciphertexts!BitStream, Ciphertexts!BitOf, Bit, Pow, StreamBit, Coded, Width
    <2>1. OutBits(p, out, ciphertext) /\ pos = Start(p) /\ out \in Nat
      BY <1>0, <1>1 DEF CtInv, Packing, CtShape
    <2> HIDE DEF out
    <2>2. n \div 8 \in 0 .. out - 1 /\ n % 8 \in 0 .. 8 - 1 /\ 8 * (n \div 8) + (n % 8) = n
      BY SMT, <2>1
    <2>3. HasBits(p, ciphertext[Start(p) + n \div 8], 8, 8 * (n \div 8))
      BY <2>1, <2>2 DEF OutBits
    <2> QED
      BY <2>1, <2>2, <2>3 DEF HasBits
  <1>4. Ciphertexts!AccDrained
    <2> SUFFICES ASSUME side = "pack", i = ML_KEM_N
                 PROVE  acc_bits = 0 /\ acc = 0
                        /\ cursor = pos + Ciphertexts!StepBytes(Ciphertexts!PackWidth(k, p))
      BY DEF Ciphertexts!AccDrained
    <2> QED
      BY <1>1, Drained DEF Width
  <1>5. Ciphertexts!ReadsOwnBytes
    <2>1. Ciphertexts!UnpackWidth(k, p) = Width(p)
      BY <1>0, WidthIs
    <2>2. cursor <= pos + StepLen(p)
      BY <1>0, <1>1 DEF CtShape
    <2> QED
      BY <1>1, <2>1, <2>2 DEF Ciphertexts!ReadsOwnBytes
  <1>6. Ciphertexts!RoundTrip
    BY DEF CtInv, Unpacked, Restored, Ciphertexts!RoundTrip, Ciphertexts!Coeffs, Coded, Width
  <1> QED
    BY <1>2, <1>3, <1>4, <1>5, <1>6 DEF Ciphertexts!PackAndUnpackAgree

\* What ml_kem_compress_and_pack writes of any polynomials with coefficients
\* below q, ml_kem_decompress reads: the bit strings, the layout, the drained
\* accumulator and the round trip, whatever the number of coefficients
\* (ml_kem_encaps.c:601-678 against ml_kem_decrypt.c:120-217).
THEOREM EveryPolynomialAgrees ==
  AnyPolynomials /\ [][Ciphertexts!Next]_ciphertextVars => []Ciphertexts!PackAndUnpackAgree
  <1>1. AnyPolynomials => CtInv
    BY CtStart
  <1>2. CtInv /\ [Ciphertexts!Next]_ciphertextVars => CtInv'
    BY CtStep
  <1>3. CtInv => Ciphertexts!PackAndUnpackAgree
    BY CtSound
  <1> QED
    BY <1>1, <1>2, <1>3, PTL

\* So the two loops agree in every run of the codecs.
THEOREM PackingAgrees == CodecsSpec => []PackAndUnpackAgree
  <1> DEFINE I == part = "ciphertexts" => CtInv
  <1>1. CodecsInit => I
    <2> SUFFICES ASSUME CodecsInit, part = "ciphertexts" PROVE CtInv
      OBVIOUS
    <2>1. Ciphertexts!Init
      BY DEF CodecsInit
    <2>2. Samples \subseteq Residues
      BY CodecsAssumption
    <2>3. polys \in [0 .. k -> [Ciphertexts!Coeffs -> Residues]]
      <3>1. PICK a \in Samples, b \in Samples, q \in 0 .. k, c \in Ciphertexts!Coeffs :
              polys = [r \in 0 .. k |-> [j \in Ciphertexts!Coeffs |-> IF r = q /\ j = c THEN a ELSE b]]
        BY <2>1 DEF Ciphertexts!Init
      <3> QED
        BY <2>2, <3>1
    <2>4. AnyPolynomials
      BY <2>1, <2>3 DEF Ciphertexts!Init, AnyPolynomials
    <2> QED
      BY <2>4, CtStart
  <1>2. I /\ [CodecsNext]_codecVars => I'
    <2> SUFFICES ASSUME part' = "ciphertexts", I, [CodecsNext]_codecVars PROVE CtInv'
      OBVIOUS
    <2>1. CASE RunCiphertexts(Ciphertexts!Next)
      BY <2>1, CtStep DEF RunCiphertexts
    <2>2. CASE UNCHANGED codecVars
      BY <2>2, CtStep DEF codecVars
    <2>3. CASE RunKeys(Next)
      BY <2>3 DEF RunKeys
    <2>4. CASE RunCompression(Compressing!Next)
      BY <2>4 DEF RunCompression
    <2> QED
      BY <2>1, <2>2, <2>3, <2>4 DEF CodecsNext
  <1>3. I => PackAndUnpackAgree
    BY CtSound DEF PackAndUnpackAgree
  <1> QED
    BY <1>1, <1>2, <1>3, PTL DEF CodecsSpec

-----------------------------------------------------------------------------
(* Compression *)

SweepInv == x \in Residues /\ d \in Widths

\* Every coefficient and width of the sweep is exact.
LEMMA SweepExact ==
  ASSUME SweepInv
  PROVE  Compressing!CompressionExact
  <1>1. x \in Residues /\ d \in Widths /\ Compressing!ML_KEM_Q = 3329
    BY DEF SweepInv, Compressing!ML_KEM_Q
  <1>2. Compressing!CompressExact
    BY <1>1, CompressExactAt DEF Compressing!CompressExact, Pow
  <1>3. Compressing!RoundingBounded
    BY <1>1, RoundTripIs DEF Compressing!RoundingBounded, Twice
  <1>4. Compressing!CompressInverts
    <2>1. x % Pow(d) \in 0 .. Pow(d) - 1
      <3>1. x \in Int
        BY <1>1, ResiduesAre
      <3>2. Pow(d) \in {16, 32, 1024, 2048}
        BY <1>1, WidthPowers
      <3> QED
        BY SMT, <3>1, <3>2
    <2> QED
      BY <1>1, <2>1, InvertsAt DEF Compressing!CompressInverts, Pow
  <1>5. Compressing!DecodeNearest
    BY <1>1, DecodeAt
  <1> QED
    BY <1>2, <1>3, <1>4, <1>5 DEF Compressing!CompressionExact

\* Compression to every width rounds to the nearest value, loses no more than
\* the rounding, undoes decompression to the bit, and decoding takes the nearer
\* of the two values, for every coefficient below q (ml_kem_encaps.c,
\* ml_kem_decrypt.c).
THEOREM CompressionIsExact == CodecsSpec => []CompressionExact
  <1>1. CodecsInit => SweepInv
    BY ResiduesAre DEF CodecsInit, Compressing!Init, SweepInv, Widths, Compressing!Widths
  <1>2. SweepInv /\ [CodecsNext]_codecVars => SweepInv'
    <2> SUFFICES ASSUME SweepInv, [CodecsNext]_codecVars PROVE SweepInv'
      OBVIOUS
    <2>1. CASE RunCompression(Compressing!Next)
      <3>1. x' = (x + 1) % 3329 /\ d' = d
        BY <2>1 DEF RunCompression, Compressing!Next, Compressing!ML_KEM_Q
      <3>2. x \in 0 .. 3328
        BY ResiduesAre DEF SweepInv
      <3>3. x' \in 0 .. 3328
        BY SMT, <3>1, <3>2
      <3> QED
        BY <3>1, <3>3, ResiduesAre DEF SweepInv
    <2>2. CASE UNCHANGED sweepVars
      BY <2>2 DEF sweepVars, SweepInv
    <2> QED
      BY <2>1, <2>2 DEF CodecsNext, RunKeys, RunCiphertexts, codecVars
  <1>3. SweepInv => CompressionExact
    BY SweepExact DEF CompressionExact
  <1> QED
    BY <1>1, <1>2, <1>3, PTL DEF CodecsSpec
=============================================================================
