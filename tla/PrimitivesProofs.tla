-------------------------- MODULE PrimitivesProofs --------------------------
(***************************************************************************)
(* The masked additions of the noise count the bits of any stream, for a   *)
(* polynomial of any length. Every step mapping of the permutation is that *)
(* of the standard on every state. Whatever the number of messages and of  *)
(* changed ciphertexts, no seed and counter are used for two noise         *)
(* polynomials, every call finds its context clean, no step combines       *)
(* coefficients with a transform, every buffer is exactly the sum its loop *)
(* has reached, decryption leaves the message and noise, and both sides    *)
(* get the same key unless the ciphertext was changed.                     *)
(***************************************************************************)
EXTENDS TransformProofs

-----------------------------------------------------------------------------
(* The noise: sums of masked words *)

Bits == {0, 1}
WordBits == 0 .. 31
Words == [WordBits -> Bits]

\* What the carry into a bit comes from, if the bits of a mask are counters.
CarryFrom(w, x, mask, b) == IF b - 1 \in mask THEN (w[b - 1] + x[b - 1]) \div 2 ELSE 0

\* The two words have room for the sum: x only where the mask is, no two bits of
\* which are neighbours, and w no bit that a carry would meet.
Sparse(w, x, mask) ==
  /\ w \in Words /\ x \in Words /\ mask \subseteq WordBits
  /\ \A b \in WordBits : b \in mask => b - 1 \notin mask
  /\ \A b \in WordBits : b \notin mask => x[b] = 0 /\ w[b] + CarryFrom(w, x, mask, b) <= 1

\* The carries of Plus, defined by recursion, are the ones given in closed form.
LEMMA CarriesAre ==
  ASSUME NEW w, NEW x, NEW mask, Sparse(w, x, mask),
         NEW g, g = [b \in 0 .. 32 |-> IF b = 0 THEN 0
                                       ELSE (w[b - 1] + x[b - 1] + g[b - 1]) \div 2]
  PROVE  \A b \in 0 .. 32 : g[b] = CarryFrom(w, x, mask, b)
  <1> DEFINE Same(b) == g[b] = CarryFrom(w, x, mask, b)
  <1>1. Same(0)
    BY DEF CarryFrom, Sparse, WordBits
  <1>2. ASSUME NEW b \in 0 .. 31, Same(b)
        PROVE  Same(b + 1)
    <2>1. g[b + 1] = (w[b] + x[b] + g[b]) \div 2
      <3>1. b + 1 \in 0 .. 32 /\ b + 1 # 0 /\ (b + 1) - 1 = b
        OBVIOUS
      <3> QED
        BY <3>1
    <2>2. w[b] \in Bits /\ x[b] \in Bits
      BY DEF Sparse, Words, WordBits
    <2>3. CASE b \in mask
      <3>1. g[b] = 0
        BY <1>2, <2>3 DEF CarryFrom, Sparse, WordBits
      <3>2. (b + 1) - 1 = b
        OBVIOUS
      <3> QED
        BY <2>1, <2>2, <2>3, <3>1, <3>2 DEF CarryFrom, Bits
    <2>4. CASE b \notin mask
      <3>1. x[b] = 0 /\ w[b] + g[b] <= 1
        BY <1>2, <2>4 DEF Sparse, WordBits
      <3>2. g[b] \in Nat
        <4>1. b - 1 \in mask => w[b - 1] \in Bits /\ x[b - 1] \in Bits
          BY DEF Sparse, Words
        <4> QED
          BY <1>2, <4>1 DEF CarryFrom, Bits
      <3>3. (b + 1) - 1 = b
        OBVIOUS
      <3>4. (w[b] + x[b] + g[b]) \div 2 = 0
        BY <2>2, <3>1, <3>2 DEF Bits
      <3> QED
        BY <2>1, <2>4, <3>3, <3>4 DEF CarryFrom
    <2> QED
      BY <2>3, <2>4
  <1> HIDE DEF Same
  <1>3. Same(1) /\ Same(2) /\ Same(3) /\ Same(4) /\ Same(5) /\ Same(6) /\ Same(7) /\ Same(8)
    BY <1>1, <1>2
  <1>4. Same(9) /\ Same(10) /\ Same(11) /\ Same(12) /\ Same(13) /\ Same(14) /\ Same(15) /\ Same(16)
    BY <1>3, <1>2
  <1>5. Same(17) /\ Same(18) /\ Same(19) /\ Same(20) /\ Same(21) /\ Same(22) /\ Same(23) /\ Same(24)
    BY <1>4, <1>2
  <1>6. Same(25) /\ Same(26) /\ Same(27) /\ Same(28) /\ Same(29) /\ Same(30) /\ Same(31) /\ Same(32)
    BY <1>5, <1>2
  <1>7. \A b \in 0 .. 32 : Same(b)
    BY <1>1, <1>3, <1>4, <1>5, <1>6
  <1> QED
    BY <1>7 DEF Same

\* So every bit of a sum without room for more is the sum of two bits and a carry.
LEMMA PlusAt ==
  ASSUME NEW w, NEW x, NEW mask, Sparse(w, x, mask), NEW b \in WordBits
  PROVE  Noise!Plus(w, x)[b] = (w[b] + x[b] + CarryFrom(w, x, mask, b)) % 2
  <1> DEFINE rec(h) == [d \in 0 .. 32 |-> IF d = 0 THEN 0
                                          ELSE (w[d - 1] + x[d - 1] + h[d - 1]) \div 2]
             carry == CHOOSE h : h = rec(h)
             closed == [d \in 0 .. 32 |-> CarryFrom(w, x, mask, d)]
  <1>1. closed = rec(closed)
    <2>1. ASSUME NEW d \in 0 .. 32
          PROVE  closed[d] = IF d = 0 THEN 0 ELSE (w[d - 1] + x[d - 1] + closed[d - 1]) \div 2
      <3>1. CASE d = 0
        BY <3>1 DEF CarryFrom, Sparse, WordBits
      <3>2. CASE d # 0
        <4>1. d - 1 \in 0 .. 32 /\ d - 1 \in WordBits
          BY <3>2 DEF WordBits
        <4>2. closed[d - 1] = CarryFrom(w, x, mask, d - 1)
          BY <4>1
        <4>3. w[d - 1] \in Bits /\ x[d - 1] \in Bits
          BY <4>1 DEF Sparse, Words
        <4>4. CASE d - 1 \in mask
          <5>1. CarryFrom(w, x, mask, d - 1) = 0
            BY <4>1, <4>4 DEF CarryFrom, Sparse
          <5> QED
            BY <3>2, <4>2, <4>3, <4>4, <5>1 DEF CarryFrom, Bits
        <4>5. CASE d - 1 \notin mask
          <5>1. x[d - 1] = 0 /\ w[d - 1] + closed[d - 1] <= 1
            BY <4>1, <4>2, <4>5 DEF Sparse
          <5>2. CarryFrom(w, x, mask, d - 1) \in Nat
            <6>1. (d - 1) - 1 \in mask => w[(d - 1) - 1] \in Bits /\ x[(d - 1) - 1] \in Bits
              BY DEF Sparse, Words
            <6> QED
              BY <6>1 DEF CarryFrom, Bits
          <5>3. (w[d - 1] + x[d - 1] + closed[d - 1]) \div 2 = 0
            BY <4>2, <4>3, <5>1, <5>2 DEF Bits
          <5> QED
            BY <3>2, <4>5, <5>3 DEF CarryFrom
        <4> QED
          BY <4>4, <4>5
      <3> QED
        BY <3>1, <3>2
    <2> QED
      BY <2>1
  <1>2. carry = rec(carry)
    BY <1>1
  <1>3. Noise!Plus(w, x)[b] = (w[b] + x[b] + carry[b]) % 2
    BY DEF Noise!Plus, Noise!WordBits, WordBits
  <1> HIDE DEF carry
  <1>4. carry[b] = CarryFrom(w, x, mask, b)
    BY <1>2, CarriesAre DEF WordBits
  <1> QED
    BY <1>3, <1>4

\* The sum, bit by bit: at the mask, above it, and elsewhere.
LEMMA PlusSparse ==
  ASSUME NEW w, NEW x, NEW mask, Sparse(w, x, mask)
  PROVE  /\ Noise!Plus(w, x) \in Words
         /\ \A b \in WordBits : b \in mask => Noise!Plus(w, x)[b] = (w[b] + x[b]) % 2
         /\ \A b \in WordBits : b \notin mask =>
              Noise!Plus(w, x)[b] = w[b] + CarryFrom(w, x, mask, b)
  <1>1. ASSUME NEW b \in WordBits
        PROVE  /\ Noise!Plus(w, x)[b] \in Bits
               /\ b \in mask => Noise!Plus(w, x)[b] = (w[b] + x[b]) % 2
               /\ b \notin mask => Noise!Plus(w, x)[b] = w[b] + CarryFrom(w, x, mask, b)
    <2>1. Noise!Plus(w, x)[b] = (w[b] + x[b] + CarryFrom(w, x, mask, b)) % 2
      BY PlusAt
    <2>2. w[b] \in Bits /\ x[b] \in Bits
      BY DEF Sparse, Words
    <2>3. CarryFrom(w, x, mask, b) \in Nat
      <3>1. b - 1 \in mask => w[b - 1] \in Bits /\ x[b - 1] \in Bits
        BY DEF Sparse, Words
      <3> QED
        BY <3>1 DEF CarryFrom, Bits
    <2>4. CASE b \in mask
      <3>1. CarryFrom(w, x, mask, b) = 0
        BY <2>4 DEF CarryFrom, Sparse
      <3> QED
        BY <2>1, <2>2, <2>4, <3>1 DEF Bits
    <2>5. CASE b \notin mask
      <3>1. x[b] = 0 /\ w[b] + CarryFrom(w, x, mask, b) <= 1
        BY <2>5 DEF Sparse
      <3> DEFINE c == CarryFrom(w, x, mask, b)
      <3> HIDE DEF c
      <3>2. c \in Nat /\ x[b] = 0 /\ w[b] + c <= 1 /\ w[b] \in {0, 1}
        BY <2>2, <2>3, <3>1 DEF c, Bits
      <3>3. (w[b] + x[b] + c) % 2 = w[b] + c /\ w[b] + c \in {0, 1}
        BY <3>2
      <3> QED
        BY <2>1, <2>5, <3>3 DEF c, Bits
    <2> QED
      BY <2>4, <2>5
  <1>2. Noise!Plus(w, x) = [b \in WordBits |-> Noise!Plus(w, x)[b]]
    BY DEF Noise!Plus, Noise!WordBits, WordBits
  <1> DEFINE sum == Noise!Plus(w, x)
  <1> HIDE DEF sum
  <1>3. sum \in Words
    <2>1. sum = [b \in WordBits |-> sum[b]] /\ \A b \in WordBits : sum[b] \in Bits
      BY <1>1, <1>2 DEF sum
    <2> QED
      BY <2>1 DEF Words
  <1> QED
    BY <1>1, <1>3 DEF sum

\* What is left of a word after shift and mask.
LEMMA PartIs ==
  ASSUME NEW w \in Words, NEW d \in 0 .. 2, NEW e \in {2, 3}
  PROVE  LET p == Noise!AndMask(Noise!ShiftRight(w, d), Noise!Mask(e))
         IN  /\ p \in Words
             /\ \A b \in WordBits : b \notin Noise!Mask(e) => p[b] = 0
             /\ \A b \in WordBits : b \in Noise!Mask(e) /\ b + d \in WordBits => p[b] = w[b + d]
  BY DEF Noise!AndMask, Noise!ShiftRight, Noise!WordBits, WordBits, Words, Bits

LEMMA MaskIs ==
  /\ Noise!Mask(2) = {b \in WordBits : b % 2 = 0}
  /\ Noise!Mask(3) = {b \in 0 .. 23 : b % 3 = 0}
  BY DEF Noise!Mask, Noise!WordBits, WordBits

\* Each field of the word d of cbd2 holds how many of its two bits are set.
LEMMA CountedTwo ==
  ASSUME NEW w \in Words, NEW p \in WordBits, p % 2 = 0
  PROVE  Noise!Field(Noise!Counted(w, 2), p, 2) = w[p] + w[p + 1]
  <1> DEFINE mask == Noise!Mask(2)
             part0 == Noise!AndMask(Noise!ShiftRight(w, 0), mask)
             part1 == Noise!AndMask(Noise!ShiftRight(w, 1), mask)
  <1>1. /\ mask = {b \in WordBits : b % 2 = 0}
        /\ p \in mask /\ p + 1 \in WordBits /\ p + 1 \notin mask
        /\ \A b \in WordBits : b \in mask => b - 1 \notin mask
    BY MaskIs DEF WordBits
  <1>2. /\ part0 \in Words /\ part1 \in Words
        /\ \A b \in WordBits : b \notin mask => part0[b] = 0 /\ part1[b] = 0
        /\ part0[p] = w[p] /\ part1[p] = w[p + 1]
    <2>1. p + 0 = p
      BY DEF WordBits
    <2> QED
      BY <1>1, <2>1, PartIs
  <1>3. Noise!Counted(w, 2) = Noise!Plus(part0, part1)
    BY DEF Noise!Counted
  <1> HIDE DEF mask, part0, part1
  <1>4. Sparse(part0, part1, mask)
    <2>1. ASSUME NEW b \in WordBits, b \notin mask
          PROVE  part0[b] + CarryFrom(part0, part1, mask, b) <= 1
      <3>1. part0[b] = 0
        BY <1>2, <2>1
      <3>2. CASE b - 1 \in mask
        <4>1. part0[b - 1] \in Bits /\ part1[b - 1] \in Bits
          BY <1>1, <1>2, <3>2 DEF Words
        <4> QED
          BY <3>1, <3>2, <4>1 DEF CarryFrom, Bits
      <3>3. CASE b - 1 \notin mask
        BY <3>1, <3>3 DEF CarryFrom
      <3> QED
        BY <3>2, <3>3
    <2> QED
      BY <1>1, <1>2, <2>1 DEF Sparse
  <1> DEFINE sum == Noise!Plus(part0, part1)
  <1>5. sum[p] = (w[p] + w[p + 1]) % 2 /\ sum[p + 1] = (w[p] + w[p + 1]) \div 2
    <2>1. sum[p] = (part0[p] + part1[p]) % 2
      BY <1>1, <1>4, PlusSparse
    <2>2. sum[p + 1] = part0[p + 1] + CarryFrom(part0, part1, mask, p + 1)
      BY <1>1, <1>4, PlusSparse
    <2>3. CarryFrom(part0, part1, mask, p + 1) = (part0[p] + part1[p]) \div 2
      <3>1. (p + 1) - 1 = p
        BY DEF WordBits
      <3> QED
        BY <1>1, <3>1 DEF CarryFrom
    <2>4. w[p] \in Bits /\ w[p + 1] \in Bits
      BY <1>1 DEF Words
    <2> QED
      BY <1>1, <1>2, <2>1, <2>2, <2>3, <2>4 DEF Bits
  <1>6. Noise!Field(Noise!Counted(w, 2), p, 2) = sum[p] + 2 * sum[p + 1]
    <2>1. Noise!Field(sum, p, 2) = sum[p] + 2 * sum[p + 1] + 0
      BY DEF Noise!Field
    <2>2. sum[p] + 2 * sum[p + 1] + 0 = sum[p] + 2 * sum[p + 1]
      <3>1. sum[p] \in Int /\ sum[p + 1] \in Int
        BY <1>1, <1>4, PlusSparse DEF Words, Bits
      <3> HIDE DEF sum
      <3> QED
        BY <3>1
    <2> QED
      BY <1>3, <2>1, <2>2
  <1> HIDE DEF sum
  <1>7. w[p] \in Bits /\ w[p + 1] \in Bits
    BY <1>1 DEF Words
  <1> QED
    BY <1>5, <1>6, <1>7 DEF Bits

\* And each field of cbd3 how many of its three.
LEMMA CountedThree ==
  ASSUME NEW w \in Words, NEW p \in 0 .. 23, p % 3 = 0
  PROVE  Noise!Field(Noise!Counted(w, 3), p, 3) = w[p] + w[p + 1] + w[p + 2]
  <1> DEFINE mask == Noise!Mask(3)
             part0 == Noise!AndMask(Noise!ShiftRight(w, 0), mask)
             part1 == Noise!AndMask(Noise!ShiftRight(w, 1), mask)
             part2 == Noise!AndMask(Noise!ShiftRight(w, 2), mask)
             two == Noise!Plus(part0, part1)
             sum == Noise!Plus(two, part2)
  <1>1. /\ mask = {b \in 0 .. 23 : b % 3 = 0} /\ mask \subseteq WordBits
        /\ p \in mask /\ p \in WordBits
        /\ p + 1 \in WordBits /\ p + 1 \notin mask /\ p + 2 \in WordBits /\ p + 2 \notin mask
        /\ \A b \in WordBits : b \in mask => b - 1 \notin mask
    BY MaskIs DEF WordBits
  <1>2. /\ part0 \in Words /\ part1 \in Words /\ part2 \in Words
        /\ \A b \in WordBits : b \notin mask => part0[b] = 0 /\ part1[b] = 0 /\ part2[b] = 0
        /\ part0[p] = w[p] /\ part1[p] = w[p + 1] /\ part2[p] = w[p + 2]
    <2>1. p + 0 = p
      OBVIOUS
    <2> QED
      BY <1>1, <2>1, PartIs
  <1>3. Noise!Counted(w, 3) = sum
    BY DEF Noise!Counted
  <1> HIDE DEF mask, part0, part1, part2
  <1>4. Sparse(part0, part1, mask)
    <2>1. ASSUME NEW b \in WordBits, b \notin mask
          PROVE  part0[b] + CarryFrom(part0, part1, mask, b) <= 1
      <3>1. part0[b] = 0
        BY <1>2, <2>1
      <3>2. CASE b - 1 \in mask
        <4>1. part0[b - 1] \in Bits /\ part1[b - 1] \in Bits
          BY <1>1, <1>2, <3>2 DEF Words
        <4> QED
          BY <3>1, <3>2, <4>1 DEF CarryFrom, Bits
      <3>3. CASE b - 1 \notin mask
        BY <3>1, <3>3 DEF CarryFrom
      <3> QED
        BY <3>2, <3>3
    <2> QED
      BY <1>1, <1>2, <2>1 DEF Sparse
  <1>5. /\ two \in Words
        /\ \A b \in WordBits : b \in mask => two[b] = (part0[b] + part1[b]) % 2
        /\ \A b \in WordBits : b \notin mask => two[b] = part0[b] + CarryFrom(part0, part1, mask, b)
    BY <1>4, PlusSparse
  <1> HIDE DEF two
  <1>6. \A b \in mask : /\ part0[b] \in Bits /\ part1[b] \in Bits /\ part2[b] \in Bits
                        /\ b + 1 \in WordBits /\ b + 1 \notin mask
                        /\ two[b] = (part0[b] + part1[b]) % 2
                        /\ two[b + 1] = (part0[b] + part1[b]) \div 2
    <2> SUFFICES ASSUME NEW b \in mask
                 PROVE  /\ part0[b] \in Bits /\ part1[b] \in Bits /\ part2[b] \in Bits
                        /\ b + 1 \in WordBits /\ b + 1 \notin mask
                        /\ two[b] = (part0[b] + part1[b]) % 2
                        /\ two[b + 1] = (part0[b] + part1[b]) \div 2
      OBVIOUS
    <2>1. /\ b \in WordBits /\ b + 1 \in WordBits /\ b + 1 \notin mask /\ (b + 1) - 1 = b
      BY <1>1 DEF WordBits
    <2>2. part0[b] \in Bits /\ part1[b] \in Bits /\ part2[b] \in Bits
      BY <1>2, <2>1 DEF Words
    <2>3. two[b + 1] = 0 + (part0[b] + part1[b]) \div 2
      BY <1>2, <1>5, <2>1 DEF CarryFrom
    <2> QED
      BY <1>5, <2>1, <2>2, <2>3 DEF Bits
  <1>7. \A b \in WordBits : b \notin mask /\ b - 1 \notin mask => two[b] = 0
    BY <1>2, <1>5 DEF CarryFrom
  <1>8. Sparse(two, part2, mask)
    <2>1. ASSUME NEW b \in WordBits, b \notin mask
          PROVE  two[b] + CarryFrom(two, part2, mask, b) <= 1
      <3>1. CASE b - 1 \in mask
        <4>1. (b - 1) + 1 = b
          BY DEF WordBits
        <4>2. /\ part0[b - 1] \in {0, 1} /\ part1[b - 1] \in {0, 1} /\ part2[b - 1] \in {0, 1}
              /\ two[b - 1] = (part0[b - 1] + part1[b - 1]) % 2
              /\ two[b] = (part0[b - 1] + part1[b - 1]) \div 2
          BY <1>6, <3>1, <4>1 DEF Bits
        <4> QED
          BY <3>1, <4>2 DEF CarryFrom
      <3>2. CASE b - 1 \notin mask
        BY <1>7, <2>1, <3>2 DEF CarryFrom
      <3> QED
        BY <3>1, <3>2
    <2> QED
      BY <1>1, <1>2, <1>5, <2>1 DEF Sparse
  <1>9. /\ sum \in Words
        /\ sum[p] = (two[p] + part2[p]) % 2
        /\ sum[p + 1] = two[p + 1] + (two[p] + part2[p]) \div 2
        /\ sum[p + 2] = 0
    <2>1. (p + 1) - 1 = p /\ (p + 2) - 1 = p + 1
      OBVIOUS
    <2>2. /\ sum \in Words
          /\ sum[p] = (two[p] + part2[p]) % 2
          /\ sum[p + 1] = two[p + 1] + CarryFrom(two, part2, mask, p + 1)
          /\ sum[p + 2] = two[p + 2] + CarryFrom(two, part2, mask, p + 2)
      BY <1>1, <1>8, PlusSparse
    <2>3. two[p + 2] = 0
      BY <1>1, <1>7, <2>1
    <2> QED
      BY <1>1, <2>1, <2>2, <2>3 DEF CarryFrom
  <1> HIDE DEF sum
  <1>10. /\ w[p] \in {0, 1} /\ w[p + 1] \in {0, 1} /\ w[p + 2] \in {0, 1}
         /\ two[p] = (w[p] + w[p + 1]) % 2 /\ two[p + 1] = (w[p] + w[p + 1]) \div 2
         /\ sum[p] = (two[p] + w[p + 2]) % 2
         /\ sum[p + 1] = two[p + 1] + (two[p] + w[p + 2]) \div 2 /\ sum[p + 2] = 0
    BY <1>1, <1>2, <1>6, <1>9 DEF Words, Bits
  <1>11. Noise!Field(sum, p, 3) = sum[p] + 2 * sum[p + 1] + 4 * sum[p + 2]
    BY DEF Noise!Field
  <1> DEFINE a0 == w[p]
             a1 == w[p + 1]
             a2 == w[p + 2]
             b0 == two[p]
             b1 == two[p + 1]
             s0 == sum[p]
             s1 == sum[p + 1]
             s2 == sum[p + 2]
  <1>12. /\ a0 \in {0, 1} /\ a1 \in {0, 1} /\ a2 \in {0, 1}
         /\ b0 = (a0 + a1) % 2 /\ b1 = (a0 + a1) \div 2
         /\ s0 = (b0 + a2) % 2 /\ s1 = b1 + (b0 + a2) \div 2 /\ s2 = 0
    BY <1>10
  <1> HIDE DEF a0, a1, a2, b0, b1, s0, s1, s2
  <1>13. s0 + 2 * s1 + 4 * s2 = a0 + a1 + a2
    BY <1>12
  <1> QED
    BY <1>3, <1>11, <1>13 DEF a0, a1, a2, s0, s1, s2

-----------------------------------------------------------------------------
(* The noise: the loop over the stream *)

\* The stream is bits, of the length that the loop uses in all its iterations.
StreamShape ==
  /\ eta \in {2, 3} /\ iteration \in Nat
  /\ DOMAIN stream = 0 .. 8 * Noise!WordBytes(eta) * Noise!Iterations(eta) - 1
  /\ \A b \in DOMAIN stream : stream[b] \in Bits
  /\ DOMAIN poly = 0 .. CbdCoeffs - 1
  /\ Noise!PerWord(eta) * Noise!Iterations(eta) = CbdCoeffs

CbdInv == StreamShape /\ Noise!TypeOK /\ Noise!DifferenceOfCounts

\* Numbers of the loop, for every length of a polynomial.
LEMMA LoopNumbers ==
  ASSUME NEW e \in {2, 3}
  PROVE  /\ Noise!Iterations(e) \in Nat \ {0}
         /\ Noise!PerWord(e) * Noise!Iterations(e) = CbdCoeffs
         /\ Noise!WordBytes(e) = IF e = 2 THEN 4 ELSE 3
         /\ Noise!PerWord(e) = IF e = 2 THEN 8 ELSE 4
         /\ 8 * Noise!WordBytes(e) = 2 * e * Noise!PerWord(e)
  <1>1. CbdCoeffs \in Nat \ {0} /\ CbdCoeffs % 8 = 0
    BY PrimitivesAssumption
  <1>2. PICK q \in Nat : CbdCoeffs = 8 * q
    <2>1. CbdCoeffs = 8 * (CbdCoeffs \div 8) /\ CbdCoeffs \div 8 \in Nat
      BY <1>1
    <2> QED
      BY <2>1
  <1>3. CbdCoeffs \div 8 = q /\ CbdCoeffs \div 4 = 2 * q /\ q # 0
    BY <1>1, <1>2
  <1> QED
    BY <1>2, <1>3 DEF Noise!Iterations, Noise!PerWord, Noise!WordBytes

LEMMA SqueezedIs ==
  ASSUME NEW l \in {2, 3, 4}
  PROVE  /\ Noise!Eta(l) \in {2, 3}
         /\ 8 * Noise!SqueezedBytes(l) = 8 * Noise!WordBytes(Noise!Eta(l)) * Noise!Iterations(Noise!Eta(l))
  <1>1. CbdCoeffs \in Nat \ {0} /\ CbdCoeffs % 8 = 0
    BY PrimitivesAssumption
  <1>2. PICK q \in Nat : CbdCoeffs = 8 * q
    <2>1. CbdCoeffs = 8 * (CbdCoeffs \div 8) /\ CbdCoeffs \div 8 \in Nat
      BY <1>1
    <2> QED
      BY <2>1
  <1>3. /\ CbdCoeffs \div 8 = q /\ CbdCoeffs \div 4 = 2 * q
        /\ (192 * CbdCoeffs) \div 256 = 6 * q /\ (128 * CbdCoeffs) \div 256 = 4 * q
    BY <1>2
  <1>4. CASE l = 2
    <2>1. /\ Noise!Eta(l) = 3 /\ Noise!SqueezedBytes(l) = 6 * q
          /\ Noise!WordBytes(3) = 3 /\ Noise!Iterations(3) = 2 * q
      BY <1>3, <1>4 DEF Noise!Eta, Noise!SqueezedBytes, Noise!WordBytes, Noise!Iterations, Noise!PerWord
    <2> QED
      BY <2>1
  <1>5. CASE l # 2
    <2>1. /\ Noise!Eta(l) = 2 /\ Noise!SqueezedBytes(l) = 4 * q
          /\ Noise!WordBytes(2) = 4 /\ Noise!Iterations(2) = q
      BY <1>3, <1>5 DEF Noise!Eta, Noise!SqueezedBytes, Noise!WordBytes, Noise!Iterations, Noise!PerWord
    <2> QED
      BY <2>1
  <1> QED
    BY <1>4, <1>5

\* The ones among two or three bits.
LEMMA OnesOfTwo ==
  ASSUME NEW from \in Nat, stream[from] \in Bits, stream[from + 1] \in Bits
  PROVE  Noise!BitCount(from, 2) = stream[from] + stream[from + 1]
  <1> DEFINE ones == {b \in from .. from + 2 - 1 : stream[b] = 1}
             first == IF stream[from] = 1 THEN {from} ELSE {}
             second == IF stream[from + 1] = 1 THEN {from + 1} ELSE {}
  <1>1. Noise!BitCount(from, 2) = Cardinality(ones)
    BY DEF Noise!BitCount, Noise!Cardinality, Cardinality
  <1>2. ones = first \cup second
    <2>1. \A b : b \in from .. from + 2 - 1 <=> b = from \/ b = from + 1
      BY SMT
    <2> QED
      BY <2>1
  <1>3. IsFiniteSet(first) /\ Cardinality(first) = stream[from]
    BY FS_EmptySet, FS_Singleton DEF Bits
  <1>4. CASE stream[from + 1] = 0
    <2>1. ones = first
      BY <1>2, <1>4
    <2> QED
      BY <1>1, <1>3, <1>4, <2>1 DEF Bits
  <1>5. CASE stream[from + 1] = 1
    <2>1. ones = first \cup {from + 1} /\ from + 1 \notin first
      BY <1>2, <1>5
    <2>2. Cardinality(first \cup {from + 1}) = Cardinality(first) + 1
      BY <1>3, <2>1, FS_AddElement
    <2> QED
      BY <1>1, <1>3, <1>5, <2>1, <2>2
  <1> QED
    BY <1>4, <1>5 DEF Bits

LEMMA OnesOfThree ==
  ASSUME NEW from \in Nat, stream[from] \in Bits, stream[from + 1] \in Bits, stream[from + 2] \in Bits
  PROVE  Noise!BitCount(from, 3) = stream[from] + stream[from + 1] + stream[from + 2]
  <1> DEFINE ones == {b \in from .. from + 3 - 1 : stream[b] = 1}
             fewer == {b \in from .. from + 2 - 1 : stream[b] = 1}
  <1>1. Noise!BitCount(from, 3) = Cardinality(ones) /\ Noise!BitCount(from, 2) = Cardinality(fewer)
    BY DEF Noise!BitCount, Noise!Cardinality, Cardinality
  <1>2. /\ \A b : b \in from .. from + 3 - 1 <=> b \in from .. from + 2 - 1 \/ b = from + 2
        /\ from + 2 \notin from .. from + 2 - 1
    BY SMT
  <1>3. IsFiniteSet(fewer)
    <2>1. IsFiniteSet(from .. from + 2 - 1)
      BY FS_Interval
    <2> QED
      BY <2>1, FS_Subset
  <1>4. Cardinality(fewer) = stream[from] + stream[from + 1]
    BY <1>1, OnesOfTwo
  <1>5. CASE stream[from + 2] = 0
    <2>1. ones = fewer
      BY <1>2, <1>5
    <2> QED
      BY <1>1, <1>4, <1>5, <2>1 DEF Bits
  <1>6. CASE stream[from + 2] = 1
    <2>1. ones = fewer \cup {from + 2} /\ from + 2 \notin fewer
      BY <1>2, <1>6
    <2>2. Cardinality(fewer \cup {from + 2}) = Cardinality(fewer) + 1
      BY <1>3, <2>1, FS_AddElement
    <2> QED
      BY <1>1, <1>4, <1>6, <2>1, <2>2
  <1> QED
    BY <1>5, <1>6 DEF Bits

\* The subtraction of the noise is that of ModArith.
LEMMA NoiseSub ==
  ASSUME NEW a \in 0 .. 3, NEW b \in 0 .. 3
  PROVE  Noise!ml_kem_sub_mod(a, b) = (a - b) % ML_KEM_Q
  <1>1. a \in Residues /\ b \in Residues
    BY DEF Residues, ML_KEM_Q
  <1>2. Noise!ml_kem_sub_mod(a, b) = ml_kem_sub_mod(a, b)
    BY DEF Noise!ml_kem_sub_mod, ml_kem_sub_mod, Noise!ml_kem_ct_sub_if_ge, ml_kem_ct_sub_if_ge,
           Noise!U16, U16, Noise!And, And, Noise!Borrow, Borrow, Noise!Lift, Lift,
           Noise!ML_KEM_Q, ML_KEM_Q
  <1> QED
    BY <1>1, <1>2, SubCorrect

\* The word of an iteration, bit by bit.
LEMMA LoadedWord ==
  ASSUME StreamShape, iteration < Noise!Iterations(eta)
  PROVE  LET w == Noise!Load(Noise!WordBytes(eta) * iteration, eta)
             base == 2 * eta * Noise!PerWord(eta) * iteration
         IN  /\ w \in Words /\ base \in Nat
             /\ \A b \in 0 .. 2 * eta * Noise!PerWord(eta) - 1 :
                  /\ w[b] = stream[base + b] /\ stream[base + b] \in Bits
  <1> DEFINE w == Noise!Load(Noise!WordBytes(eta) * iteration, eta)
             base == 2 * eta * Noise!PerWord(eta) * iteration
             size == 8 * Noise!WordBytes(eta)
  <1>1. /\ eta \in {2, 3} /\ iteration \in Nat /\ Noise!Iterations(eta) \in Nat
        /\ size = 2 * eta * Noise!PerWord(eta) /\ Noise!WordBytes(eta) \in {3, 4}
        /\ size \in {24, 32} /\ 8 * (Noise!WordBytes(eta) * iteration) = size * iteration
    <2>1. eta \in {2, 3} /\ iteration \in Nat
      BY DEF StreamShape
    <2>2. /\ Noise!Iterations(eta) \in Nat /\ Noise!WordBytes(eta) = IF eta = 2 THEN 4 ELSE 3
          /\ 8 * Noise!WordBytes(eta) = 2 * eta * Noise!PerWord(eta)
      BY <2>1, LoopNumbers
    <2>3. CASE eta = 2
      BY <2>1, <2>2, <2>3
    <2>4. CASE eta = 3
      BY <2>1, <2>2, <2>4
    <2> QED
      BY <2>1, <2>3, <2>4
  <1>2. DOMAIN stream = 0 .. size * Noise!Iterations(eta) - 1
    BY DEF StreamShape
  <1>3. base = size * iteration
    BY <1>1
  <1>4. \A b \in 0 .. 31 : w[b] = IF b < size /\ base + b \in DOMAIN stream THEN stream[base + b] ELSE 0
    <2>1. \A b \in 0 .. 31 : w[b] = IF b < size /\ 8 * (Noise!WordBytes(eta) * iteration) + b \in DOMAIN stream
                                    THEN stream[8 * (Noise!WordBytes(eta) * iteration) + b] ELSE 0
      BY DEF Noise!Load, Noise!WordBits
    <2> HIDE DEF size, base, w
    <2> QED
      BY <1>1, <1>3, <2>1
  <1>5. w \in Words
    <2>1. \A b \in WordBits : w[b] \in Bits
      BY <1>4 DEF StreamShape, Bits, WordBits
    <2>2. w = [b \in WordBits |-> w[b]]
      BY DEF Noise!Load, Noise!WordBits, WordBits
    <2> HIDE DEF w
    <2> QED
      BY <2>1, <2>2 DEF Words
  <1> HIDE DEF w
  <1>6. \A b \in 0 .. size - 1 : b \in 0 .. 31 /\ b < size /\ base + b \in DOMAIN stream
    <2> DEFINE its == Noise!Iterations(eta)
    <2> HIDE DEF size, its, base
    <2>1. its \in Nat /\ iteration \in Nat /\ iteration < its /\ base = size * iteration
          /\ DOMAIN stream = 0 .. size * its - 1
      BY <1>1, <1>2, <1>3 DEF its
    <2>2. CASE size = 24
      BY <2>1, <2>2
    <2>3. CASE size = 32
      BY <2>1, <2>3
    <2> QED
      BY <1>1, <2>2, <2>3 DEF size
  <1>7. \A b \in 0 .. size - 1 : w[b] = stream[base + b] /\ stream[base + b] \in Bits
    BY <1>4, <1>6 DEF StreamShape
  <1>8. base \in Nat
    <2> HIDE DEF size, base
    <2>1. size \in {24, 32} /\ iteration \in Nat /\ base = size * iteration
      BY <1>1, <1>3 DEF size
    <2> QED
      BY <2>1
  <1> HIDE DEF base
  <1> QED
    BY <1>1, <1>5, <1>7, <1>8 DEF w, base

\* A coefficient of the iteration.
Coefficient(j) ==
  LET d == Noise!Counted(Noise!Load(Noise!WordBytes(eta) * iteration, eta), eta)
  IN  Noise!ml_kem_sub_mod(Noise!Field(d, 2 * eta * j, eta),
                           Noise!Field(d, 2 * eta * j + Noise!Offset(eta), eta))

LEMMA CoefficientIs ==
  ASSUME StreamShape, iteration < Noise!Iterations(eta), NEW j \in 0 .. Noise!PerWord(eta) - 1,
         NEW first, first = 2 * eta * (Noise!PerWord(eta) * iteration + j)
  PROVE  /\ Noise!BitCount(first, eta) \in 0 .. eta /\ Noise!BitCount(first + eta, eta) \in 0 .. eta
         /\ Coefficient(j) = (Noise!BitCount(first, eta) - Noise!BitCount(first + eta, eta)) % ML_KEM_Q
  <1>1. PICK w, base : /\ w = Noise!Load(Noise!WordBytes(eta) * iteration, eta)
                       /\ base = 2 * eta * Noise!PerWord(eta) * iteration
    OBVIOUS
  <1>2. /\ w \in Words /\ base \in Nat
        /\ \A b \in 0 .. 2 * eta * Noise!PerWord(eta) - 1 :
             w[b] = stream[base + b] /\ stream[base + b] \in Bits
    BY <1>1, LoadedWord
  <1>3. iteration \in Nat /\ eta \in {2, 3}
    BY DEF StreamShape
  <1>4. CASE eta = 2
    <2>1. Noise!PerWord(eta) = 8
      BY <1>4, LoopNumbers
    <2>2. j \in 0 .. 7 /\ base = 32 * iteration /\ first = base + 4 * j
      BY <1>1, <1>3, <1>4, <2>1
    <2>3. /\ 4 * j \in WordBits /\ (4 * j) % 2 = 0 /\ 4 * j + 2 \in WordBits /\ (4 * j + 2) % 2 = 0
          /\ {4 * j, 4 * j + 1, 4 * j + 2, 4 * j + 3} \subseteq 0 .. 31
          /\ (4 * j + 2) + 1 = 4 * j + 3
      BY <2>2 DEF WordBits
    <2>4. \A b \in 0 .. 31 : w[b] = stream[base + b] /\ stream[base + b] \in Bits
      BY <1>2, <1>4, <2>1
    <2>5. /\ base + 4 * j = first /\ base + (4 * j + 1) = first + 1 /\ base + (4 * j + 2) = first + 2
          /\ base + (4 * j + 3) = (first + 2) + 1 /\ first \in Nat /\ first + 2 \in Nat
      BY <1>2, <2>2
    <2>6. /\ w[4 * j] = stream[first] /\ w[4 * j + 1] = stream[first + 1]
          /\ w[4 * j + 2] = stream[first + 2] /\ w[4 * j + 3] = stream[(first + 2) + 1]
          /\ stream[first] \in Bits /\ stream[first + 1] \in Bits
          /\ stream[first + 2] \in Bits /\ stream[(first + 2) + 1] \in Bits
      <3>1. 4 * j \in 0 .. 31 /\ 4 * j + 1 \in 0 .. 31 /\ 4 * j + 2 \in 0 .. 31 /\ 4 * j + 3 \in 0 .. 31
        BY <2>3
      <3> QED
        BY <2>4, <2>5, <3>1
    <2>7. /\ Noise!Field(Noise!Counted(w, 2), 4 * j, 2) = w[4 * j] + w[4 * j + 1]
          /\ Noise!Field(Noise!Counted(w, 2), 4 * j + 2, 2) = w[4 * j + 2] + w[4 * j + 3]
      BY <1>2, <2>3, CountedTwo
    <2>8. /\ Noise!BitCount(first, 2) = stream[first] + stream[first + 1]
          /\ Noise!BitCount(first + 2, 2) = stream[first + 2] + stream[(first + 2) + 1]
      BY <2>5, <2>6, OnesOfTwo
    <2>9. /\ Noise!Field(Noise!Counted(w, 2), 4 * j, 2) = Noise!BitCount(first, 2)
          /\ Noise!Field(Noise!Counted(w, 2), 4 * j + 2, 2) = Noise!BitCount(first + 2, 2)
          /\ Noise!BitCount(first, 2) \in 0 .. 2 /\ Noise!BitCount(first + 2, 2) \in 0 .. 2
      BY <2>6, <2>7, <2>8 DEF Bits
    <2>10. Coefficient(j) = Noise!ml_kem_sub_mod(Noise!BitCount(first, 2), Noise!BitCount(first + 2, 2))
      <3>1. 2 * eta * j = 4 * j /\ 2 * eta * j + Noise!Offset(eta) = 4 * j + 2
        BY <1>4, <2>2 DEF Noise!Offset
      <3> QED
        BY <1>1, <1>4, <2>9, <3>1 DEF Coefficient
    <2> DEFINE a == Noise!BitCount(first, 2)
               b == Noise!BitCount(first + 2, 2)
    <2>11. a \in 0 .. 3 /\ b \in 0 .. 3
      BY <2>9
    <2>12. Noise!ml_kem_sub_mod(a, b) = (a - b) % ML_KEM_Q
      BY <2>11, NoiseSub
    <2> QED
      BY <1>4, <2>9, <2>10, <2>12
  <1>5. CASE eta = 3
    <2>1. Noise!PerWord(eta) = 4
      BY <1>5, LoopNumbers
    <2>2. j \in 0 .. 3 /\ base = 24 * iteration /\ first = base + 6 * j
      BY <1>1, <1>3, <1>5, <2>1
    <2>3. /\ 6 * j \in 0 .. 23 /\ (6 * j) % 3 = 0 /\ 6 * j + 3 \in 0 .. 23 /\ (6 * j + 3) % 3 = 0
          /\ (6 * j + 3) + 1 = 6 * j + 4 /\ (6 * j + 3) + 2 = 6 * j + 5
      BY <2>2
    <2>4. \A b \in 0 .. 23 : w[b] = stream[base + b] /\ stream[base + b] \in Bits
      BY <1>2, <1>5, <2>1
    <2>5. /\ base + 6 * j = first /\ base + (6 * j + 1) = first + 1 /\ base + (6 * j + 2) = first + 2
          /\ base + (6 * j + 3) = first + 3 /\ base + (6 * j + 4) = (first + 3) + 1
          /\ base + (6 * j + 5) = (first + 3) + 2 /\ first \in Nat /\ first + 3 \in Nat
      BY <1>2, <2>2
    <2>6. /\ w[6 * j] = stream[first] /\ w[6 * j + 1] = stream[first + 1]
          /\ w[6 * j + 2] = stream[first + 2] /\ w[6 * j + 3] = stream[first + 3]
          /\ w[6 * j + 4] = stream[(first + 3) + 1] /\ w[6 * j + 5] = stream[(first + 3) + 2]
          /\ stream[first] \in Bits /\ stream[first + 1] \in Bits /\ stream[first + 2] \in Bits
          /\ stream[first + 3] \in Bits /\ stream[(first + 3) + 1] \in Bits
          /\ stream[(first + 3) + 2] \in Bits
      <3>1. /\ 6 * j \in 0 .. 23 /\ 6 * j + 1 \in 0 .. 23 /\ 6 * j + 2 \in 0 .. 23
            /\ 6 * j + 3 \in 0 .. 23 /\ 6 * j + 4 \in 0 .. 23 /\ 6 * j + 5 \in 0 .. 23
        BY <2>2
      <3> QED
        BY <2>4, <2>5, <3>1
    <2>7. /\ Noise!Field(Noise!Counted(w, 3), 6 * j, 3) = w[6 * j] + w[6 * j + 1] + w[6 * j + 2]
          /\ Noise!Field(Noise!Counted(w, 3), 6 * j + 3, 3) = w[6 * j + 3] + w[6 * j + 4] + w[6 * j + 5]
      BY <1>2, <2>3, CountedThree
    <2>8. /\ Noise!BitCount(first, 3) = stream[first] + stream[first + 1] + stream[first + 2]
          /\ Noise!BitCount(first + 3, 3) = stream[first + 3] + stream[(first + 3) + 1] + stream[(first + 3) + 2]
      BY <2>5, <2>6, OnesOfThree
    <2>9. /\ Noise!Field(Noise!Counted(w, 3), 6 * j, 3) = Noise!BitCount(first, 3)
          /\ Noise!Field(Noise!Counted(w, 3), 6 * j + 3, 3) = Noise!BitCount(first + 3, 3)
          /\ Noise!BitCount(first, 3) \in 0 .. 3 /\ Noise!BitCount(first + 3, 3) \in 0 .. 3
      BY <2>6, <2>7, <2>8 DEF Bits
    <2>10. Coefficient(j) = Noise!ml_kem_sub_mod(Noise!BitCount(first, 3), Noise!BitCount(first + 3, 3))
      <3>1. 2 * eta * j = 6 * j /\ 2 * eta * j + Noise!Offset(eta) = 6 * j + 3
        BY <1>5, <2>2 DEF Noise!Offset
      <3> QED
        BY <1>1, <1>5, <2>9, <3>1 DEF Coefficient
    <2> DEFINE a == Noise!BitCount(first, 3)
               b == Noise!BitCount(first + 3, 3)
    <2>11. a \in 0 .. 3 /\ b \in 0 .. 3
      BY <2>9
    <2>12. Noise!ml_kem_sub_mod(a, b) = (a - b) % ML_KEM_Q
      BY <2>11, NoiseSub
    <2> QED
      BY <1>5, <2>9, <2>10, <2>12
  <1> QED
    BY <1>3, <1>4, <1>5

\* An iteration sets the coefficients of its word and no others.
LEMMA IterateSets ==
  ASSUME StreamShape, Noise!Iterate, NEW c \in DOMAIN poly
  PROVE  IF c \div Noise!PerWord(eta) = iteration
         THEN /\ \E x \in -eta .. eta : poly'[c] = x % ML_KEM_Q
              /\ poly'[c] = (Noise!BitCount(2 * eta * c, eta)
                               - Noise!BitCount(2 * eta * c + eta, eta)) % ML_KEM_Q
         ELSE poly'[c] = poly[c]
  <1> DEFINE per == Noise!PerWord(eta)
  <1>1. /\ eta \in {2, 3} /\ per \in {4, 8} /\ iteration \in Nat /\ c \in Nat
        /\ iteration < Noise!Iterations(eta)
    <2>1. eta \in {2, 3} /\ iteration \in Nat /\ c \in Nat
      BY DEF StreamShape
    <2> QED
      BY <2>1, LoopNumbers DEF Noise!Iterate
  <1>2. poly'[c] = IF c \div per = iteration THEN Coefficient(c % per) ELSE poly[c]
    BY DEF Noise!Iterate, Coefficient
  <1>3. CASE c \div per = iteration
    <2> HIDE DEF per
    <2>1. c % per \in 0 .. per - 1 /\ per * iteration + (c % per) = c
      <3>1. CASE per = 4
        BY <1>1, <1>3, <3>1
      <3>2. CASE per = 8
        BY <1>1, <1>3, <3>2
      <3> QED
        BY <1>1, <3>1, <3>2
    <2>2. PICK first : first = 2 * eta * c
      OBVIOUS
    <2>3. first = 2 * eta * (Noise!PerWord(eta) * iteration + (c % per))
      BY <2>1, <2>2 DEF per
    <2>4. /\ Noise!BitCount(first, eta) \in 0 .. eta /\ Noise!BitCount(first + eta, eta) \in 0 .. eta
          /\ Coefficient(c % per) = (Noise!BitCount(first, eta) - Noise!BitCount(first + eta, eta)) % ML_KEM_Q
      <3>1. c % per \in 0 .. Noise!PerWord(eta) - 1
        BY <2>1 DEF per
      <3> QED
        BY <1>1, <2>3, <3>1, CoefficientIs
    <2>5. Noise!BitCount(first, eta) - Noise!BitCount(first + eta, eta) \in -eta .. eta
      BY <1>1, <2>4
    <2> QED
      BY <1>2, <1>3, <2>2, <2>4, <2>5 DEF per
  <1>4. CASE c \div per # iteration
    BY <1>2, <1>4
  <1> QED
    BY <1>3, <1>4

LEMMA IterateKeeps ==
  ASSUME CbdInv, Noise!Iterate
  PROVE  CbdInv'
  <1> DEFINE per == Noise!PerWord(eta)
             its == Noise!Iterations(eta)
  <1>1. /\ StreamShape /\ eta \in {2, 3} /\ iteration \in Nat /\ iteration < its /\ its \in Nat
        /\ iteration' = iteration + 1 /\ per \in {4, 8} /\ per * its = CbdCoeffs
        /\ DOMAIN poly = 0 .. CbdCoeffs - 1 /\ CbdCoeffs \in Nat
    <2>1. StreamShape /\ eta \in {2, 3} /\ iteration \in Nat /\ DOMAIN poly = 0 .. CbdCoeffs - 1
      BY DEF CbdInv, StreamShape
    <2> QED
      BY <2>1, LoopNumbers, PrimitivesAssumption DEF Noise!Iterate
  <1>2. UNCHANGED <<eta, stream>> /\ DOMAIN poly' = DOMAIN poly
    BY DEF Noise!Iterate
  <1>3. StreamShape'
    BY <1>1, <1>2 DEF StreamShape
  <1>4. ASSUME NEW c \in DOMAIN poly
        PROVE  /\ c \in Nat
               /\ c \div per = iteration => per * iteration <= c /\ c < per * (iteration + 1)
               /\ c \div per # iteration => (c < per * iteration <=> c < per * (iteration + 1))
    <2>1. c \in Nat
      BY <1>1
    <2> HIDE DEF per, its
    <2>2. CASE per = 4
      BY <1>1, <2>1, <2>2
    <2>3. CASE per = 8
      BY <1>1, <2>1, <2>3
    <2> QED
      BY <1>1, <2>1, <2>2, <2>3
  <1>5. \A c \in DOMAIN poly :
          IF c < per * iteration THEN \E x \in -eta .. eta : poly[c] = x % ML_KEM_Q
                                 ELSE poly[c] = Noise!Unset
    BY DEF CbdInv, Noise!TypeOK, Noise!ML_KEM_Q, ML_KEM_Q
  <1>6. ASSUME NEW c \in DOMAIN poly
        PROVE  IF c < per * (iteration + 1) THEN \E x \in -eta .. eta : poly'[c] = x % ML_KEM_Q
                                            ELSE poly'[c] = Noise!Unset
    <2>1. CASE c \div per = iteration
      BY <1>1, <1>4, <2>1, IterateSets
    <2>2. CASE c \div per # iteration
      <3>1. poly'[c] = poly[c]
        BY <1>1, <2>2, IterateSets
      <3>2. c < per * iteration <=> c < per * (iteration + 1)
        BY <1>4, <2>2
      <3> QED
        BY <1>5, <3>1, <3>2
    <2> QED
      BY <2>1, <2>2
  <1>7. Noise!TypeOK'
    <2>1. iteration' \in 0 .. its
      <3> HIDE DEF its
      <3> QED
        BY <1>1
    <2>2. Noise!PerWord(eta)' = Noise!PerWord(eta) /\ Noise!Iterations(eta)' = Noise!Iterations(eta)
      BY <1>2
    <2> QED
      BY <1>1, <1>2, <1>6, <2>1, <2>2 DEF Noise!TypeOK, Noise!ML_KEM_Q, ML_KEM_Q
  <1>8. ASSUME NEW c \in 0 .. per * (iteration + 1) - 1
        PROVE  poly'[c] = (Noise!BitCount(2 * eta * c, eta)
                             - Noise!BitCount(2 * eta * c + eta, eta)) % ML_KEM_Q
    <2>1. c \in DOMAIN poly /\ c \in Nat
      <3> HIDE DEF per, its
      <3>1. CASE per = 4
        BY <1>1, <3>1
      <3>2. CASE per = 8
        BY <1>1, <3>2
      <3> QED
        BY <1>1, <3>1, <3>2
    <2>2. CASE c \div per = iteration
      BY <1>1, <2>1, <2>2, IterateSets
    <2>3. CASE c \div per # iteration
      <3>1. poly'[c] = poly[c]
        BY <1>1, <2>1, <2>3, IterateSets
      <3>2. c \in 0 .. per * iteration - 1
        <4>1. c < per * iteration
          <5>1. c < per * (iteration + 1)
            <6> HIDE DEF per
            <6>1. per * (iteration + 1) \in Int
              BY <1>1
            <6> QED
              BY <2>1, <6>1
          <5> QED
            BY <1>4, <2>1, <2>3, <5>1
        <4>2. per * iteration \in Int
          <5> HIDE DEF per
          <5> QED
            BY <1>1
        <4> HIDE DEF per
        <4> QED
          BY <2>1, <4>1, <4>2
      <3> QED
        BY <3>1, <3>2 DEF CbdInv, Noise!DifferenceOfCounts, Noise!ML_KEM_Q, ML_KEM_Q
    <2> QED
      BY <2>2, <2>3
  <1>9. Noise!DifferenceOfCounts'
    <2>1. \A from, l : Noise!BitCount(from, l)' = Noise!BitCount(from, l)
      BY <1>2 DEF Noise!BitCount
    <2> QED
      BY <1>1, <1>2, <1>8, <2>1 DEF Noise!DifferenceOfCounts, Noise!ML_KEM_Q, ML_KEM_Q
  <1> QED
    BY <1>3, <1>7, <1>9 DEF CbdInv

LEMMA CbdStarts ==
  ASSUME Noise!Init
  PROVE  CbdInv
  <1>1. PICK l \in {2, 3, 4} :
          /\ eta = Noise!Eta(l)
          /\ \E c \in 0 .. CbdCoeffs - 1, bits \in [0 .. 2 * Noise!Eta(l) - 1 -> {0, 1}], rest \in {0, 1} :
               stream = [b \in 0 .. 8 * Noise!SqueezedBytes(l) - 1 |->
                          IF b \div (2 * Noise!Eta(l)) = c THEN bits[b % (2 * Noise!Eta(l))] ELSE rest]
    BY PrimitivesAssumption DEF Noise!Init
  <1>2. /\ eta \in {2, 3} /\ CbdCoeffs \in Nat \ {0}
        /\ 8 * Noise!SqueezedBytes(l) = 8 * Noise!WordBytes(eta) * Noise!Iterations(eta)
        /\ Noise!PerWord(eta) * Noise!Iterations(eta) = CbdCoeffs
        /\ Noise!Iterations(eta) \in Nat /\ Noise!PerWord(eta) \in {4, 8}
    BY <1>1, SqueezedIs, LoopNumbers, PrimitivesAssumption
  <1>3. /\ DOMAIN stream = 0 .. 8 * Noise!SqueezedBytes(l) - 1
        /\ \A b \in DOMAIN stream : stream[b] \in {0, 1}
    <2>1. PICK c \in 0 .. CbdCoeffs - 1, bits \in [0 .. 2 * Noise!Eta(l) - 1 -> {0, 1}], rest \in {0, 1} :
            stream = [b \in 0 .. 8 * Noise!SqueezedBytes(l) - 1 |->
                        IF b \div (2 * Noise!Eta(l)) = c THEN bits[b % (2 * Noise!Eta(l))] ELSE rest]
      BY <1>1
    <2>2. ASSUME NEW b \in 0 .. 8 * Noise!SqueezedBytes(l) - 1
          PROVE  b % (2 * eta) \in 0 .. 2 * eta - 1
      <3>1. b \in Int
        OBVIOUS
      <3>2. CASE eta = 2
        BY <3>1, <3>2
      <3>3. CASE eta = 3
        BY <3>1, <3>3
      <3> QED
        BY <1>2, <3>2, <3>3
    <2> QED
      BY <1>1, <2>1, <2>2
  <1>4. /\ iteration = 0 /\ poly = [c \in 0 .. CbdCoeffs - 1 |-> Noise!Unset]
    BY DEF Noise!Init
  <1>5. StreamShape
    BY <1>2, <1>3, <1>4 DEF StreamShape, Bits
  <1>6. Noise!PerWord(eta) * iteration = 0
    BY <1>2, <1>4
  <1>7. Noise!TypeOK
    BY <1>2, <1>4, <1>6 DEF Noise!TypeOK
  <1>8. Noise!DifferenceOfCounts
    <2>1. 0 .. Noise!PerWord(eta) * iteration - 1 = {}
      BY <1>6
    <2> QED
      BY <2>1 DEF Noise!DifferenceOfCounts
  <1> QED
    BY <1>5, <1>7, <1>8 DEF CbdInv

\* The loop never asks for a byte that was not squeezed, and leaves none.
LEMMA LoopUsesStream ==
  ASSUME CbdInv
  PROVE  Noise!UsesWhatWasSqueezed
  <1> DEFINE bytes == Noise!WordBytes(eta)
             its == Noise!Iterations(eta)
  <1>1. /\ eta \in {2, 3} /\ bytes \in {3, 4} /\ its \in Nat \ {0} /\ iteration \in 0 .. its
        /\ DOMAIN stream = 0 .. 8 * bytes * its - 1
    <2>1. eta \in {2, 3} /\ iteration \in 0 .. its /\ DOMAIN stream = 0 .. 8 * bytes * its - 1
      BY DEF CbdInv, StreamShape, Noise!TypeOK
    <2> QED
      BY <2>1, LoopNumbers
  <1> HIDE DEF bytes, its
  <1>2. 8 * bytes * its \in Nat /\ 8 * bytes * its >= 1 /\ bytes * iteration * 8 \in Nat
        /\ bytes * iteration * 8 <= 8 * bytes * its /\ bytes * its * 8 = 8 * bytes * its
    <2>1. CASE bytes = 3
      BY <1>1, <2>1
    <2>2. CASE bytes = 4
      BY <1>1, <2>2
    <2> QED
      BY <1>1, <2>1, <2>2
  <1>3. Noise!Cardinality(DOMAIN stream) = 8 * bytes * its
    <2>1. PICK size \in Nat : size = 8 * bytes * its
      BY <1>2
    <2>2. Cardinality(0 .. size - 1) = size
      <3>1. size >= 1 /\ 0 \in Int /\ size - 1 \in Int
        BY <1>2, <2>1
      <3>2. Cardinality(0 .. size - 1) = (size - 1) - 0 + 1
        BY <3>1, FS_Interval
      <3> QED
        BY <3>1, <3>2
    <2>3. Noise!Cardinality(DOMAIN stream) = Cardinality(DOMAIN stream)
      BY DEF Noise!Cardinality, Cardinality
    <2> QED
      BY <1>1, <2>1, <2>2, <2>3
  <1>4. iteration = its => bytes * iteration * 8 = 8 * bytes * its
    BY <1>2
  <1> QED
    BY <1>2, <1>3, <1>4 DEF Noise!UsesWhatWasSqueezed, bytes, its

LEMMA CbdSafe == PrimitivesSpec => [](part = "cbd" => CbdInv)
  <1>1. PrimitivesInit => (part = "cbd" => CbdInv)
    BY CbdStarts DEF PrimitivesInit
  <1>2. ASSUME part = "cbd" => CbdInv, [PrimitivesNext]_primitiveVars
        PROVE  (part = "cbd" => CbdInv)'
    <2>1. CASE RunCbd(Noise!Next)
      BY <1>2, <2>1, IterateKeeps DEF RunCbd, Noise!Next
    <2>2. CASE RunResidues(Next) \/ RunNtt(Transforming!Next) \/ RunKeccak(Permutation!Next)
               \/ RunScheme(Scheme!Next)
      BY <2>2 DEF RunResidues, RunNtt, RunKeccak, RunScheme
    <2>3. CASE UNCHANGED primitiveVars
      <3>1. UNCHANGED <<part, eta, stream, iteration, poly>>
        BY <2>3 DEF primitiveVars, cbdVars
      <3> QED
        BY <1>2, <3>1 DEF CbdInv, StreamShape, Noise!TypeOK, Noise!DifferenceOfCounts, Noise!BitCount
    <2> QED
      BY <1>2, <2>1, <2>2, <2>3 DEF PrimitivesNext
  <1> QED
    BY <1>1, <1>2, PTL DEF PrimitivesSpec

\* The noise is what the stream says, for every number of coefficients that the
\* loops cover with whole words (cbd2 and cbd3, ml_kem_core_header.h).
THEOREM NoiseIsStream == PrimitivesSpec => []NoiseFromStream
  <1>1. (part = "cbd" => CbdInv) => NoiseFromStream
    BY LoopUsesStream DEF NoiseFromStream, Noise!NoiseFromStream, CbdInv
  <1> QED
    BY <1>1, CbdSafe, PTL

-----------------------------------------------------------------------------
(* The scheme: the monomials of formal polynomials *)

Monomials(g) == DOMAIN g.terms

\* What Combine and Multiply make, and Ntt and Intt keep.
IsPoly(g) == DOMAIN g = {"dom", "terms"}

Single(a) == Scheme!SetToBag({a})

LEMMA ZeroShape ==
  IsPoly(Scheme!Zero) /\ Monomials(Scheme!Zero) = {}
  BY DEF IsPoly, Monomials, Scheme!Zero

LEMMA SampleShape ==
  ASSUME NEW a
  PROVE  /\ IsPoly(Scheme!Atom(a)) /\ Monomials(Scheme!Atom(a)) = {Single(a)}
         /\ Scheme!Atom(a).terms[Single(a)] = 1
         /\ IsPoly(Scheme!SampledInNtt(a)) /\ Monomials(Scheme!SampledInNtt(a)) = {Single(a)}
         /\ DOMAIN Single(a) = {a}
  BY DEF IsPoly, Monomials, Single, Scheme!Atom, Scheme!SampledInNtt, Scheme!SetToBag

LEMMA TransformShape ==
  ASSUME NEW g, IsPoly(g)
  PROVE  /\ IsPoly(Scheme!Ntt(g)) /\ Scheme!Ntt(g).terms = g.terms
         /\ IsPoly(Scheme!Intt(g)) /\ Scheme!Intt(g).terms = g.terms
  BY DEF IsPoly, Scheme!Ntt, Scheme!Intt

LEMMA SumShape ==
  ASSUME NEW g, NEW h
  PROVE  /\ IsPoly(Scheme!Add(g, h))
         /\ Monomials(Scheme!Add(g, h)) \subseteq Monomials(g) \cup Monomials(h)
  BY DEF IsPoly, Monomials, Scheme!Add, Scheme!Combine

\* A monomial that only one of the two has stays.
LEMMA SumKeeps ==
  ASSUME NEW g, NEW h, NEW w,
         \/ w \notin Monomials(g) /\ w \in Monomials(h) /\ h.terms[w] = 1
         \/ w \in Monomials(g) /\ g.terms[w] = 1 /\ w \notin Monomials(h)
  PROVE  w \in Monomials(Scheme!Add(g, h)) /\ Scheme!Add(g, h).terms[w] = 1
  <1> DEFINE value(e) == Scheme!Coefficient(g, e) + 1 * Scheme!Coefficient(h, e)
             left == {e \in DOMAIN g.terms \cup DOMAIN h.terms : value(e) # 0}
  <1>1. value(w) = 1
    BY DEF Monomials, Scheme!Coefficient
  <1>2. w \in left
    BY <1>1 DEF Monomials
  <1>3. Scheme!Add(g, h).terms = [e \in left |-> value(e)]
    BY DEF Scheme!Add, Scheme!Combine
  <1> HIDE DEF left, value
  <1> QED
    BY <1>1, <1>2, <1>3 DEF Monomials

LEMMA ProductIsPoly ==
  ASSUME NEW g, NEW h
  PROVE  IsPoly(Scheme!Multiply(g, h))
  BY DEF IsPoly, Scheme!Multiply

\* The atoms of w are those of a monomial of g and those of one of h.
Joins(g, h, w) ==
  \E a \in Monomials(g), b \in Monomials(h) : DOMAIN w = DOMAIN a \cup DOMAIN b

LEMMA ProductShape ==
  ASSUME NEW g, NEW h, NEW w \in Monomials(Scheme!Multiply(g, h))
  PROVE  Joins(g, h, w)
  <1>1. \A a, b : DOMAIN (Scheme!(+)(a, b)) = DOMAIN a \cup DOMAIN b
    BY DEF Scheme!(+)
  <1>2. PICK q \in Monomials(g) \X Monomials(h) : w = Scheme!(+)(q[1], q[2])
    BY DEF Monomials, Scheme!Multiply
  <1>3. DOMAIN w = DOMAIN (q[1]) \cup DOMAIN (q[2])
    BY <1>1, <1>2
  <1>4. q[1] \in Monomials(g) /\ q[2] \in Monomials(h)
    BY <1>2
  <1> QED
    BY <1>3, <1>4 DEF Joins

-----------------------------------------------------------------------------
(* The scheme: what its buffers are made of *)

Contexts == Scheme!Contexts
Rows == Scheme!Rows

\* The noise of a key and of a call, by its counter.
KeyNoise(c) == <<"noise", Scheme!sigma, c, Scheme!eta1>>
CallNoise(msg, c, e) == <<"noise", Scheme!r(msg), c, e>>

FromMatrix(a) == a[1] = "A"
OfKey(a) == \E c \in 0 .. k - 1 : a = KeyNoise(c)
OfPublic(a) == \E c \in 0 .. 2 * k - 1 : a = KeyNoise(c)
OfTemporary(msg, a) == \E c \in 0 .. k - 1 : a = CallNoise(msg, c, Scheme!eta1)

MatrixTerm(w) ==
  (\E a \in DOMAIN w : FromMatrix(a)) /\ \A a \in DOMAIN w : FromMatrix(a)
KeyTerm(w) ==
  (\E a \in DOMAIN w : FromMatrix(a)) /\ \A a \in DOMAIN w : FromMatrix(a) \/ OfKey(a)
CallTerm(msg, w) ==
  (\E a \in DOMAIN w : FromMatrix(a)) /\ \A a \in DOMAIN w : FromMatrix(a) \/ OfTemporary(msg, a)
SharedTerm(msg, w) ==
  /\ \E a \in DOMAIN w : OfTemporary(msg, a)
  /\ \A a \in DOMAIN w : FromMatrix(a) \/ OfPublic(a) \/ OfTemporary(msg, a)

\* Rows of the public key before and after their noise is added.
Public(row) ==
  \A w \in Monomials(t[row]) : w = Single(KeyNoise(k + row)) \/ KeyTerm(w)
PublicOpen(row) == \A w \in Monomials(t[row]) : KeyTerm(w)
PublicDone(row) == Public(row) /\ Single(KeyNoise(k + row)) \in Monomials(t[row])

KeyStage ==
  /\ k \in {2, 3, 4} /\ DOMAIN keygen = {"pc", "i", "j"}
  /\ keygen.pc \in {"secret", "public", "fill", "ready"}
  /\ keygen.i \in 0 .. k - 1 /\ keygen.j \in 0 .. k
  /\ DOMAIN secret = Rows /\ DOMAIN t = Rows /\ DOMAIN full_matrix = 0 .. k * k - 1
  /\ \A row \in Rows : IsPoly(secret[row]) /\ IsPoly(t[row])
  /\ \A row \in Rows : Monomials(secret[row]) \subseteq {Single(KeyNoise(row))}
  /\ \A row \in Rows : keygen.pc # "secret" \/ row < keygen.i =>
       Single(KeyNoise(row)) \in Monomials(secret[row])
  /\ keygen.pc = "secret" => \A row \in Rows : PublicOpen(row)
  /\ keygen.pc = "public" => \A row \in Rows : IF row < keygen.i THEN PublicDone(row)
                                                                ELSE PublicOpen(row)
  /\ keygen.pc \in {"fill", "ready"} => \A row \in Rows : PublicDone(row)
  /\ \A e \in DOMAIN full_matrix : \A w \in Monomials(full_matrix[e]) : MatrixTerm(w)

\* The ciphertext of a call, before and after its noise is added.
UOpen(c, row) ==
  IsPoly(u[c][row]) /\ \A w \in Monomials(u[c][row]) : CallTerm(job[c].m, w)
UDone(c, row) ==
  /\ Single(CallNoise(job[c].m, k + row, 2)) \in Monomials(u[c][row])
  /\ \A w \in Monomials(u[c][row]) :
       w = Single(CallNoise(job[c].m, k + row, 2)) \/ CallTerm(job[c].m, w)
VOpen(c) == IsPoly(v_poly[c]) /\ \A w \in Monomials(v_poly[c]) : SharedTerm(job[c].m, w)
VDone(c) ==
  /\ Single(CallNoise(job[c].m, 2 * k, 2)) \in Monomials(v_poly[c])
  /\ \A w \in Monomials(v_poly[c]) :
       \/ w = Single(CallNoise(job[c].m, 2 * k, 2)) \/ w = Single(<<"m", job[c].m>>)
       \/ SharedTerm(job[c].m, w)
YDone(c, row) ==
  Monomials(y[c][row]) = {Single(CallNoise(job[c].m, row, Scheme!eta1))}
ContextClean(c) == v_poly[c] = Scheme!Zero /\ \A row \in Rows : u[c][row] = Scheme!Zero

CallStage(c) ==
  /\ DOMAIN job[c] = {"pc", "i", "j", "m"}
  /\ job[c].pc \in {"idle", "decrypt", "y", "u", "v", "done"}
  /\ job[c].i \in 0 .. k /\ job[c].j \in 0 .. k
  /\ job[c].pc \in {"y", "u"} => job[c].i < k
  /\ DOMAIN y[c] = Rows /\ DOMAIN u[c] = Rows
  /\ job[c].pc # "idle" => keygen.pc = "ready"
  /\ job[c].pc \in {"idle", "decrypt", "y"} => ContextClean(c)
  /\ job[c].pc = "y" => \A row \in Rows : row < job[c].i => YDone(c, row)
  /\ job[c].pc \in {"u", "v", "done"} => \A row \in Rows : YDone(c, row)
  /\ job[c].pc = "u" => /\ v_poly[c] = Scheme!Zero
                        /\ \A row \in Rows : IF row < job[c].i THEN UDone(c, row) ELSE UOpen(c, row)
  /\ job[c].pc \in {"v", "done"} => \A row \in Rows : UDone(c, row)
  /\ job[c].pc = "v" => VOpen(c)
  /\ job[c].pc = "done" => VDone(c)

SlotStage ==
  /\ DOMAIN decrypt = {"u", "v", "poly", "m", "ciphertext"}
  /\ job["slot"].pc = "idle" \/ (job["slot"].pc = "decrypt" /\ job["slot"].i = 0) =>
       decrypt.poly = Scheme!Zero /\ decrypt.m = {}
  /\ wire # << >> => keygen.pc = "ready"
  /\ job["client"].pc # "decrypt"

SchemeInv ==
  /\ KeyStage /\ SlotStage
  /\ DOMAIN job = Contexts /\ DOMAIN y = Contexts /\ DOMAIN u = Contexts /\ DOMAIN v_poly = Contexts
  /\ \A c \in Contexts : CallStage(c)

-----------------------------------------------------------------------------
(* The scheme: key generation *)

LEMMA Primed ==
  ASSUME UNCHANGED k
  PROVE  /\ Rows' = Rows /\ Scheme!eta1' = Scheme!eta1
         /\ \A e : KeyNoise(e)' = KeyNoise(e)
         /\ \A w : KeyTerm(w)' = KeyTerm(w)
         /\ \A msg, w : CallTerm(msg, w)' = CallTerm(msg, w)
         /\ \A msg, w : SharedTerm(msg, w)' = SharedTerm(msg, w)
  <1>1. Scheme!eta1' = Scheme!eta1
    BY DEF Scheme!eta1
  <1>2. \A e : KeyNoise(e)' = KeyNoise(e)
    BY <1>1 DEF KeyNoise, Scheme!sigma
  <1>3. Rows' = Rows
    BY DEF Rows, Scheme!Rows
  <1>4. \A w : KeyTerm(w)' = KeyTerm(w)
    BY <1>2 DEF KeyTerm, OfKey
  <1>5. \A msg, w : CallTerm(msg, w)' = CallTerm(msg, w)
    BY <1>1 DEF CallTerm, OfTemporary
  <1>6. \A msg, w : SharedTerm(msg, w)' = SharedTerm(msg, w)
    BY <1>1, <1>2 DEF SharedTerm, OfTemporary, OfPublic
  <1> QED
    BY <1>1, <1>2, <1>3, <1>4, <1>5, <1>6

LEMMA KeyFrame ==
  ASSUME KeyStage, UNCHANGED <<k, keygen, secret, t, full_matrix>>
  PROVE  KeyStage'
  <1>1. \A row : PublicOpen(row)' = PublicOpen(row) /\ PublicDone(row)' = PublicDone(row)
    BY Primed DEF PublicOpen, PublicDone, Public
  <1>2. /\ Rows' = Rows /\ \A e : KeyNoise(e)' = KeyNoise(e)
    BY Primed
  <1> QED
    BY <1>1, <1>2 DEF KeyStage

LEMMA CallFrame ==
  ASSUME NEW c, CallStage(c), UNCHANGED k, keygen.pc = "ready" => keygen'.pc = "ready",
         job'[c] = job[c], y'[c] = y[c], u'[c] = u[c], v_poly'[c] = v_poly[c]
  PROVE  CallStage(c)'
  <1>1. Rows' = Rows /\ Scheme!eta1' = Scheme!eta1
    BY Primed
  <1>2. \A row : UOpen(c, row)' = UOpen(c, row) /\ UDone(c, row)' = UDone(c, row)
                 /\ YDone(c, row)' = YDone(c, row)
    BY Primed DEF UOpen, UDone, YDone
  <1>3. VOpen(c)' = VOpen(c) /\ VDone(c)' = VDone(c) /\ ContextClean(c)' = ContextClean(c)
    BY Primed DEF VOpen, VDone, ContextClean
  <1> QED
    BY <1>1, <1>2, <1>3 DEF CallStage

\* A noise polynomial on its own is none of the products.
LEMMA NoiseIsNoTerm ==
  ASSUME k \in {2, 3, 4}
  PROVE  /\ \A e : ~KeyTerm(Single(KeyNoise(e)))
         /\ \A msg, e, f1 : ~CallTerm(msg, Single(CallNoise(msg, e, f1)))
         /\ \A msg : ~SharedTerm(msg, Single(CallNoise(msg, 2 * k, 2)))
  <1>1. \A a, b : b \in DOMAIN Single(a) <=> b = a
    BY SampleShape
  <1>2. \A e : ~FromMatrix(KeyNoise(e))
    BY DEF FromMatrix, KeyNoise
  <1>3. \A msg, e, f1 : ~FromMatrix(CallNoise(msg, e, f1))
    BY DEF FromMatrix, CallNoise
  <1>4. \A msg : ~OfTemporary(msg, CallNoise(msg, 2 * k, 2))
    <2>1. \A msg, e, f1 : CallNoise(msg, e, f1)[3] = e
      BY DEF CallNoise
    <2>2. 2 * k \notin 0 .. k - 1
      BY SMT
    <2> QED
      BY <2>1, <2>2 DEF OfTemporary
  <1>5. \A e : ~KeyTerm(Single(KeyNoise(e)))
    BY <1>1, <1>2 DEF KeyTerm
  <1>6. \A msg, e, f1 : ~CallTerm(msg, Single(CallNoise(msg, e, f1)))
    BY <1>1, <1>3 DEF CallTerm
  <1>7. \A msg : ~SharedTerm(msg, Single(CallNoise(msg, 2 * k, 2)))
    BY <1>1, <1>4 DEF SharedTerm
  <1> QED
    BY <1>5, <1>6, <1>7

\* Key generation is over before any call starts.
LEMMA KeyStep ==
  ASSUME SchemeInv, keygen.pc # "ready", KeyStage',
         UNCHANGED <<k, job, y, u, v_poly, decrypt, wire>>
  PROVE  SchemeInv'
  <1>1. ASSUME NEW c \in Contexts
        PROVE  CallStage(c)'
    BY CallFrame DEF SchemeInv
  <1>2. SlotStage'
    BY DEF SchemeInv, SlotStage
  <1>3. Contexts' = Contexts
    OBVIOUS
  <1> QED
    BY <1>1, <1>2, <1>3 DEF SchemeInv

LEMMA CreateSecretKeeps ==
  ASSUME SchemeInv, Scheme!CreateSecret
  PROVE  SchemeInv'
  <1> DEFINE i0 == keygen.i
             new == Scheme!Ntt(Scheme!Atom(KeyNoise(i0)))
  <1>1. /\ KeyStage /\ keygen.pc = "secret" /\ i0 \in Rows /\ i0 \in 0 .. k - 1
    BY DEF SchemeInv, KeyStage, Scheme!CreateSecret, Rows, Scheme!Rows
  <1>2. /\ secret' = [secret EXCEPT ![i0] = new]
        /\ UNCHANGED <<k, t, full_matrix, job, y, u, v_poly, decrypt, wire>>
    BY DEF Scheme!CreateSecret, Scheme!Noise, KeyNoise, Scheme!encapsVars, Scheme!channelVars
  <1>3. IsPoly(new) /\ Monomials(new) = {Single(KeyNoise(i0))}
    BY SampleShape, TransformShape DEF Monomials
  <1>4. /\ Rows' = Rows /\ \A e : KeyNoise(e)' = KeyNoise(e)
        /\ \A row : PublicOpen(row)' = PublicOpen(row)
    BY <1>2, Primed DEF PublicOpen
  <1>5. \A row \in Rows : secret'[row] = IF row = i0 THEN new ELSE secret[row]
    BY <1>1, <1>2 DEF KeyStage
  <1>6. keygen' = IF i0 + 1 < k THEN [keygen EXCEPT !.i = i0 + 1] ELSE [pc |-> "public", i |-> 0, j |-> 0]
    BY DEF Scheme!CreateSecret
  <1> HIDE DEF new
  <1>7. /\ DOMAIN secret' = Rows
        /\ \A row \in Rows : IsPoly(secret'[row]) /\ Monomials(secret'[row]) \subseteq {Single(KeyNoise(row))}
        /\ \A row \in Rows : row < i0 \/ row = i0 => Single(KeyNoise(row)) \in Monomials(secret'[row])
    BY <1>1, <1>2, <1>3, <1>5 DEF KeyStage
  <1>8. KeyStage'
    <2>1. /\ DOMAIN keygen' = {"pc", "i", "j"}
          /\ keygen'.i \in 0 .. k - 1 /\ keygen'.j \in 0 .. k
          /\ \/ keygen'.pc = "secret" /\ keygen'.i = i0 + 1
             \/ keygen'.pc = "public" /\ keygen'.i = 0 /\ i0 = k - 1
      BY <1>1, <1>6 DEF KeyStage
    <2>2. \A row \in Rows : PublicOpen(row)'
      BY <1>1, <1>4 DEF KeyStage
    <2>3. \A row \in Rows : keygen'.pc # "secret" \/ row < keygen'.i =>
             Single(KeyNoise(row)) \in Monomials(secret'[row])
      <3>1. \A row \in Rows : keygen'.pc # "secret" \/ row < keygen'.i => row < i0 \/ row = i0
        BY <1>1, <2>1 DEF KeyStage, Rows, Scheme!Rows
      <3> QED
        BY <1>7, <3>1
    <2>4. /\ keygen'.pc = "secret" => \A row \in Rows' : PublicOpen(row)'
          /\ keygen'.pc = "public" => \A row \in Rows' : IF row < keygen'.i THEN PublicDone(row)' ELSE PublicOpen(row)'
      <3>1. keygen'.pc = "public" => \A row \in Rows : ~(row < keygen'.i)
        BY <1>1, <2>1 DEF KeyStage, Rows, Scheme!Rows
      <3> QED
        BY <2>2, <1>4, <3>1
    <2>5. /\ k' \in {2, 3, 4} /\ DOMAIN t' = Rows /\ DOMAIN full_matrix' = 0 .. k' * k' - 1
          /\ \A row \in Rows : IsPoly(t'[row])
          /\ \A e \in DOMAIN full_matrix' : \A w \in Monomials(full_matrix'[e]) : MatrixTerm(w)
      BY <1>1, <1>2 DEF KeyStage
    <2> QED
      BY <1>2, <1>4, <1>7, <2>1, <2>3, <2>4, <2>5 DEF KeyStage
  <1> QED
    BY <1>1, <1>2, <1>8, KeyStep

\* A product with a polynomial of the matrix has its atom in every monomial.
LEMMA ProductTerms ==
  ASSUME NEW g, NEW h, NEW x, NEW z, Monomials(g) \subseteq {Single(x)},
         Monomials(h) \subseteq {Single(z)}
  PROVE  \A w \in Monomials(Scheme!Multiply(g, h)) : \A a : a \in DOMAIN w <=> a = x \/ a = z
  <1>1. \A a : DOMAIN Single(a) = {a}
    BY SampleShape
  <1>2. ASSUME NEW w \in Monomials(Scheme!Multiply(g, h))
        PROVE  DOMAIN w = {x} \cup {z}
    <2>1. PICK a \in Monomials(g), b \in Monomials(h) : DOMAIN w = DOMAIN a \cup DOMAIN b
      BY ProductShape DEF Joins
    <2>2. a = Single(x) /\ b = Single(z)
      BY <2>1
    <2> QED
      BY <1>1, <2>1, <2>2
  <1> QED
    BY <1>2

\* The rows of the public key after a step that changes one of them.
LEMMA PublicRow ==
  ASSUME KeyStage, keygen.pc = "public", UNCHANGED <<k, secret, full_matrix>>,
         NEW new, IsPoly(new), t' = [t EXCEPT ![keygen.i] = new],
         \/ /\ keygen' = [keygen EXCEPT !.j = keygen.j + 1] /\ keygen.j < k
            /\ \A w \in Monomials(new) : KeyTerm(w)
         \/ /\ keygen' = IF keygen.i + 1 < k THEN [keygen EXCEPT !.i = keygen.i + 1, !.j = 0]
                         ELSE [pc |-> IF full THEN "fill" ELSE "ready", i |-> 0, j |-> 0]
            /\ Single(KeyNoise(k + keygen.i)) \in Monomials(new)
            /\ \A w \in Monomials(new) : w = Single(KeyNoise(k + keygen.i)) \/ KeyTerm(w)
  PROVE  KeyStage'
  <1>0. PICK i0 \in Rows : i0 = keygen.i
    BY DEF KeyStage, Rows, Scheme!Rows
  <1>1. i0 \in Rows /\ i0 \in 0 .. k - 1 /\ k \in {2, 3, 4}
    BY DEF KeyStage, Rows, Scheme!Rows
  <1>2. /\ Rows' = Rows /\ \A e : KeyNoise(e)' = KeyNoise(e)
        /\ \A w : KeyTerm(w)' = KeyTerm(w)
    BY Primed
  <1>3. /\ DOMAIN t' = Rows /\ t'[i0] = new /\ \A row \in Rows : row # i0 => t'[row] = t[row]
        /\ \A row \in Rows : IsPoly(t'[row])
    BY <1>0, <1>1 DEF KeyStage
  <1>4. \A row \in Rows : row # i0 => PublicOpen(row)' = PublicOpen(row) /\ PublicDone(row)' = PublicDone(row)
    BY <1>2, <1>3 DEF PublicOpen, PublicDone, Public
  <1>5. \A row \in Rows : IF row < i0 THEN PublicDone(row) ELSE PublicOpen(row)
    BY <1>0 DEF KeyStage
  <1>6. /\ k' \in {2, 3, 4} /\ DOMAIN secret' = Rows /\ DOMAIN full_matrix' = 0 .. k' * k' - 1
        /\ \A row \in Rows : IsPoly(secret'[row]) /\ Monomials(secret'[row]) \subseteq {Single(KeyNoise(row))}
        /\ \A row \in Rows : Single(KeyNoise(row)) \in Monomials(secret'[row])
        /\ \A e \in DOMAIN full_matrix' : \A w \in Monomials(full_matrix'[e]) : MatrixTerm(w)
    BY DEF KeyStage
  <1>7. /\ DOMAIN keygen' = {"pc", "i", "j"} /\ keygen'.pc \in {"public", "fill", "ready"}
        /\ keygen'.i \in 0 .. k - 1 /\ keygen'.j \in 0 .. k
    <2>1. CASE keygen' = [keygen EXCEPT !.j = keygen.j + 1] /\ keygen.j < k
      BY <1>1, <2>1, SMT DEF KeyStage
    <2>2. CASE keygen' = IF keygen.i + 1 < k THEN [keygen EXCEPT !.i = keygen.i + 1, !.j = 0]
                         ELSE [pc |-> IF full THEN "fill" ELSE "ready", i |-> 0, j |-> 0]
      BY <1>1, <2>2, SMT DEF KeyStage
    <2> QED
      BY <2>1, <2>2
  <1>8. /\ keygen'.pc = "public" => \A row \in Rows : IF row < keygen'.i THEN PublicDone(row)' ELSE PublicOpen(row)'
        /\ keygen'.pc \in {"fill", "ready"} => \A row \in Rows : PublicDone(row)'
    <2>1. CASE /\ keygen' = [keygen EXCEPT !.j = keygen.j + 1]
               /\ \A w \in Monomials(new) : KeyTerm(w)
      <3>1. keygen'.pc = "public" /\ keygen'.i = i0
        BY <1>0, <2>1 DEF KeyStage
      <3>2. PublicOpen(i0)'
        BY <1>1, <1>2, <1>3, <2>1 DEF PublicOpen
      <3>3. ~(i0 < i0)
        BY <1>1
      <3> QED
        BY <1>4, <1>5, <3>1, <3>2, <3>3
    <2>2. CASE /\ keygen' = IF keygen.i + 1 < k THEN [keygen EXCEPT !.i = keygen.i + 1, !.j = 0]
                         ELSE [pc |-> IF full THEN "fill" ELSE "ready", i |-> 0, j |-> 0]
               /\ Single(KeyNoise(k + keygen.i)) \in Monomials(new)
               /\ \A w \in Monomials(new) : w = Single(KeyNoise(k + keygen.i)) \/ KeyTerm(w)
      <3>1. PublicDone(i0)'
        BY <1>0, <1>1, <1>2, <1>3, <2>2 DEF PublicDone, Public
      <3>2. \/ keygen'.pc = "public" /\ keygen'.i = i0 + 1
            \/ keygen'.pc \in {"fill", "ready"} /\ i0 = k - 1
        BY <1>0, <1>1, <2>2 DEF KeyStage
      <3>3. ASSUME keygen'.pc = "public", NEW row \in Rows
            PROVE  IF row < keygen'.i THEN PublicDone(row)' ELSE PublicOpen(row)'
        <4>1. row = i0 \/ (row < keygen'.i <=> row < i0)
          BY <1>1, <3>2, <3>3 DEF Rows, Scheme!Rows
        <4>2. row = i0 => row < keygen'.i
          BY <1>1, <3>2, <3>3
        <4> QED
          BY <1>4, <1>5, <3>1, <4>1, <4>2
      <3>4. ASSUME keygen'.pc \in {"fill", "ready"}, NEW row \in Rows
            PROVE  PublicDone(row)'
        <4>1. row = i0 \/ row < i0
          BY <1>1, <3>2, <3>4 DEF Rows, Scheme!Rows
        <4> QED
          BY <1>4, <1>5, <3>1, <4>1
      <3> QED
        BY <3>3, <3>4
    <2> QED
      BY <2>1, <2>2
  <1> QED
    BY <1>2, <1>3, <1>6, <1>7, <1>8 DEF KeyStage

LEMMA CreatePublicKeeps ==
  ASSUME SchemeInv, Scheme!CreatePublic
  PROVE  SchemeInv'
  <1> DEFINE i0 == keygen.i
             j0 == keygen.j
             product == Scheme!Multiply(Scheme!KeySeed(i0, j0), secret[j0])
             noise == Scheme!Ntt(Scheme!Atom(KeyNoise(k + i0)))
  <1>1. /\ KeyStage /\ keygen.pc = "public" /\ i0 \in Rows /\ i0 \in 0 .. k - 1 /\ j0 \in 0 .. k
        /\ UNCHANGED <<k, full, secret, full_matrix, job, y, u, v_poly, decrypt, wire>>
    BY DEF SchemeInv, KeyStage, Scheme!CreatePublic, Rows, Scheme!Rows,
           Scheme!encapsVars, Scheme!channelVars
  <1>2. PublicOpen(i0)
    BY <1>1 DEF KeyStage
  <1>3. CASE /\ j0 < k /\ t' = [t EXCEPT ![i0] = Scheme!Add(t[i0], product)]
             /\ keygen' = [keygen EXCEPT !.j = j0 + 1]
    <2>1. j0 \in Rows
      BY <1>1, <1>3 DEF Rows, Scheme!Rows, KeyStage
    <2>2. \A w \in Monomials(product) : KeyTerm(w)
      <3>1. Monomials(Scheme!KeySeed(i0, j0)) \subseteq {Single(<<"A", j0, i0>>)}
        BY SampleShape DEF Scheme!KeySeed, Scheme!MatrixPoly
      <3>2. Monomials(secret[j0]) \subseteq {Single(KeyNoise(j0))}
        BY <1>1, <2>1 DEF KeyStage
      <3>3. \A w \in Monomials(product) : \A a : a \in DOMAIN w <=> a = <<"A", j0, i0>> \/ a = KeyNoise(j0)
        BY <3>1, <3>2, ProductTerms
      <3>4. FromMatrix(<<"A", j0, i0>>) /\ OfKey(KeyNoise(j0))
        BY <2>1 DEF FromMatrix, OfKey, Rows, Scheme!Rows
      <3> QED
        BY <3>3, <3>4 DEF KeyTerm
    <2> HIDE DEF product
    <2>3. /\ IsPoly(Scheme!Add(t[i0], product))
          /\ Monomials(Scheme!Add(t[i0], product)) \subseteq Monomials(t[i0]) \cup Monomials(product)
      BY SumShape
    <2>4. \A w \in Monomials(Scheme!Add(t[i0], product)) : KeyTerm(w)
      BY <1>2, <2>2, <2>3 DEF PublicOpen
    <2>5. KeyStage'
      BY <1>1, <1>3, <2>3, <2>4, PublicRow
    <2> QED
      BY <1>1, <2>5, KeyStep
  <1>4. CASE /\ t' = [t EXCEPT ![i0] = Scheme!Add(t[i0], noise)]
             /\ keygen' = IF keygen.i + 1 < k THEN [keygen EXCEPT !.i = keygen.i + 1, !.j = 0]
                          ELSE [pc |-> IF full THEN "fill" ELSE "ready", i |-> 0, j |-> 0]
    <2> DEFINE single == Single(KeyNoise(k + i0))
    <2>1. Monomials(noise) = {single} /\ noise.terms[single] = 1
      BY SampleShape, TransformShape DEF Monomials
    <2>2. single \notin Monomials(t[i0])
      BY <1>1, <1>2, NoiseIsNoTerm DEF PublicOpen, KeyStage
    <2> HIDE DEF noise, single
    <2>3. /\ IsPoly(Scheme!Add(t[i0], noise))
          /\ Monomials(Scheme!Add(t[i0], noise)) \subseteq Monomials(t[i0]) \cup {single}
      BY <2>1, SumShape
    <2>4. single \in Monomials(Scheme!Add(t[i0], noise))
      BY <2>1, <2>2, SumKeeps
    <2>5. \A w \in Monomials(Scheme!Add(t[i0], noise)) : w = single \/ KeyTerm(w)
      BY <1>2, <2>3 DEF PublicOpen
    <2> USE DEF single
    <2>6. KeyStage'
      BY <1>1, <1>4, <2>3, <2>4, <2>5, PublicRow
    <2> QED
      BY <1>1, <2>6, KeyStep
  <1> QED
    BY <1>1, <1>3, <1>4 DEF Scheme!CreatePublic, Scheme!Noise, Scheme!KeyNoiseCounter, KeyNoise

LEMMA FillMatrixKeeps ==
  ASSUME SchemeInv, Scheme!FillMatrix
  PROVE  SchemeInv'
  <1> DEFINE place == keygen.i * k + keygen.j
             new == Scheme!FillSeed(keygen.i, keygen.j)
  <1>1. /\ KeyStage /\ keygen.pc = "fill"
        /\ full_matrix' = [full_matrix EXCEPT ![place] = new]
        /\ UNCHANGED <<k, full, secret, t, job, y, u, v_poly, decrypt, wire>>
    BY DEF SchemeInv, Scheme!FillMatrix, Scheme!encapsVars, Scheme!channelVars
  <1>2. \A w \in Monomials(new) : MatrixTerm(w)
    <2>1. \A i0, j0 : FromMatrix(<<"A", i0, j0>>)
      BY DEF FromMatrix
    <2>2. Monomials(new) = {Single(<<"A", keygen.i, keygen.j>>)}
      BY SampleShape DEF Scheme!FillSeed, Scheme!MatrixPoly
    <2>3. \A a, b : b \in DOMAIN Single(a) <=> b = a
      BY SampleShape
    <2> QED
      BY <2>1, <2>2, <2>3 DEF MatrixTerm
  <1>3. /\ DOMAIN keygen' = {"pc", "i", "j"} /\ keygen'.pc \in {"fill", "ready"}
        /\ keygen'.i \in 0 .. k - 1 /\ keygen'.j \in 0 .. k
    <2>1. /\ k \in {2, 3, 4} /\ DOMAIN keygen = {"pc", "i", "j"} /\ keygen.pc = "fill"
          /\ keygen.i \in 0 .. k - 1 /\ keygen.j \in 0 .. k
      BY <1>1 DEF KeyStage
    <2>2. CASE keygen' = [keygen EXCEPT !.j = keygen.j + 1] /\ keygen.j + 1 < k
      BY <2>1, <2>2
    <2>3. CASE keygen' = [keygen EXCEPT !.i = keygen.i + 1, !.j = 0] /\ keygen.i + 1 < k
      BY <2>1, <2>3
    <2>4. CASE keygen' = [keygen EXCEPT !.pc = "ready"]
      BY <2>1, <2>4
    <2> QED
      BY <2>2, <2>3, <2>4 DEF Scheme!FillMatrix
  <1> HIDE DEF new, place
  <1>4. /\ DOMAIN full_matrix' = DOMAIN full_matrix
        /\ \A e \in DOMAIN full_matrix : full_matrix'[e] = full_matrix[e] \/ full_matrix'[e] = new
    BY <1>1
  <1>5. /\ Rows' = Rows /\ \A e : KeyNoise(e)' = KeyNoise(e)
        /\ \A row : PublicDone(row)' = PublicDone(row)
    BY <1>1, Primed DEF PublicDone, Public
  <1>6. /\ \A row \in Rows : PublicDone(row)
        /\ \A e \in DOMAIN full_matrix' : \A w \in Monomials(full_matrix'[e]) : MatrixTerm(w)
    BY <1>1, <1>2, <1>4 DEF KeyStage
  <1>7. KeyStage'
    BY <1>1, <1>3, <1>4, <1>5, <1>6 DEF KeyStage
  <1> QED
    BY <1>1, <1>7, KeyStep

-----------------------------------------------------------------------------
(* The scheme: the calls *)

LEMMA CallStep ==
  ASSUME SchemeInv, NEW c0 \in Contexts, CallStage(c0)', SlotStage',
         UNCHANGED <<k, keygen, secret, t, full_matrix>>,
         DOMAIN job' = Contexts, DOMAIN y' = Contexts, DOMAIN u' = Contexts, DOMAIN v_poly' = Contexts,
         \A c \in Contexts : c # c0 => /\ job'[c] = job[c] /\ y'[c] = y[c]
                                       /\ u'[c] = u[c] /\ v_poly'[c] = v_poly[c]
  PROVE  SchemeInv'
  <1>1. ASSUME NEW c \in Contexts
        PROVE  CallStage(c)'
    BY CallFrame DEF SchemeInv
  <1>2. KeyStage'
    BY KeyFrame DEF SchemeInv
  <1>3. Contexts' = Contexts
    OBVIOUS
  <1> QED
    BY <1>1, <1>2, <1>3 DEF SchemeInv

\* A step of an encapsulation leaves the decryption context and the wire alone.
LEMMA EncapsStep ==
  ASSUME SchemeInv, NEW c0 \in Contexts, CallStage(c0)',
         UNCHANGED <<k, keygen, secret, t, full_matrix, decrypt, wire>>,
         DOMAIN job' = Contexts, DOMAIN y' = Contexts, DOMAIN u' = Contexts, DOMAIN v_poly' = Contexts,
         \A c \in Contexts : c # c0 => /\ job'[c] = job[c] /\ y'[c] = y[c]
                                       /\ u'[c] = u[c] /\ v_poly'[c] = v_poly[c],
         job'[c0].pc \in {"y", "u", "v", "done"}
  PROVE  SchemeInv'
  <1>1. SlotStage
    BY DEF SchemeInv
  <1>2. "slot" \in Contexts /\ "client" \in Contexts
    BY DEF Contexts, Scheme!Contexts
  <1>3. SlotStage'
    <2>1. CASE c0 = "slot"
      BY <1>1, <1>2, <2>1 DEF SlotStage
    <2>2. CASE c0 # "slot"
      <3>1. job'["slot"] = job["slot"]
        BY <1>2, <2>2
      <3>2. job'["client"].pc # "decrypt"
        BY <1>1, <1>2 DEF SlotStage
      <3> QED
        BY <1>1, <3>1, <3>2 DEF SlotStage
    <2> QED
      BY <2>1, <2>2
  <1> QED
    BY <1>3, CallStep

LEMMA StartClientKeeps ==
  ASSUME SchemeInv, Scheme!StartClient
  PROVE  SchemeInv'
  <1>1. /\ job' = [job EXCEPT !["client"] = [pc |-> "y", i |-> 0, j |-> 0, m |-> {sent + 1}]]
        /\ keygen.pc = "ready" /\ job["client"].pc = "idle"
        /\ UNCHANGED <<k, keygen, secret, t, full_matrix, y, u, v_poly, decrypt, wire>>
    BY DEF Scheme!StartClient, Scheme!keyVars
  <1>2. "client" \in Contexts
    BY DEF Contexts, Scheme!Contexts
  <1>3. CallStage("client") /\ KeyStage
    BY <1>2 DEF SchemeInv
  <1>4. Rows' = Rows /\ ContextClean("client")' = ContextClean("client")
    BY <1>1, Primed DEF ContextClean
  <1>5. job'["client"] = [pc |-> "y", i |-> 0, j |-> 0, m |-> {sent + 1}]
    BY <1>1, <1>2 DEF SchemeInv
  <1>6. CallStage("client")'
    <2>1. /\ 0 \in 0 .. k /\ 0 < k
          /\ \A row \in Rows : ~(row < 0)
      BY <1>3 DEF KeyStage, Rows, Scheme!Rows
    <2> QED
      BY <1>1, <1>3, <1>4, <1>5, <2>1 DEF CallStage
  <1> QED
    BY <1>1, <1>2, <1>5, <1>6, EncapsStep DEF SchemeInv

LEMMA CreateYKeeps ==
  ASSUME SchemeInv, NEW c \in Contexts, Scheme!CreateY(c)
  PROVE  SchemeInv'
  <1>1. PICK i0 : i0 = job[c].i
    OBVIOUS
  <1> DEFINE new == Scheme!Ntt(Scheme!Atom(CallNoise(job[c].m, i0, Scheme!eta1)))
  <1>2. /\ job[c].pc = "y" /\ y' = [y EXCEPT ![c][i0] = new]
        /\ UNCHANGED <<k, keygen, secret, t, full_matrix, u, v_poly, decrypt, wire>>
    BY <1>1 DEF Scheme!CreateY, Scheme!TemporarySecret, Scheme!Noise, CallNoise, Scheme!keyVars,
           Scheme!channelVars
  <1>3. job' = [job EXCEPT ![c] = IF i0 + 1 < k THEN [job[c] EXCEPT !.i = i0 + 1]
                                  ELSE [job[c] EXCEPT !.pc = "u", !.i = 0, !.j = 0]]
    BY <1>1 DEF Scheme!CreateY
  <1>4. /\ CallStage(c) /\ KeyStage /\ DOMAIN y = Contexts /\ DOMAIN job = Contexts
        /\ i0 \in Rows /\ i0 \in 0 .. k - 1 /\ k \in {2, 3, 4}
    <2>1. CallStage(c) /\ KeyStage /\ DOMAIN y = Contexts /\ DOMAIN job = Contexts
      BY DEF SchemeInv
    <2>2. k \in {2, 3, 4} /\ i0 \in 0 .. k - 1
      BY <1>1, <1>2, <2>1 DEF CallStage, KeyStage
    <2> QED
      BY <2>1, <2>2 DEF Rows, Scheme!Rows
  <1>5. Monomials(new) = {Single(CallNoise(job[c].m, i0, Scheme!eta1))}
    BY SampleShape, TransformShape DEF Monomials
  <1> HIDE DEF new
  <1>6. /\ DOMAIN job'[c] = {"pc", "i", "j", "m"} /\ job'[c].m = job[c].m
        /\ job'[c].j \in 0 .. k
        /\ \/ job'[c].pc = "y" /\ job'[c].i = i0 + 1 /\ i0 + 1 < k
           \/ job'[c].pc = "u" /\ job'[c].i = 0 /\ i0 = k - 1
    <2>1. CASE i0 + 1 < k
      BY <1>2, <1>3, <1>4, <2>1 DEF CallStage
    <2>2. CASE ~(i0 + 1 < k)
      BY <1>2, <1>3, <1>4, <2>2 DEF CallStage
    <2> QED
      BY <2>1, <2>2
  <1>7. /\ DOMAIN y'[c] = Rows /\ y'[c][i0] = new
        /\ \A row \in Rows : row # i0 => y'[c][row] = y[c][row]
    BY <1>2, <1>4 DEF CallStage
  <1>8. Rows' = Rows /\ Scheme!eta1' = Scheme!eta1
    BY <1>2, Primed
  <1>9. \A row \in Rows : row = i0 \/ row < i0 => YDone(c, row)'
    <2>1. YDone(c, i0)'
      BY <1>5, <1>6, <1>7, <1>8 DEF YDone
    <2>2. ASSUME NEW row \in Rows, row # i0, row < i0
          PROVE  YDone(c, row)'
      BY <1>1, <1>2, <1>4, <1>6, <1>7, <1>8, <2>2 DEF YDone, CallStage
    <2> QED
      BY <2>1, <2>2
  <1>10. CallStage(c)'
    <2>1. ContextClean(c)
      BY <1>2, <1>4 DEF CallStage
    <2>2. ContextClean(c)'
      BY <1>2, <1>8, <2>1 DEF ContextClean
    <2>3. \A row \in Rows : \/ job'[c].pc = "u" \/ row < job'[c].i => row = i0 \/ row < i0
      BY <1>4, <1>6 DEF Rows, Scheme!Rows
    <2>4. /\ job'[c].pc = "y" => \A row \in Rows : row < job'[c].i => YDone(c, row)'
          /\ job'[c].pc = "u" => \A row \in Rows : YDone(c, row)'
      BY <1>4, <1>6, <1>9, <2>3 DEF Rows, Scheme!Rows
    <2>5. job'[c].pc = "u" =>
            /\ v_poly'[c] = Scheme!Zero
            /\ \A row \in Rows : ~(row < job'[c].i) /\ UOpen(c, row)'
      <3>1. \A row \in Rows : u'[c][row] = Scheme!Zero /\ v_poly'[c] = Scheme!Zero
        BY <1>2, <2>1 DEF ContextClean
      <3>2. \A row \in Rows : UOpen(c, row)'
        BY <3>1, ZeroShape DEF UOpen
      <3>3. job'[c].pc = "u" => \A row \in Rows : ~(row < job'[c].i)
        BY <1>4, <1>6 DEF Rows, Scheme!Rows
      <3>4. v_poly'[c] = Scheme!Zero
        BY <1>2, <2>1 DEF ContextClean
      <3> QED
        BY <3>2, <3>3, <3>4
    <2>6. job'[c].i \in 0 .. k /\ (job'[c].pc \in {"y", "u"} => job'[c].i < k)
      BY <1>4, <1>6
    <2>7. keygen'.pc = "ready" /\ DOMAIN u'[c] = Rows
      BY <1>2, <1>4 DEF CallStage
    <2>8. job'[c].pc = "y" \/ job'[c].pc = "u"
      BY <1>6
    <2> QED
      BY <1>2, <1>6, <1>7, <1>8, <2>2, <2>4, <2>5, <2>6, <2>7, <2>8 DEF CallStage
  <1> QED
    BY <1>2, <1>3, <1>4, <1>6, <1>10, EncapsStep DEF SchemeInv

\* The entry of the matrix, sampled or kept.
LEMMA EntryTerms ==
  ASSUME KeyStage, NEW c, NEW i0 \in Rows, NEW j0 \in Rows,
         NEW w \in Monomials(Scheme!Entry(c, i0, j0))
  PROVE  MatrixTerm(w)
  <1>1. CASE c = "slot" /\ full
    <2>1. i0 * k + j0 \in 0 .. k * k - 1
      <3>1. CASE k = 2
        BY <3>1 DEF Rows, Scheme!Rows
      <3>2. CASE k = 3
        BY <3>2 DEF Rows, Scheme!Rows
      <3>3. CASE k = 4
        BY <3>3 DEF Rows, Scheme!Rows
      <3> QED
        BY <3>1, <3>2, <3>3 DEF KeyStage
    <2>2. Scheme!Entry(c, i0, j0) = full_matrix[i0 * k + j0]
      BY <1>1 DEF Scheme!Entry
    <2> QED
      BY <2>1, <2>2 DEF KeyStage
  <1>2. CASE ~(c = "slot" /\ full)
    <2>1. Scheme!Entry(c, i0, j0) = Scheme!SampledInNtt(<<"A", i0, j0>>)
      BY <1>2 DEF Scheme!Entry, Scheme!MatrixPoly
    <2>2. w = Single(<<"A", i0, j0>>)
      BY <2>1, SampleShape
    <2>3. \A b : b \in DOMAIN w <=> b = <<"A", i0, j0>>
      BY <2>2, SampleShape
    <2>4. FromMatrix(<<"A", i0, j0>>)
      BY DEF FromMatrix
    <2> QED
      BY <2>3, <2>4 DEF MatrixTerm
  <1> QED
    BY <1>1, <1>2

LEMMA MatrixProduct ==
  ASSUME NEW g, NEW h, NEW z, \A a \in Monomials(g) : MatrixTerm(a),
         Monomials(h) \subseteq {Single(z)}, NEW w \in Monomials(Scheme!Multiply(g, h))
  PROVE  /\ \E a \in DOMAIN w : FromMatrix(a)
         /\ \A a \in DOMAIN w : FromMatrix(a) \/ a = z
  <1>1. PICK a \in Monomials(g), b \in Monomials(h) : DOMAIN w = DOMAIN a \cup DOMAIN b
    BY ProductShape DEF Joins
  <1>2. \A e : e \in DOMAIN b <=> e = z
    BY <1>1, SampleShape
  <1> QED
    BY <1>1, <1>2 DEF MatrixTerm

LEMMA CreateUKeeps ==
  ASSUME SchemeInv, NEW c \in Contexts, Scheme!CreateU(c)
  PROVE  SchemeInv'
  <1>1. PICK i0, j0, msg : i0 = job[c].i /\ j0 = job[c].j /\ msg = job[c].m
    OBVIOUS
  <1>2. /\ job[c].pc = "u"
        /\ UNCHANGED <<k, keygen, secret, t, full_matrix, y, v_poly, decrypt, wire>>
    BY DEF Scheme!CreateU, Scheme!keyVars, Scheme!channelVars
  <1>3. /\ CallStage(c) /\ KeyStage /\ DOMAIN u = Contexts /\ DOMAIN job = Contexts
        /\ i0 \in Rows /\ i0 \in 0 .. k - 1 /\ j0 \in 0 .. k /\ k \in {2, 3, 4}
        /\ DOMAIN job[c] = {"pc", "i", "j", "m"} /\ DOMAIN u[c] = Rows
        /\ \A row \in Rows : YDone(c, row)
        /\ \A row \in Rows : IF row < i0 THEN UDone(c, row) ELSE UOpen(c, row)
        /\ v_poly[c] = Scheme!Zero /\ keygen.pc = "ready"
    <2>1. CallStage(c) /\ KeyStage /\ DOMAIN u = Contexts /\ DOMAIN job = Contexts
      BY DEF SchemeInv
    <2>2. k \in {2, 3, 4} /\ i0 \in 0 .. k - 1 /\ j0 \in 0 .. k
      BY <1>1, <1>2, <2>1 DEF CallStage, KeyStage
    <2> QED
      BY <1>1, <1>2, <2>1, <2>2 DEF CallStage, Rows, Scheme!Rows
  <1>4. /\ Rows' = Rows /\ Scheme!eta1' = Scheme!eta1
        /\ \A w, e : CallTerm(e, w)' = CallTerm(e, w)
    BY <1>2, Primed
  <1>5. UOpen(c, i0)
    BY <1>3
  <1> DEFINE single == Single(CallNoise(msg, k + i0, 2))
  <1>6. ASSUME NEW new, u' = [u EXCEPT ![c][i0] = new], job'[c].m = msg
        PROVE  /\ DOMAIN u'[c] = Rows /\ u'[c][i0] = new
               /\ \A row \in Rows : row # i0 => u'[c][row] = u[c][row]
               /\ \A row \in Rows : row # i0 => (UOpen(c, row)' = UOpen(c, row))
               /\ \A row \in Rows : row # i0 => (UDone(c, row)' = UDone(c, row))
               /\ \A row \in Rows : YDone(c, row)'
               /\ DOMAIN u' = Contexts
    <2>1. /\ DOMAIN u'[c] = Rows /\ u'[c][i0] = new /\ DOMAIN u' = Contexts
          /\ \A row \in Rows : row # i0 => u'[c][row] = u[c][row]
      BY <1>3, <1>6
    <2>2. /\ \A row \in Rows : row # i0 => (UOpen(c, row)' = UOpen(c, row))
          /\ \A row \in Rows : row # i0 => (UDone(c, row)' = UDone(c, row))
      BY <1>1, <1>2, <1>4, <1>6, <2>1 DEF UOpen, UDone
    <2>3. \A row \in Rows : YDone(c, row)'
      BY <1>1, <1>2, <1>3, <1>4, <1>6 DEF YDone
    <2> QED
      BY <2>1, <2>2, <2>3
  <1>7. CASE j0 < k
    <2> DEFINE product == Scheme!Multiply(Scheme!Entry(c, i0, j0), y[c][j0])
               new == Scheme!Add(u[c][i0], product)
    <2>1. u' = [u EXCEPT ![c][i0] = new] /\ job' = [job EXCEPT ![c].j = j0 + 1]
      BY <1>1, <1>3, <1>7 DEF Scheme!CreateU
    <2>2. j0 \in Rows
      BY <1>3, <1>7 DEF Rows, Scheme!Rows
    <2>3. ASSUME NEW w \in Monomials(product)
          PROVE  CallTerm(msg, w)
      <3>1. \A a \in Monomials(Scheme!Entry(c, i0, j0)) : MatrixTerm(a)
        BY <1>3, <2>2, EntryTerms
      <3>2. Monomials(y[c][j0]) \subseteq {Single(CallNoise(msg, j0, Scheme!eta1))}
        BY <1>1, <1>3, <2>2 DEF YDone
      <3>3. /\ \E a \in DOMAIN w : FromMatrix(a)
            /\ \A a \in DOMAIN w : FromMatrix(a) \/ a = CallNoise(msg, j0, Scheme!eta1)
        BY <3>1, <3>2, MatrixProduct
      <3>5. OfTemporary(msg, CallNoise(msg, j0, Scheme!eta1))
        BY <2>2 DEF OfTemporary, Rows, Scheme!Rows
      <3> QED
        BY <3>3, <3>5 DEF CallTerm
    <2> HIDE DEF product
    <2>4. /\ IsPoly(new)
          /\ Monomials(new) \subseteq Monomials(u[c][i0]) \cup Monomials(product)
      BY SumShape
    <2>5. \A w \in Monomials(new) : CallTerm(msg, w)
      BY <1>1, <1>5, <2>3, <2>4 DEF UOpen
    <2> HIDE DEF new
    <2>6. /\ DOMAIN job'[c] = {"pc", "i", "j", "m"} /\ job'[c].m = msg /\ job'[c].pc = "u"
          /\ job'[c].i = i0 /\ job'[c].j \in 0 .. k
      BY <1>1, <1>2, <1>3, <1>7, <2>1
    <2>7. UOpen(c, i0)'
      BY <1>4, <1>6, <2>1, <2>4, <2>5, <2>6 DEF UOpen
    <2>8. \A row \in Rows : IF row < i0 THEN UDone(c, row)' ELSE UOpen(c, row)'
      <3>1. ~(i0 < i0)
        BY <1>3
      <3>2. /\ \A row \in Rows : row # i0 => (UOpen(c, row)' = UOpen(c, row))
            /\ \A row \in Rows : row # i0 => (UDone(c, row)' = UDone(c, row))
        BY <1>6, <2>1, <2>6
      <3> QED
        BY <1>3, <2>7, <3>1, <3>2
    <2>9. CallStage(c)'
      <3>1. /\ DOMAIN u'[c] = Rows /\ \A row \in Rows : YDone(c, row)'
        BY <1>6, <2>1, <2>6
      <3>2. /\ job'[c].i \in 0 .. k /\ job'[c].i < k /\ DOMAIN y'[c] = Rows
            /\ v_poly'[c] = Scheme!Zero /\ keygen'.pc = "ready"
        BY <1>2, <1>3, <2>6 DEF CallStage
      <3> QED
        BY <1>2, <1>4, <2>6, <2>8, <3>1, <3>2 DEF CallStage
    <2> QED
      BY <1>2, <1>3, <2>1, <2>6, <2>9, EncapsStep DEF SchemeInv
  <1>8. CASE j0 = k
    <2> DEFINE base == Scheme!Intt(u[c][i0])
               noise == Scheme!Atom(CallNoise(msg, k + i0, 2))
               new == Scheme!Add(base, noise)
    <2>1. /\ u' = [u EXCEPT ![c][i0] = new]
          /\ job' = [job EXCEPT ![c] = IF i0 + 1 < k THEN [job[c] EXCEPT !.i = i0 + 1, !.j = 0]
                                       ELSE [job[c] EXCEPT !.pc = "v", !.i = 0]]
      BY <1>1, <1>3, <1>8 DEF Scheme!CreateU, Scheme!Noise, CallNoise
    <2>2. /\ Monomials(base) = Monomials(u[c][i0]) /\ \A w \in Monomials(base) : CallTerm(msg, w)
      BY <1>1, <1>5, TransformShape DEF UOpen, Monomials
    <2>3. Monomials(noise) = {single} /\ noise.terms[single] = 1
      BY SampleShape
    <2>4. single \notin Monomials(base)
      BY <1>3, <2>2, NoiseIsNoTerm
    <2> HIDE DEF base, noise
    <2>5. /\ IsPoly(new) /\ Monomials(new) \subseteq Monomials(base) \cup {single}
      BY <2>3, SumShape
    <2>6. single \in Monomials(new)
      BY <2>3, <2>4, SumKeeps
    <2> HIDE DEF new
    <2>7. /\ DOMAIN job'[c] = {"pc", "i", "j", "m"} /\ job'[c].m = msg /\ job'[c].j \in 0 .. k
          /\ \/ job'[c].pc = "u" /\ job'[c].i = i0 + 1 /\ i0 + 1 < k
             \/ job'[c].pc = "v" /\ job'[c].i = 0 /\ i0 = k - 1
      <3>1. CASE i0 + 1 < k
        BY <1>1, <1>2, <1>3, <1>8, <2>1, <3>1
      <3>2. CASE ~(i0 + 1 < k)
        <4>1. job'[c] = [job[c] EXCEPT !.pc = "v", !.i = 0]
          BY <1>3, <2>1, <3>2
        <4>2. i0 = k - 1
          BY <1>3, <3>2
        <4> QED
          BY <1>1, <1>3, <4>1, <4>2
      <3> QED
        BY <3>1, <3>2
    <2>8. UDone(c, i0)'
      <3>1. u'[c][i0] = new
        BY <1>6, <2>1, <2>7
      <3>2. \A w \in Monomials(new) : w = single \/ CallTerm(msg, w)
        BY <2>2, <2>5
      <3>3. CallNoise(msg, k + i0, 2)' = CallNoise(msg, k + i0, 2)
        BY <1>2 DEF CallNoise, Scheme!r
      <3> QED
        BY <1>2, <1>4, <2>6, <2>7, <3>1, <3>2 DEF UDone
    <2>9. /\ job'[c].pc = "u" => \A row \in Rows : IF row < job'[c].i THEN UDone(c, row)' ELSE UOpen(c, row)'
          /\ job'[c].pc = "v" => \A row \in Rows : UDone(c, row)'
      <3>1. /\ \A row \in Rows : row # i0 => (UOpen(c, row)' = UOpen(c, row))
            /\ \A row \in Rows : row # i0 => (UDone(c, row)' = UDone(c, row))
        BY <1>6, <2>1, <2>7
      <3>2. ASSUME NEW row \in Rows, job'[c].pc = "u"
            PROVE  IF row < job'[c].i THEN UDone(c, row)' ELSE UOpen(c, row)'
        <4>1. row = i0 \/ (row < job'[c].i <=> row < i0)
          BY <1>3, <2>7, <3>2 DEF Rows, Scheme!Rows
        <4>2. row = i0 => row < job'[c].i
          BY <1>3, <2>7, <3>2
        <4> QED
          BY <1>3, <2>8, <3>1, <4>1, <4>2
      <3>3. ASSUME NEW row \in Rows, job'[c].pc = "v"
            PROVE  UDone(c, row)'
        <4>1. row = i0 \/ row < i0
          BY <1>3, <2>7, <3>3 DEF Rows, Scheme!Rows
        <4> QED
          BY <1>3, <2>8, <3>1, <4>1
      <3> QED
        BY <3>2, <3>3
    <2>10. CallStage(c)'
      <3>1. /\ DOMAIN u'[c] = Rows /\ \A row \in Rows : YDone(c, row)'
        BY <1>6, <2>1, <2>7
      <3>2. /\ job'[c].i \in 0 .. k /\ (job'[c].pc = "u" => job'[c].i < k) /\ DOMAIN y'[c] = Rows
            /\ v_poly'[c] = Scheme!Zero /\ keygen'.pc = "ready"
        BY <1>2, <1>3, <2>7 DEF CallStage
      <3>3. VOpen(c)'
        BY <3>2, ZeroShape DEF VOpen
      <3>4. job'[c].pc = "u" \/ job'[c].pc = "v"
        BY <2>7
      <3> QED
        BY <1>2, <1>4, <2>7, <2>9, <3>1, <3>2, <3>3, <3>4 DEF CallStage
    <2>11. job'[c].pc \in {"u", "v"}
      BY <2>7
    <2> QED
      BY <1>2, <1>3, <1>6, <2>1, <2>7, <2>10, <2>11, EncapsStep DEF SchemeInv
  <1> QED
    BY <1>3, <1>7, <1>8

\* The atoms of <t, y> are the matrix', the key's noise and y's.
LEMMA SharedProduct ==
  ASSUME KeyStage, keygen.pc = "ready", NEW row \in Rows, NEW msg, NEW h,
         Monomials(h) \subseteq {Single(CallNoise(msg, row, Scheme!eta1))},
         NEW w \in Monomials(Scheme!Multiply(t[row], h))
  PROVE  SharedTerm(msg, w)
  <1>1. PICK a \in Monomials(t[row]), b \in Monomials(h) : DOMAIN w = DOMAIN a \cup DOMAIN b
    BY ProductShape DEF Joins
  <1>2. \A e : e \in DOMAIN b <=> e = CallNoise(msg, row, Scheme!eta1)
    BY <1>1, SampleShape
  <1>3. OfTemporary(msg, CallNoise(msg, row, Scheme!eta1))
    BY DEF OfTemporary, Rows, Scheme!Rows
  <1>4. \A e \in DOMAIN a : FromMatrix(e) \/ OfPublic(e)
    <2>1. a = Single(KeyNoise(k + row)) \/ KeyTerm(a)
      BY <1>1 DEF KeyStage, PublicDone, Public
    <2>2. OfPublic(KeyNoise(k + row))
      <3>1. k + row \in 0 .. 2 * k - 1
        BY DEF KeyStage, Rows, Scheme!Rows
      <3> QED
        BY <3>1 DEF OfPublic
    <2>3. \A e : OfKey(e) => OfPublic(e)
      <3>1. 0 .. k - 1 \subseteq 0 .. 2 * k - 1
        BY DEF KeyStage
      <3> QED
        BY <3>1 DEF OfPublic, OfKey
    <2>4. \A e : e \in DOMAIN Single(KeyNoise(k + row)) <=> e = KeyNoise(k + row)
      BY SampleShape
    <2> QED
      BY <2>1, <2>2, <2>3, <2>4 DEF KeyTerm
  <1> QED
    BY <1>1, <1>2, <1>3, <1>4 DEF SharedTerm

LEMMA CreateVKeeps ==
  ASSUME SchemeInv, NEW c \in Contexts, Scheme!CreateV(c)
  PROVE  SchemeInv'
  <1>1. PICK i0, msg : i0 = job[c].i /\ msg = job[c].m
    OBVIOUS
  <1>2. /\ job[c].pc = "v"
        /\ UNCHANGED <<k, keygen, secret, t, full_matrix, y, u, decrypt, wire>>
    BY DEF Scheme!CreateV, Scheme!keyVars, Scheme!channelVars
  <1>3. /\ CallStage(c) /\ KeyStage /\ DOMAIN v_poly = Contexts /\ DOMAIN job = Contexts
        /\ i0 \in 0 .. k /\ job[c].j \in 0 .. k /\ k \in {2, 3, 4}
        /\ DOMAIN job[c] = {"pc", "i", "j", "m"} /\ DOMAIN u[c] = Rows /\ DOMAIN y[c] = Rows
        /\ \A row \in Rows : YDone(c, row) /\ UDone(c, row)
        /\ VOpen(c) /\ keygen.pc = "ready"
    <2>1. CallStage(c) /\ KeyStage /\ DOMAIN v_poly = Contexts /\ DOMAIN job = Contexts
      BY DEF SchemeInv
    <2> QED
      BY <1>1, <1>2, <2>1 DEF CallStage, KeyStage
  <1>4. /\ Rows' = Rows /\ Scheme!eta1' = Scheme!eta1
        /\ \A w, e : CallTerm(e, w)' = CallTerm(e, w)
        /\ \A w, e : SharedTerm(e, w)' = SharedTerm(e, w)
    BY <1>2, Primed
  <1>5. ASSUME job'[c].m = msg
        PROVE  \A row \in Rows : YDone(c, row)' /\ UDone(c, row)'
    BY <1>1, <1>2, <1>3, <1>4, <1>5 DEF YDone, UDone
  <1>6. CASE i0 < k
    <2> DEFINE product == Scheme!Multiply(t[i0], y[c][i0])
               new == Scheme!Add(v_poly[c], product)
    <2>1. v_poly' = [v_poly EXCEPT ![c] = new] /\ job' = [job EXCEPT ![c].i = i0 + 1]
      BY <1>1, <1>3, <1>6 DEF Scheme!CreateV
    <2>2. i0 \in Rows
      BY <1>3, <1>6 DEF Rows, Scheme!Rows
    <2>3. \A w \in Monomials(product) : SharedTerm(msg, w)
      <3>1. Monomials(y[c][i0]) \subseteq {Single(CallNoise(msg, i0, Scheme!eta1))}
        BY <1>1, <1>3, <2>2 DEF YDone
      <3> QED
        BY <1>3, <2>2, <3>1, SharedProduct
    <2> HIDE DEF product
    <2>4. IsPoly(new) /\ Monomials(new) \subseteq Monomials(v_poly[c]) \cup Monomials(product)
      BY SumShape
    <2> HIDE DEF new
    <2>5. \A w \in Monomials(new) : SharedTerm(msg, w)
      BY <1>1, <1>3, <2>3, <2>4 DEF VOpen
    <2>6. /\ DOMAIN job'[c] = {"pc", "i", "j", "m"} /\ job'[c].m = msg /\ job'[c].pc = "v"
          /\ job'[c].i \in 0 .. k /\ job'[c].j \in 0 .. k
      BY <1>1, <1>2, <1>3, <1>6, <2>1
    <2>7. VOpen(c)'
      <3>1. v_poly'[c] = new
        BY <1>3, <2>1
      <3> QED
        BY <1>4, <2>4, <2>5, <2>6, <3>1 DEF VOpen
    <2>8. CallStage(c)'
      <3>1. DOMAIN y'[c] = Rows /\ DOMAIN u'[c] = Rows /\ keygen'.pc = "ready"
        BY <1>2, <1>3
      <3> QED
        BY <1>2, <1>4, <1>5, <2>6, <2>7, <3>1 DEF CallStage
    <2> QED
      BY <1>2, <1>3, <2>1, <2>6, <2>8, EncapsStep DEF SchemeInv
  <1>7. CASE i0 = k
    <2> DEFINE single == Single(CallNoise(msg, 2 * k, 2))
               body == Single(<<"m", msg>>)
               base == Scheme!Intt(v_poly[c])
               noise == Scheme!Atom(CallNoise(msg, 2 * k, 2))
               message == Scheme!Atom(<<"m", msg>>)
               inner == Scheme!Add(base, noise)
               new == Scheme!Add(inner, message)
    <2>1. v_poly' = [v_poly EXCEPT ![c] = new] /\ job' = [job EXCEPT ![c].pc = "done"]
      BY <1>1, <1>3, <1>7 DEF Scheme!CreateV, Scheme!Noise, Scheme!Message, CallNoise
    <2>2. \A w \in Monomials(base) : SharedTerm(msg, w)
      BY <1>1, <1>3, TransformShape DEF VOpen, Monomials
    <2>3. Monomials(noise) = {single} /\ noise.terms[single] = 1 /\ Monomials(message) = {body}
      BY SampleShape
    <2>4. single \notin Monomials(base)
      BY <1>3, <2>2, NoiseIsNoTerm
    <2>5. single # body
      <3>1. CallNoise(msg, 2 * k, 2) # <<"m", msg>>
        <4>1. CallNoise(msg, 2 * k, 2)[1] # <<"m", msg>>[1]
          BY DEF CallNoise
        <4> QED
          BY <4>1
      <3>2. \A a, b : b \in DOMAIN Single(a) <=> b = a
        BY SampleShape
      <3> QED
        BY <3>1, <3>2
    <2> HIDE DEF base, noise, message, single, body
    <2>6. Monomials(inner) \subseteq Monomials(base) \cup {single}
      BY <2>3, SumShape
    <2>7. single \in Monomials(inner) /\ inner.terms[single] = 1
      BY <2>3, <2>4, SumKeeps
    <2> HIDE DEF inner
    <2>8. Monomials(new) \subseteq Monomials(inner) \cup {body}
      BY <2>3, SumShape
    <2>9. single \in Monomials(new)
      BY <2>3, <2>5, <2>7, SumKeeps
    <2> HIDE DEF new
    <2>10. \A w \in Monomials(new) : w = single \/ w = body \/ SharedTerm(msg, w)
      BY <2>2, <2>6, <2>8
    <2>11. /\ DOMAIN job'[c] = {"pc", "i", "j", "m"} /\ job'[c].m = msg /\ job'[c].pc = "done"
           /\ job'[c].i \in 0 .. k /\ job'[c].j \in 0 .. k
      BY <1>1, <1>2, <1>3, <1>7, <2>1
    <2>12. VDone(c)'
      <3>1. v_poly'[c] = new
        BY <1>3, <2>1
      <3>2. CallNoise(msg, 2 * k, 2)' = CallNoise(msg, 2 * k, 2)
        BY <1>2 DEF CallNoise, Scheme!r
      <3> QED
        BY <1>2, <1>4, <2>9, <2>10, <2>11, <3>1 DEF VDone, single, body
    <2>13. CallStage(c)'
      <3>1. DOMAIN y'[c] = Rows /\ DOMAIN u'[c] = Rows /\ keygen'.pc = "ready"
        BY <1>2, <1>3
      <3> QED
        BY <1>2, <1>4, <1>5, <2>11, <2>12, <3>1 DEF CallStage
    <2> QED
      BY <1>2, <1>3, <2>1, <2>11, <2>13, EncapsStep DEF SchemeInv
  <1> QED
    BY <1>3, <1>6, <1>7

\* The wipe of a context brings it back to where it started.
LEMMA WipeEncapsCleans ==
  ASSUME SchemeInv, NEW c \in Contexts, Scheme!WipeEncaps(c), UNCHANGED <<k, keygen>>
  PROVE  /\ CallStage(c)' /\ job'[c].pc = "idle"
         /\ DOMAIN job' = Contexts /\ DOMAIN y' = Contexts /\ DOMAIN u' = Contexts /\ DOMAIN v_poly' = Contexts
         /\ \A e \in Contexts : e # c => /\ job'[e] = job[e] /\ y'[e] = y[e]
                                         /\ u'[e] = u[e] /\ v_poly'[e] = v_poly[e]
  <1>1. /\ y' = [y EXCEPT ![c] = [row \in Rows |-> Scheme!Zero]]
        /\ u' = [u EXCEPT ![c] = [row \in Rows |-> Scheme!Zero]]
        /\ v_poly' = [v_poly EXCEPT ![c] = Scheme!Zero]
        /\ job' = [job EXCEPT ![c] = [pc |-> "idle", i |-> 0, j |-> 0, m |-> {}]]
    BY DEF Scheme!WipeEncaps, Rows, Scheme!Rows
  <1>2. DOMAIN job = Contexts /\ DOMAIN y = Contexts /\ DOMAIN u = Contexts /\ DOMAIN v_poly = Contexts
    BY DEF SchemeInv
  <1>3. Rows' = Rows
    BY Primed
  <1>4. /\ DOMAIN y'[c] = Rows /\ DOMAIN u'[c] = Rows /\ v_poly'[c] = Scheme!Zero
        /\ \A row \in Rows : u'[c][row] = Scheme!Zero
        /\ job'[c] = [pc |-> "idle", i |-> 0, j |-> 0, m |-> {}]
    BY <1>1, <1>2
  <1>5. 0 \in 0 .. k
    BY DEF SchemeInv, KeyStage
  <1>6. CallStage(c)'
    BY <1>3, <1>4, <1>5 DEF CallStage, ContextClean
  <1> QED
    BY <1>1, <1>2, <1>4, <1>6

LEMMA SendKeeps ==
  ASSUME SchemeInv, Scheme!Send
  PROVE  SchemeInv'
  <1>1. "slot" \in Contexts /\ "client" \in Contexts
    BY DEF Contexts, Scheme!Contexts
  <1>2. /\ job["client"].pc = "done" /\ Scheme!WipeEncaps("client")
        /\ UNCHANGED <<k, keygen, secret, t, full_matrix, decrypt>>
    BY DEF Scheme!Send, Scheme!keyVars
  <1>3. keygen.pc = "ready" /\ SlotStage
    BY <1>1, <1>2 DEF SchemeInv, CallStage
  <1>4. SlotStage'
    BY <1>1, <1>2, <1>3, WipeEncapsCleans DEF SlotStage
  <1> QED
    BY <1>1, <1>2, <1>4, WipeEncapsCleans, CallStep

LEMMA DamageKeeps ==
  ASSUME SchemeInv, Scheme!Damage
  PROVE  SchemeInv'
  <1>1. /\ wire # << >>
        /\ UNCHANGED <<k, keygen, secret, t, full_matrix, job, y, u, v_poly, decrypt>>
    BY DEF Scheme!Damage, Scheme!keyVars, Scheme!encapsVars
  <1>2. SlotStage'
    BY <1>1 DEF SchemeInv, SlotStage
  <1>3. "slot" \in Contexts
    BY DEF Contexts, Scheme!Contexts
  <1>4. CallStage("slot")'
    BY <1>1, <1>3, CallFrame DEF SchemeInv
  <1> QED
    BY <1>1, <1>2, <1>3, <1>4, CallStep DEF SchemeInv

LEMMA ReceiveKeeps ==
  ASSUME SchemeInv, Scheme!Receive
  PROVE  SchemeInv'
  <1>1. "slot" \in Contexts /\ "client" \in Contexts
    BY DEF Contexts, Scheme!Contexts
  <1>2. /\ wire # << >> /\ job["slot"].pc = "idle" /\ wire' = << >>
        /\ job' = [job EXCEPT !["slot"] = [job["slot"] EXCEPT !.pc = "decrypt", !.i = 0]]
        /\ UNCHANGED <<k, keygen, secret, t, full_matrix, y, u, v_poly>>
    BY <1>1 DEF Scheme!Receive, Scheme!keyVars, SchemeInv
  <1>3. /\ SlotStage /\ CallStage("slot") /\ keygen.pc = "ready" /\ DOMAIN job = Contexts
        /\ decrypt.poly = Scheme!Zero /\ decrypt.m = {} /\ 0 \in 0 .. k
    BY <1>1, <1>2 DEF SchemeInv, SlotStage, KeyStage
  <1>4. /\ DOMAIN decrypt' = {"u", "v", "poly", "m", "ciphertext"}
        /\ decrypt'.poly = Scheme!Zero /\ decrypt'.m = {}
    BY <1>3 DEF Scheme!Receive, SlotStage
  <1>5. job'["slot"] = [job["slot"] EXCEPT !.pc = "decrypt", !.i = 0]
    BY <1>1, <1>2, <1>3
  <1>6. job'["client"] = job["client"] /\ DOMAIN job' = Contexts
    BY <1>1, <1>2, <1>3
  <1>7. /\ DOMAIN job'["slot"] = {"pc", "i", "j", "m"} /\ job'["slot"].pc = "decrypt"
        /\ job'["slot"].i = 0 /\ job'["slot"].j \in 0 .. k
    BY <1>3, <1>5 DEF CallStage
  <1>8. SlotStage'
    BY <1>2, <1>3, <1>4, <1>6 DEF SlotStage
  <1>9. CallStage("slot")'
    <2>1. ContextClean("slot")' = ContextClean("slot") /\ Rows' = Rows
      BY <1>2, Primed DEF ContextClean
    <2> QED
      BY <1>2, <1>3, <1>7, <2>1 DEF CallStage
  <1> QED
    BY <1>1, <1>2, <1>6, <1>8, <1>9, CallStep DEF SchemeInv

LEMMA DecryptKeeps ==
  ASSUME SchemeInv, Scheme!Decrypt
  PROVE  SchemeInv'
  <1>1. "slot" \in Contexts /\ "client" \in Contexts
    BY DEF Contexts, Scheme!Contexts
  <1>2. PICK i0 : i0 = job["slot"].i
    OBVIOUS
  <1>3. /\ job["slot"].pc = "decrypt"
        /\ UNCHANGED <<k, keygen, secret, t, full_matrix, y, u, v_poly, wire>>
    BY DEF Scheme!Decrypt, Scheme!keyVars
  <1>4. /\ SlotStage /\ CallStage("slot") /\ keygen.pc = "ready" /\ DOMAIN job = Contexts
        /\ i0 \in 0 .. k /\ k \in {2, 3, 4} /\ ContextClean("slot") /\ job["slot"].j \in 0 .. k
        /\ DOMAIN job["slot"] = {"pc", "i", "j", "m"}
    BY <1>1, <1>2, <1>3 DEF SchemeInv, CallStage, KeyStage
  <1>5. DOMAIN decrypt' = {"u", "v", "poly", "m", "ciphertext"}
    BY <1>4 DEF Scheme!Decrypt, SlotStage
  <1>6. ContextClean("slot")' /\ Rows' = Rows
    BY <1>3, <1>4, Primed DEF ContextClean
  <1>7. \/ i0 < k /\ job' = [job EXCEPT !["slot"].i = i0 + 1]
        \/ \E msg : job' = [job EXCEPT !["slot"] = [pc |-> "y", i |-> 0, j |-> 0, m |-> msg]]
    BY <1>2 DEF Scheme!Decrypt
  <1>8. /\ DOMAIN job'["slot"] = {"pc", "i", "j", "m"} /\ job'["slot"].j \in 0 .. k
        /\ \/ job'["slot"].pc = "decrypt" /\ job'["slot"].i \in 1 .. k
           \/ job'["slot"].pc = "y" /\ job'["slot"].i = 0
    <2>1. CASE i0 < k /\ job' = [job EXCEPT !["slot"].i = i0 + 1]
      BY <1>1, <1>2, <1>3, <1>4, <2>1
    <2>2. CASE \E msg : job' = [job EXCEPT !["slot"] = [pc |-> "y", i |-> 0, j |-> 0, m |-> msg]]
      <3>1. PICK msg : job' = [job EXCEPT !["slot"] = [pc |-> "y", i |-> 0, j |-> 0, m |-> msg]]
        BY <2>2
      <3>2. job'["slot"] = [pc |-> "y", i |-> 0, j |-> 0, m |-> msg]
        BY <1>1, <1>4, <3>1
      <3>3. 0 \in 0 .. k
        BY <1>4
      <3> QED
        BY <3>2, <3>3
    <2> QED
      BY <1>7, <2>1, <2>2
  <1>9. job'["client"] = job["client"] /\ DOMAIN job' = Contexts
    BY <1>1, <1>4, <1>7
  <1>10. SlotStage'
    BY <1>3, <1>4, <1>5, <1>8, <1>9 DEF SlotStage
  <1>11. CallStage("slot")'
    <2>1. /\ job'["slot"].i \in 0 .. k
          /\ job'["slot"].pc = "y" => job'["slot"].i < k /\ \A row \in Rows : ~(row < job'["slot"].i)
      BY <1>4, <1>8 DEF Rows, Scheme!Rows
    <2>2. DOMAIN y'["slot"] = Rows /\ DOMAIN u'["slot"] = Rows
      BY <1>3, <1>4 DEF CallStage
    <2> QED
      BY <1>3, <1>4, <1>6, <1>8, <2>1, <2>2 DEF CallStage
  <1> QED
    BY <1>1, <1>3, <1>9, <1>10, <1>11, CallStep, <1>4, <1>7 DEF SchemeInv

LEMMA SelectKeeps ==
  ASSUME SchemeInv, Scheme!Select
  PROVE  SchemeInv'
  <1>1. "slot" \in Contexts /\ "client" \in Contexts
    BY DEF Contexts, Scheme!Contexts
  <1>2. /\ Scheme!WipeEncaps("slot") /\ UNCHANGED <<k, keygen, secret, t, full_matrix, wire>>
        /\ decrypt' = [Scheme!DecryptWiped EXCEPT !.ciphertext = << >>]
    BY DEF Scheme!Select, Scheme!keyVars
  <1>3. SlotStage
    BY DEF SchemeInv
  <1>4. /\ DOMAIN decrypt' = {"u", "v", "poly", "m", "ciphertext"}
        /\ decrypt'.poly = Scheme!Zero /\ decrypt'.m = {}
    BY <1>2, <1>3 DEF Scheme!DecryptWiped, SlotStage
  <1>5. SlotStage'
    BY <1>1, <1>2, <1>3, <1>4, WipeEncapsCleans DEF SlotStage
  <1> QED
    BY <1>1, <1>2, <1>5, WipeEncapsCleans, CallStep

-----------------------------------------------------------------------------
(* The scheme: all steps *)

LEMMA SchemeStarts ==
  ASSUME Scheme!Init
  PROVE  SchemeInv
  <1>1. /\ k \in {2, 3, 4} /\ keygen = [pc |-> "secret", i |-> 0, j |-> 0]
        /\ secret = [row \in Rows |-> Scheme!Zero] /\ t = [row \in Rows |-> Scheme!Zero]
        /\ full_matrix = [e \in 0 .. k * k - 1 |-> Scheme!Zero]
        /\ job = [c \in Contexts |-> [pc |-> "idle", i |-> 0, j |-> 0, m |-> {}]]
        /\ y = [c \in Contexts |-> [row \in Rows |-> Scheme!Zero]]
        /\ u = [c \in Contexts |-> [row \in Rows |-> Scheme!Zero]]
        /\ v_poly = [c \in Contexts |-> Scheme!Zero]
        /\ wire = << >>
    BY PrimitivesAssumption DEF Scheme!Init, Rows, Contexts
  <1>2. /\ DOMAIN decrypt = {"u", "v", "poly", "m", "ciphertext"}
        /\ decrypt.poly = Scheme!Zero /\ decrypt.m = {}
    BY DEF Scheme!Init
  <1>3. KeyStage
    <2>1. /\ 0 \in 0 .. k - 1 /\ 0 \in 0 .. k /\ \A row \in Rows : ~(row < 0)
      BY <1>1 DEF Rows, Scheme!Rows
    <2> QED
      BY <1>1, <2>1, ZeroShape DEF KeyStage, PublicOpen
  <1>4. "slot" \in Contexts /\ "client" \in Contexts
    BY DEF Contexts, Scheme!Contexts
  <1>5. SlotStage
    BY <1>1, <1>2, <1>4 DEF SlotStage
  <1>6. ASSUME NEW c \in Contexts
        PROVE  CallStage(c)
    <2>1. 0 \in 0 .. k
      BY <1>1
    <2> QED
      BY <1>1, <2>1 DEF CallStage, ContextClean
  <1> QED
    BY <1>1, <1>3, <1>5, <1>6 DEF SchemeInv

LEMMA SchemeStep ==
  ASSUME SchemeInv, Scheme!Next
  PROVE  SchemeInv'
  <1>1. Scheme!CreateSecret \/ Scheme!CreatePublic \/ Scheme!FillMatrix => SchemeInv'
    BY CreateSecretKeeps, CreatePublicKeeps, FillMatrixKeeps
  <1>2. Scheme!StartClient \/ Scheme!Send \/ Scheme!Damage => SchemeInv'
    BY StartClientKeeps, SendKeeps, DamageKeeps
  <1>3. Scheme!Receive \/ Scheme!Decrypt \/ Scheme!Select => SchemeInv'
    BY ReceiveKeeps, DecryptKeeps, SelectKeeps
  <1>4. ASSUME NEW c \in Contexts, Scheme!CreateY(c) \/ Scheme!CreateU(c) \/ Scheme!CreateV(c)
        PROVE  SchemeInv'
    BY <1>4, CreateYKeeps, CreateUKeeps, CreateVKeeps
  <1> QED
    BY <1>1, <1>2, <1>3, <1>4 DEF Scheme!Next, Contexts

LEMMA SchemeFrame ==
  ASSUME SchemeInv, UNCHANGED schemeVars
  PROVE  SchemeInv'
  <1>1. UNCHANGED <<k, keygen, secret, t, full_matrix, job, y, u, v_poly, decrypt, wire>>
    BY DEF schemeVars
  <1>2. "slot" \in Contexts
    BY DEF Contexts, Scheme!Contexts
  <1>3. CallStage("slot")' /\ SlotStage'
    BY <1>1, <1>2, CallFrame DEF SchemeInv, SlotStage
  <1> QED
    BY <1>1, <1>2, <1>3, CallStep DEF SchemeInv

\* The inductive invariant of the scheme: what stage the key and every context is
\* in, and which monomials, with noise of which seeds and counters, its buffers
\* hold by then (ml_kem_create_keys.c, ml_kem_encaps.c, ml_kem_decrypt.c).
THEOREM SchemeSafe == PrimitivesSpec => [](part = "scheme" => SchemeInv)
  <1>1. PrimitivesInit => (part = "scheme" => SchemeInv)
    BY SchemeStarts DEF PrimitivesInit
  <1>2. ASSUME part = "scheme" => SchemeInv, [PrimitivesNext]_primitiveVars
        PROVE  (part = "scheme" => SchemeInv)'
    <2>1. CASE RunScheme(Scheme!Next)
      BY <1>2, <2>1, SchemeStep DEF RunScheme
    <2>2. CASE RunResidues(Next) \/ RunNtt(Transforming!Next) \/ RunCbd(Noise!Next)
               \/ RunKeccak(Permutation!Next)
      BY <2>2 DEF RunResidues, RunNtt, RunCbd, RunKeccak
    <2>3. CASE UNCHANGED primitiveVars
      BY <1>2, <2>3, SchemeFrame DEF primitiveVars
    <2> QED
      BY <1>2, <2>1, <2>2, <2>3 DEF PrimitivesNext
  <1> QED
    BY <1>1, <1>2, PTL DEF PrimitivesSpec

-----------------------------------------------------------------------------
(* The scheme: the seeds and counters of its noise *)

SeedsOf(polys) ==
  {<<a[2], a[3]>> : a \in {b \in UNION {Scheme!Atoms(p) : p \in polys} : b[1] = "noise"}}
KeySeeds == {<<Scheme!sigma, e>> : e \in 0 .. 2 * k - 1}
CallSeeds(msg) == {<<Scheme!r(msg), e>> : e \in 0 .. 2 * k}
KeyPolys == {secret[row] : row \in Rows} \cup {t[row] : row \in Rows}
CallPolys(c) == {y[c][row] : row \in Rows} \cup {u[c][row] : row \in Rows} \cup {v_poly[c]}

\* A noise polynomial that a buffer is made of.
LEMMA SeedFound ==
  ASSUME NEW polys, NEW p \in polys, NEW sd, NEW e, NEW f1,
         Single(<<"noise", sd, e, f1>>) \in Monomials(p)
  PROVE  <<sd, e>> \in SeedsOf(polys)
  <1> DEFINE a == <<"noise", sd, e, f1>>
  <1>1. DOMAIN Single(a) = {a}
    BY SampleShape
  <1>2. a \in Scheme!Atoms(p)
    BY <1>1 DEF Scheme!Atoms, Scheme!BagToSet, Monomials
  <1>3. a[1] = "noise" /\ a[2] = sd /\ a[3] = e
    OBVIOUS
  <1> QED
    BY <1>2, <1>3 DEF SeedsOf

LEMMA SeedTraced ==
  ASSUME NEW polys, NEW q \in SeedsOf(polys)
  PROVE  \E p \in polys : \E w \in Monomials(p) : \E a \in DOMAIN w :
           a[1] = "noise" /\ q = <<a[2], a[3]>>
  <1>1. PICK a \in UNION {Scheme!Atoms(p) : p \in polys} : a[1] = "noise" /\ q = <<a[2], a[3]>>
    BY DEF SeedsOf
  <1>2. PICK p \in polys : a \in Scheme!Atoms(p)
    BY <1>1
  <1>3. PICK w \in Monomials(p) : a \in DOMAIN w
    BY <1>2 DEF Scheme!Atoms, Scheme!BagToSet, Monomials
  <1> QED
    BY <1>1, <1>2, <1>3

LEMMA SeedsCounted ==
  ASSUME NEW sd, NEW n0 \in Nat
  PROVE  Cardinality({<<sd, e>> : e \in 0 .. n0}) = n0 + 1
  <1> DEFINE S == 0 .. n0
             T == {<<sd, e>> : e \in S}
             g == [e \in S |-> <<sd, e>>]
  <1>1. g \in Bijection(S, T)
    BY DEF Bijection, Injection, Surjection, IsInjective
  <1>2. IsFiniteSet(S) /\ Cardinality(S) = n0 + 1
    BY FS_Interval
  <1> QED
    BY <1>1, <1>2, FS_Bijection DEF ExistsBijection

LEMMA KeySeedsAre ==
  ASSUME KeyStage, keygen.pc \in {"fill", "ready"}
  PROVE  SeedsOf(KeyPolys) = KeySeeds
  <1>1. /\ k \in {2, 3, 4}
        /\ \A row \in Rows : /\ Monomials(secret[row]) = {Single(KeyNoise(row))}
                             /\ PublicDone(row)
    BY DEF KeyStage
  <1>2. ASSUME NEW q \in SeedsOf(KeyPolys)
        PROVE  q \in KeySeeds
    <2>1. PICK p \in KeyPolys : \E w \in Monomials(p) : \E a \in DOMAIN w :
            a[1] = "noise" /\ q = <<a[2], a[3]>>
      BY SeedTraced
    <2>2. PICK w \in Monomials(p) : \E a \in DOMAIN w : a[1] = "noise" /\ q = <<a[2], a[3]>>
      BY <2>1
    <2>3. PICK a \in DOMAIN w : a[1] = "noise" /\ q = <<a[2], a[3]>>
      BY <2>2
    <2>4. \A e : \A b : b \in DOMAIN Single(KeyNoise(e)) <=> b = KeyNoise(e)
      BY SampleShape
    <2>5. OfPublic(a)
      <3>1. CASE \E row \in Rows : p = secret[row]
        <4>1. PICK row \in Rows : p = secret[row]
          BY <3>1
        <4>2. a = KeyNoise(row)
          BY <1>1, <2>3, <2>4, <4>1
        <4>3. row \in 0 .. 2 * k - 1
          BY <1>1 DEF Rows, Scheme!Rows
        <4> QED
          BY <4>2, <4>3 DEF OfPublic
      <3>2. CASE \E row \in Rows : p = t[row]
        <4>1. PICK row \in Rows : p = t[row]
          BY <3>2
        <4>2. w = Single(KeyNoise(k + row)) \/ KeyTerm(w)
          BY <1>1, <2>3, <4>1 DEF PublicDone, Public
        <4>3. k + row \in 0 .. 2 * k - 1 /\ 0 .. k - 1 \subseteq 0 .. 2 * k - 1
          BY <1>1 DEF Rows, Scheme!Rows
        <4>4. ~FromMatrix(a)
          BY <2>3 DEF FromMatrix
        <4>5. CASE KeyTerm(w)
          BY <2>3, <4>3, <4>4, <4>5 DEF KeyTerm, OfKey, OfPublic
        <4>6. CASE w = Single(KeyNoise(k + row))
          BY <2>3, <2>4, <4>3, <4>6 DEF OfPublic
        <4> QED
          BY <4>2, <4>5, <4>6
      <3> QED
        BY <2>3, <3>1, <3>2 DEF KeyPolys
    <2> QED
      BY <2>3, <2>5 DEF OfPublic, KeyNoise, KeySeeds
  <1>3. ASSUME NEW e \in 0 .. 2 * k - 1
        PROVE  <<Scheme!sigma, e>> \in SeedsOf(KeyPolys)
    <2>1. PICK p \in KeyPolys : Single(KeyNoise(e)) \in Monomials(p)
      <3>1. CASE e < k
        <4>1. e \in Rows
          BY <1>1, <3>1 DEF Rows, Scheme!Rows
        <4> QED
          BY <1>1, <4>1 DEF KeyPolys
      <3>2. CASE ~(e < k)
        <4>1. e - k \in Rows /\ k + (e - k) = e
          BY <1>1, <3>2 DEF Rows, Scheme!Rows
        <4>2. Single(KeyNoise(e)) \in Monomials(t[e - k])
          BY <1>1, <4>1 DEF PublicDone
        <4> QED
          BY <4>1, <4>2 DEF KeyPolys
      <3> QED
        BY <3>1, <3>2
    <2> QED
      BY <2>1, SeedFound DEF KeyNoise
  <1> QED
    BY <1>2, <1>3 DEF KeySeeds

LEMMA CallSeedsAre ==
  ASSUME KeyStage, NEW c, CallStage(c), job[c].pc = "done"
  PROVE  SeedsOf(CallPolys(c)) \ KeySeeds = CallSeeds(job[c].m)
  <1>1. PICK msg : msg = job[c].m
    OBVIOUS
  <1>2. /\ k \in {2, 3, 4}
        /\ \A row \in Rows : YDone(c, row) /\ UDone(c, row)
        /\ VDone(c)
    BY DEF KeyStage, CallStage
  <1>3. \A a, b : b \in DOMAIN Single(a) <=> b = a
    BY SampleShape
  <1>4. 2 * k \in 0 .. 2 * k
    BY <1>2
  <1>5. ASSUME NEW a, OfTemporary(msg, a)
        PROVE  <<a[2], a[3]>> \in CallSeeds(msg)
    <2>1. 0 .. k - 1 \subseteq 0 .. 2 * k
      BY <1>2
    <2> QED
      BY <1>5, <2>1 DEF OfTemporary, CallNoise, CallSeeds
  <1>6. ASSUME NEW a, OfPublic(a)
        PROVE  <<a[2], a[3]>> \in KeySeeds
    BY <1>6 DEF OfPublic, KeyNoise, KeySeeds
  <1>7. ASSUME NEW e \in 0 .. 2 * k, NEW f1
        PROVE  LET a == CallNoise(msg, e, f1) IN <<a[2], a[3]>> \in CallSeeds(msg)
    BY DEF CallNoise, CallSeeds
  <1>8. ASSUME NEW q \in SeedsOf(CallPolys(c)), q \notin KeySeeds
        PROVE  q \in CallSeeds(msg)
    <2>1. PICK p \in CallPolys(c) : \E w \in Monomials(p) : \E a \in DOMAIN w :
            a[1] = "noise" /\ q = <<a[2], a[3]>>
      BY SeedTraced
    <2>2. PICK w \in Monomials(p) : \E a \in DOMAIN w : a[1] = "noise" /\ q = <<a[2], a[3]>>
      BY <2>1
    <2>3. PICK a \in DOMAIN w : a[1] = "noise" /\ q = <<a[2], a[3]>>
      BY <2>2
    <2>4. ~FromMatrix(a)
      BY <2>3 DEF FromMatrix
    <2>5. CASE \E row \in Rows : p = y[c][row]
      <3>1. PICK row \in Rows : p = y[c][row]
        BY <2>5
      <3>2. a = CallNoise(msg, row, Scheme!eta1)
        BY <1>1, <1>2, <1>3, <2>2, <2>3, <3>1 DEF YDone
      <3>3. row \in 0 .. 2 * k
        BY <1>2 DEF Rows, Scheme!Rows
      <3> QED
        BY <1>7, <2>3, <3>2, <3>3
    <2>6. CASE \E row \in Rows : p = u[c][row]
      <3>1. PICK row \in Rows : p = u[c][row]
        BY <2>6
      <3>2. w = Single(CallNoise(msg, k + row, 2)) \/ CallTerm(msg, w)
        BY <1>1, <1>2, <2>2, <3>1 DEF UDone
      <3>3. k + row \in 0 .. 2 * k
        BY <1>2 DEF Rows, Scheme!Rows
      <3>4. CASE CallTerm(msg, w)
        BY <1>5, <2>3, <2>4, <3>4 DEF CallTerm
      <3>5. CASE w = Single(CallNoise(msg, k + row, 2))
        <4>1. a = CallNoise(msg, k + row, 2)
          BY <1>3, <2>3, <3>5
        <4> QED
          BY <1>7, <2>3, <3>3, <4>1
      <3> QED
        BY <3>2, <3>4, <3>5
    <2>7. CASE p = v_poly[c]
      <3>1. \/ w = Single(CallNoise(msg, 2 * k, 2)) \/ w = Single(<<"m", msg>>)
            \/ SharedTerm(msg, w)
        BY <1>1, <1>2, <2>2, <2>7 DEF VDone
      <3>2. CASE w = Single(CallNoise(msg, 2 * k, 2))
        <4>1. a = CallNoise(msg, 2 * k, 2)
          BY <1>3, <2>3, <3>2
        <4> QED
          BY <1>4, <1>7, <2>3, <4>1
      <3>3. CASE w = Single(<<"m", msg>>)
        <4>1. a = <<"m", msg>>
          BY <1>3, <2>3, <3>3
        <4> QED
          BY <2>3, <4>1
      <3>4. CASE SharedTerm(msg, w)
        BY <1>5, <1>6, <1>8, <2>3, <2>4, <3>4 DEF SharedTerm
      <3> QED
        BY <3>1, <3>2, <3>3, <3>4
    <2> QED
      BY <2>1, <2>5, <2>6, <2>7 DEF CallPolys
  <1>9. ASSUME NEW e \in 0 .. 2 * k
        PROVE  <<Scheme!r(msg), e>> \in SeedsOf(CallPolys(c))
    <2>1. CASE e < k
      <3>1. e \in Rows
        BY <1>2, <2>1 DEF Rows, Scheme!Rows
      <3>2. y[c][e] \in CallPolys(c) /\ Single(CallNoise(msg, e, Scheme!eta1)) \in Monomials(y[c][e])
        BY <1>1, <1>2, <3>1 DEF CallPolys, YDone
      <3> QED
        BY <3>2, SeedFound DEF CallNoise
    <2>2. CASE k <= e /\ e < 2 * k
      <3>1. e - k \in Rows /\ k + (e - k) = e
        BY <1>2, <2>2 DEF Rows, Scheme!Rows
      <3>2. u[c][e - k] \in CallPolys(c) /\ Single(CallNoise(msg, e, 2)) \in Monomials(u[c][e - k])
        BY <1>1, <1>2, <3>1 DEF CallPolys, UDone
      <3> QED
        BY <3>2, SeedFound DEF CallNoise
    <2>3. CASE e = 2 * k
      <3>1. v_poly[c] \in CallPolys(c) /\ Single(CallNoise(msg, e, 2)) \in Monomials(v_poly[c])
        BY <1>1, <1>2, <2>3 DEF CallPolys, VDone
      <3> QED
        BY <3>1, SeedFound DEF CallNoise
    <2> QED
      BY <1>2, <2>1, <2>2, <2>3
  <1>10. \A e : <<Scheme!r(msg), e>> \notin KeySeeds
    <2>1. Scheme!r(msg)[1] # Scheme!sigma[1]
      BY DEF Scheme!r, Scheme!sigma
    <2> QED
      BY <2>1 DEF KeySeeds
  <1> QED
    BY <1>1, <1>8, <1>9, <1>10 DEF CallSeeds

LEMMA NoiseCounted ==
  ASSUME SchemeInv
  PROVE  Scheme!NoiseOnce /\ Scheme!StartsClean
  <1>1. /\ KeyStage /\ SlotStage /\ k \in {2, 3, 4} /\ 2 * k \in Nat /\ 2 * k - 1 \in Nat
        /\ "slot" \in Contexts /\ \A c \in Contexts : CallStage(c)
    BY DEF SchemeInv, KeyStage, Contexts, Scheme!Contexts
  <1>2. \A S : Scheme!Cardinality(S) = Cardinality(S)
    BY DEF Scheme!Cardinality, Cardinality
  <1>3. Cardinality(KeySeeds) = 2 * k
    <2>1. Cardinality(KeySeeds) = (2 * k - 1) + 1
      BY <1>1, SeedsCounted DEF KeySeeds
    <2> QED
      BY <1>1, <2>1
  <1>4. \A msg : Cardinality(CallSeeds(msg)) = 2 * k + 1
    BY <1>1, SeedsCounted DEF CallSeeds
  <1>5. keygen.pc \in {"fill", "ready"} => Scheme!Cardinality(SeedsOf(KeyPolys)) = 2 * k
    BY <1>1, <1>2, <1>3, KeySeedsAre
  <1>6. ASSUME NEW c \in Contexts, job[c].pc = "done"
        PROVE  Scheme!Cardinality(SeedsOf(CallPolys(c)) \ SeedsOf(KeyPolys)) = 2 * k + 1
    <2>1. CallStage(c) /\ keygen.pc = "ready"
      BY <1>1, <1>6 DEF CallStage
    <2> QED
      BY <1>1, <1>2, <1>4, <1>6, <2>1, KeySeedsAre, CallSeedsAre
  <1>7. Scheme!NoiseOnce
    BY <1>5, <1>6 DEF Scheme!NoiseOnce, SeedsOf, KeyPolys, CallPolys, Rows, Contexts
  <1>8. Scheme!StartsClean
    <2>1. \A c \in Contexts : job[c].pc = "y" => v_poly[c] = Scheme!Zero /\ \A row \in Rows : u[c][row] = Scheme!Zero
      BY <1>1 DEF CallStage, ContextClean
    <2> QED
      BY <1>1, <2>1 DEF Scheme!StartsClean, SlotStage, Rows, Contexts
  <1> QED
    BY <1>7, <1>8

\* No seed and counter are used for two noise polynomials, in the key and in the
\* ciphertexts, for any number of messages and of changed ciphertexts (the
\* counters behind the seed in ml_kem_create_keys.c and ml_kem_encaps.c).
THEOREM NoiseIsOnce == PrimitivesSpec => []NoiseOnce
  <1>1. (part = "scheme" => SchemeInv) => NoiseOnce
    BY NoiseCounted DEF NoiseOnce
  <1> QED
    BY <1>1, SchemeSafe, PTL

\* Every encapsulation finds the accumulators u and v of its context zero, and
\* every decryption its polynomial and its message buffer, whatever calls used
\* them before (ml_kem_encaps.c and ml_kem_decaps.c add to them, and or bits into
\* them, without setting them first).
THEOREM CallsStartClean == PrimitivesSpec => [](part = "scheme" => Scheme!StartsClean)
  <1>1. (part = "scheme" => SchemeInv) => (part = "scheme" => Scheme!StartsClean)
    BY NoiseCounted
  <1> QED
    BY <1>1, SchemeSafe, PTL

-----------------------------------------------------------------------------
(* The scheme: the domain each buffer is in *)

Open == {"zero", "ntt"}
Proper == {"zero", "ntt", "time"}

KeyDomains ==
  /\ \A row \in Rows : secret[row].dom \in Open /\ t[row].dom \in Open
  /\ \A e \in DOMAIN full_matrix : full_matrix[e].dom \in Open

CallDomains(c) ==
  /\ \A row \in Rows : y[c][row].dom \in Open /\ u[c][row].dom \in Proper
  /\ v_poly[c].dom \in Proper
  /\ job[c].pc = "u" => \A row \in Rows : IF row < job[c].i THEN u[c][row].dom = "time"
                                                            ELSE u[c][row].dom \in Open
  /\ job[c].pc \in {"v", "done"} => \A row \in Rows : u[c][row].dom = "time"
  /\ job[c].pc = "v" => v_poly[c].dom \in Open
  /\ job[c].pc = "done" => v_poly[c].dom = "time"

\* A ciphertext that was made or received, and not yet turned over to <s, u>.
Arrived(row) == IsPoly(decrypt.u[row]) /\ decrypt.u[row].dom = "time"

SlotDomains ==
  /\ DOMAIN decrypt.u = Rows /\ decrypt.poly.dom \in Proper
  /\ \A row \in Rows : decrypt.u[row].dom \in Proper
  /\ job["slot"].pc = "decrypt" =>
       /\ IsPoly(decrypt.poly) /\ decrypt.poly.dom \in Open /\ decrypt.v.dom = "time"
       /\ \A row \in Rows : row < job["slot"].i \/ Arrived(row)

WireDomains ==
  wire # << >> =>
    /\ 1 \in DOMAIN wire /\ DOMAIN wire[1] = {"u", "v", "m", "intact"}
    /\ wire[1].v.dom = "time" /\ \A row \in Rows : wire[1].u[row].dom = "time"

DomainInv ==
  KeyDomains /\ SlotDomains /\ WireDomains /\ \A c \in Contexts : CallDomains(c)

LEMMA SumDomains ==
  ASSUME NEW g, NEW h
  PROVE  /\ g.dom \in Open /\ h.dom \in Open => Scheme!Add(g, h).dom \in Open
         /\ g.dom \in {"zero", "time"} /\ h.dom = "time" => Scheme!Add(g, h).dom = "time"
         /\ g.dom = "time" /\ h.dom \in {"zero", "time"} => Scheme!Sub(g, h).dom = "time"
  <1>1. Scheme!Add(g, h).dom = Scheme!SumDomain(g, h) /\ Scheme!Sub(g, h).dom = Scheme!SumDomain(g, h)
    BY DEF Scheme!Add, Scheme!Sub, Scheme!Combine
  <1> QED
    BY <1>1 DEF Open, Scheme!SumDomain

LEMMA ProductDomains ==
  ASSUME NEW g, NEW h, g.dom \in Open, h.dom \in Open
  PROVE  Scheme!Multiply(g, h).dom \in Open
  <1>1. Scheme!Multiply(g, h).dom =
          IF "zero" \in {g.dom, h.dom} THEN "zero" ELSE IF {g.dom, h.dom} = {"ntt"} THEN "ntt" ELSE "mixed"
    BY DEF Scheme!Multiply
  <1>2. CASE g.dom = "zero" \/ h.dom = "zero"
    BY <1>1, <1>2 DEF Open
  <1>3. CASE g.dom = "ntt" /\ h.dom = "ntt"
    BY <1>1, <1>3 DEF Open
  <1> QED
    BY <1>2, <1>3 DEF Open

LEMMA TransformDomains ==
  ASSUME NEW g, IsPoly(g)
  PROVE  /\ g.dom \in {"zero", "time"} => Scheme!Ntt(g).dom \in Open
         /\ g.dom \in Open => Scheme!Intt(g).dom \in {"zero", "time"}
  BY DEF IsPoly, Open, Scheme!Ntt, Scheme!Intt

LEMMA SampleDomains ==
  ASSUME NEW a
  PROVE  /\ Scheme!Atom(a).dom = "time" /\ Scheme!SampledInNtt(a).dom \in Open
         /\ Scheme!Ntt(Scheme!Atom(a)).dom \in Open
  <1>1. Scheme!Atom(a).dom = "time" /\ Scheme!SampledInNtt(a).dom \in Open
    BY DEF Scheme!Atom, Scheme!SampledInNtt, Open
  <1> QED
    BY <1>1, SampleShape, TransformDomains

LEMMA ZeroDomain == Scheme!Zero.dom \in Open /\ Scheme!Zero.dom \in Proper /\ IsPoly(Scheme!Zero)
  BY ZeroShape DEF Scheme!Zero, Open, Proper

LEMMA OpenIsProper == Open \subseteq Proper /\ "time" \in Proper /\ "mixed" \notin Proper
  BY DEF Open, Proper

LEMMA KeyDomainsFrame ==
  ASSUME KeyDomains, UNCHANGED <<k, secret, t, full_matrix>>
  PROVE  KeyDomains'
  <1>1. Rows' = Rows
    BY Primed
  <1> QED
    BY <1>1 DEF KeyDomains

LEMMA CallDomainsFrame ==
  ASSUME NEW c \in Contexts, CallDomains(c), UNCHANGED k,
         job'[c] = job[c], y'[c] = y[c], u'[c] = u[c], v_poly'[c] = v_poly[c]
  PROVE  CallDomains(c)'
  <1>1. Rows' = Rows
    BY Primed
  <1> QED
    BY <1>1 DEF CallDomains

LEMMA SlotDomainsFrame ==
  ASSUME SlotDomains, UNCHANGED <<k, decrypt>>,
         job'["slot"] = job["slot"] \/ job'["slot"].pc # "decrypt"
  PROVE  SlotDomains'
  <1>1. Rows' = Rows
    BY Primed
  <1>2. \A row : Arrived(row)' = Arrived(row)
    BY DEF Arrived
  <1> QED
    BY <1>1, <1>2 DEF SlotDomains

LEMMA WireDomainsFrame ==
  ASSUME WireDomains, UNCHANGED <<k, wire>>
  PROVE  WireDomains'
  <1>1. Rows' = Rows
    BY Primed
  <1> QED
    BY <1>1 DEF WireDomains

LEMMA KeyGenerationDomains ==
  ASSUME SchemeInv, DomainInv, KeyDomains', UNCHANGED <<k, job, y, u, v_poly, decrypt, wire>>
  PROVE  DomainInv'
  <1>1. Contexts' = Contexts
    BY DEF Contexts, Scheme!Contexts
  <1>2. SlotDomains' /\ WireDomains'
    BY SlotDomainsFrame, WireDomainsFrame DEF DomainInv
  <1>3. \A c \in Contexts : CallDomains(c)'
    BY CallDomainsFrame DEF DomainInv
  <1> QED
    BY <1>1, <1>2, <1>3 DEF DomainInv

LEMMA CreateSecretDomains ==
  ASSUME SchemeInv, DomainInv, Scheme!CreateSecret
  PROVE  DomainInv'
  <1>1. PICK new : /\ new.dom \in Open /\ secret' = [secret EXCEPT ![keygen.i] = new]
    <2>1. secret' = [secret EXCEPT ![keygen.i] = Scheme!Ntt(Scheme!Noise(Scheme!sigma, keygen.i, Scheme!eta1))]
      BY DEF Scheme!CreateSecret
    <2> QED
      BY <2>1, SampleDomains DEF Scheme!Noise
  <1>2. UNCHANGED <<k, t, full_matrix, job, y, u, v_poly, decrypt, wire>>
    BY DEF Scheme!CreateSecret, Scheme!encapsVars, Scheme!channelVars
  <1>3. KeyDomains /\ DOMAIN secret = Rows /\ Rows' = Rows
    BY <1>2, Primed DEF DomainInv, SchemeInv, KeyStage
  <1>4. KeyDomains'
    BY <1>1, <1>2, <1>3 DEF KeyDomains
  <1> QED
    BY <1>2, <1>4, KeyGenerationDomains

LEMMA CreatePublicDomains ==
  ASSUME SchemeInv, DomainInv, Scheme!CreatePublic
  PROVE  DomainInv'
  <1>1. UNCHANGED <<k, secret, full_matrix, job, y, u, v_poly, decrypt, wire>>
    BY DEF Scheme!CreatePublic, Scheme!encapsVars, Scheme!channelVars
  <1>2. /\ KeyDomains /\ DOMAIN t = Rows /\ Rows' = Rows
        /\ keygen.i \in Rows /\ keygen.j \in 0 .. k /\ k \in {2, 3, 4}
    BY <1>1, Primed DEF DomainInv, SchemeInv, KeyStage, Rows, Scheme!Rows
  <1>3. PICK row \in Rows : row = keygen.i
    BY <1>2
  <1>4. PICK term : term.dom \in Open /\ t' = [t EXCEPT ![row] = Scheme!Add(t[row], term)]
    <2>1. CASE keygen.j < k
      <3>1. keygen.j \in Rows
        BY <1>2, <2>1 DEF Rows, Scheme!Rows
      <3>2. Scheme!Multiply(Scheme!KeySeed(keygen.i, keygen.j), secret[keygen.j]).dom \in Open
        BY <1>2, <3>1, ProductDomains, SampleDomains DEF KeyDomains, Scheme!KeySeed, Scheme!MatrixPoly
      <3>3. t' = [t EXCEPT ![row] =
                    Scheme!Add(t[row], Scheme!Multiply(Scheme!KeySeed(keygen.i, keygen.j), secret[keygen.j]))]
        BY <1>2, <1>3, <2>1 DEF Scheme!CreatePublic
      <3> QED
        BY <3>2, <3>3
    <2>2. CASE ~(keygen.j < k)
      <3>1. t' = [t EXCEPT ![row] =
                    Scheme!Add(t[row], Scheme!Ntt(Scheme!Noise(Scheme!sigma, Scheme!KeyNoiseCounter(keygen.i), Scheme!eta1)))]
        BY <1>2, <1>3, <2>2 DEF Scheme!CreatePublic
      <3> QED
        BY <3>1, SampleDomains DEF Scheme!Noise
    <2> QED
      BY <2>1, <2>2
  <1>5. Scheme!Add(t[row], term).dom \in Open
    BY <1>2, <1>3, <1>4, SumDomains DEF KeyDomains
  <1>6. KeyDomains'
    BY <1>1, <1>2, <1>3, <1>4, <1>5 DEF KeyDomains
  <1> QED
    BY <1>1, <1>6, KeyGenerationDomains

LEMMA FillMatrixDomains ==
  ASSUME SchemeInv, DomainInv, Scheme!FillMatrix
  PROVE  DomainInv'
  <1>1. UNCHANGED <<k, secret, t, job, y, u, v_poly, decrypt, wire>>
    BY DEF Scheme!FillMatrix, Scheme!encapsVars, Scheme!channelVars
  <1>2. PICK e, new : new.dom \in Open /\ full_matrix' = [full_matrix EXCEPT ![e] = new]
    <2>1. full_matrix' = [full_matrix EXCEPT ![keygen.i * k + keygen.j] =
                            Scheme!FillSeed(keygen.i, keygen.j)]
      BY DEF Scheme!FillMatrix
    <2> QED
      BY <2>1, SampleDomains DEF Scheme!FillSeed, Scheme!MatrixPoly
  <1>3. KeyDomains /\ Rows' = Rows
    BY <1>1, Primed DEF DomainInv
  <1>4. \A d \in DOMAIN full_matrix' : full_matrix'[d].dom \in Open
    BY <1>2, <1>3 DEF KeyDomains
  <1>5. KeyDomains'
    BY <1>1, <1>3, <1>4 DEF KeyDomains
  <1> QED
    BY <1>1, <1>5, KeyGenerationDomains

LEMMA CallStepDomains ==
  ASSUME SchemeInv, DomainInv, NEW c \in Contexts, CallDomains(c)',
         UNCHANGED <<k, secret, t, full_matrix, decrypt, wire>>,
         \A d \in Contexts : d # c => /\ job'[d] = job[d] /\ y'[d] = y[d]
                                      /\ u'[d] = u[d] /\ v_poly'[d] = v_poly[d],
         job'[c].pc # "decrypt"
  PROVE  DomainInv'
  <1>1. Contexts' = Contexts /\ "slot" \in Contexts
    BY DEF Contexts, Scheme!Contexts
  <1>2. KeyDomains' /\ WireDomains'
    BY KeyDomainsFrame, WireDomainsFrame DEF DomainInv
  <1>3. SlotDomains'
    BY <1>1, SlotDomainsFrame DEF DomainInv
  <1>4. \A d \in Contexts : CallDomains(d)'
    <2> SUFFICES ASSUME NEW d \in Contexts, d # c
                 PROVE  CallDomains(d)'
      OBVIOUS
    <2>1. CallDomains(d)
      BY DEF DomainInv
    <2> QED
      BY <2>1, CallDomainsFrame
  <1> QED
    BY <1>1, <1>2, <1>3, <1>4 DEF DomainInv

LEMMA StartClientDomains ==
  ASSUME SchemeInv, DomainInv, Scheme!StartClient
  PROVE  DomainInv'
  <1>1. "client" \in Contexts /\ DOMAIN job = Contexts
    BY DEF Contexts, Scheme!Contexts, SchemeInv
  <1>2. /\ job' = [job EXCEPT !["client"] = [pc |-> "y", i |-> 0, j |-> 0, m |-> {sent + 1}]]
        /\ UNCHANGED <<k, secret, t, full_matrix, y, u, v_poly, decrypt, wire>>
    BY DEF Scheme!StartClient, Scheme!keyVars
  <1>3. job'["client"].pc = "y" /\ Rows' = Rows /\ CallDomains("client")
    BY <1>1, <1>2, Primed DEF DomainInv
  <1>4. CallDomains("client")'
    BY <1>2, <1>3 DEF CallDomains
  <1>5. \A d \in Contexts : d # "client" => job'[d] = job[d]
    BY <1>2
  <1> QED
    BY <1>1, <1>2, <1>3, <1>4, <1>5, CallStepDomains

LEMMA CreateYDomains ==
  ASSUME SchemeInv, DomainInv, NEW c \in Contexts, Scheme!CreateY(c)
  PROVE  DomainInv'
  <1>1. PICK new : new.dom \in Open /\ y' = [y EXCEPT ![c][job[c].i] = new]
    <2>1. y' = [y EXCEPT ![c][job[c].i] = Scheme!TemporarySecret(c, job[c].i)]
      BY DEF Scheme!CreateY
    <2> QED
      BY <2>1, SampleDomains DEF Scheme!TemporarySecret, Scheme!Noise
  <1>2. /\ job[c].pc = "y" /\ UNCHANGED <<k, secret, t, full_matrix, u, v_poly, decrypt, wire>>
        /\ job' = [job EXCEPT ![c] = IF job[c].i + 1 < k THEN [job[c] EXCEPT !.i = job[c].i + 1]
                                     ELSE [job[c] EXCEPT !.pc = "u", !.i = 0, !.j = 0]]
    BY DEF Scheme!CreateY, Scheme!keyVars, Scheme!channelVars, SchemeInv
  <1>3. /\ CallDomains(c) /\ CallStage(c) /\ ContextClean(c) /\ DOMAIN job = Contexts /\ DOMAIN y = Contexts
        /\ Rows' = Rows
    BY <1>2, Primed DEF DomainInv, SchemeInv, CallStage
  <1>4. DOMAIN y[c] = Rows /\ DOMAIN job[c] = {"pc", "i", "j", "m"}
    BY <1>3 DEF CallStage
  <1>5. \A row \in Rows : y'[c][row].dom \in Open
    BY <1>1, <1>3, <1>4 DEF CallDomains
  <1>6. job'[c].pc = "y" \/ (job'[c].pc = "u" /\ job'[c].i = 0)
    BY <1>2, <1>3, <1>4
  <1>7. \A row \in Rows : ~(row < 0)
    BY DEF SchemeInv, KeyStage, Rows, Scheme!Rows
  <1>8. CallDomains(c)'
    <2>1. \A row \in Rows : u'[c][row].dom \in Open
      BY <1>2, <1>3, ZeroDomain DEF ContextClean
    <2> QED
      BY <1>2, <1>3, <1>5, <1>6, <1>7, <2>1 DEF CallDomains
  <1>9. \A d \in Contexts : d # c => job'[d] = job[d] /\ y'[d] = y[d]
    BY <1>1, <1>2
  <1> QED
    BY <1>2, <1>6, <1>8, <1>9, CallStepDomains

LEMMA EntryDomains ==
  ASSUME SchemeInv, DomainInv, NEW c, NEW a \in Rows, NEW b \in Rows
  PROVE  Scheme!Entry(c, a, b).dom \in Open
  <1>1. k \in {2, 3, 4} /\ DOMAIN full_matrix = 0 .. k * k - 1
    BY DEF SchemeInv, KeyStage
  <1>2. a * k + b \in 0 .. k * k - 1
    <2>1. CASE k = 2
      BY <2>1 DEF Rows, Scheme!Rows
    <2>2. CASE k = 3
      BY <2>2 DEF Rows, Scheme!Rows
    <2>3. CASE k = 4
      BY <2>3 DEF Rows, Scheme!Rows
    <2> QED
      BY <1>1, <2>1, <2>2, <2>3
  <1>3. full_matrix[a * k + b].dom \in Open
    BY <1>1, <1>2 DEF DomainInv, KeyDomains
  <1> QED
    BY <1>3, SampleDomains DEF Scheme!Entry, Scheme!MatrixPoly

LEMMA CreateUDomains ==
  ASSUME SchemeInv, DomainInv, NEW c \in Contexts, Scheme!CreateU(c)
  PROVE  DomainInv'
  <1>1. PICK i0, j0 : i0 = job[c].i /\ j0 = job[c].j
    OBVIOUS
  <1>2. job[c].pc = "u" /\ UNCHANGED <<k, secret, t, full_matrix, y, v_poly, decrypt, wire>>
    BY DEF Scheme!CreateU, Scheme!keyVars, Scheme!channelVars
  <1>3. /\ CallDomains(c) /\ CallStage(c) /\ DOMAIN job = Contexts /\ DOMAIN u = Contexts
        /\ Rows' = Rows /\ DOMAIN u[c] = Rows /\ DOMAIN job[c] = {"pc", "i", "j", "m"}
        /\ k \in {2, 3, 4} /\ i0 \in Rows /\ i0 \in 0 .. k - 1 /\ j0 \in 0 .. k
        /\ v_poly[c] = Scheme!Zero
    <2>1. CallStage(c) /\ DOMAIN job = Contexts /\ DOMAIN u = Contexts /\ k \in {2, 3, 4} /\ CallDomains(c)
      BY DEF SchemeInv, KeyStage, DomainInv
    <2>2. Rows' = Rows
      BY <1>2, Primed
    <2> QED
      BY <1>1, <1>2, <2>1, <2>2 DEF CallStage, Rows, Scheme!Rows
  <1>4. u[c][i0].dom \in Open /\ IsPoly(u[c][i0])
    <2>1. ~(i0 < i0)
      BY <1>3
    <2>2. UOpen(c, i0)
      BY <1>1, <1>2, <1>3, <2>1 DEF CallStage
    <2> QED
      BY <1>1, <1>2, <1>3, <2>1, <2>2 DEF CallDomains, UOpen
  <1>5. \A d \in Contexts : d # c => job'[d] = job[d] /\ u'[d] = u[d]
    <2>1. /\ \E new : u' = [u EXCEPT ![c][job[c].i] = new]
          /\ \E new : job' = [job EXCEPT ![c] = new]
      BY DEF Scheme!CreateU
    <2> QED
      BY <2>1
  <1>6. CASE j0 < k
    <2> DEFINE new == Scheme!Add(u[c][i0], Scheme!Multiply(Scheme!Entry(c, i0, j0), y[c][j0]))
    <2>1. u' = [u EXCEPT ![c][i0] = new] /\ job' = [job EXCEPT ![c].j = j0 + 1]
      BY <1>1, <1>3, <1>6 DEF Scheme!CreateU
    <2>2. j0 \in Rows
      BY <1>3, <1>6 DEF Rows, Scheme!Rows
    <2>3. new.dom \in Open
      BY <1>3, <1>4, <2>2, EntryDomains, ProductDomains, SumDomains DEF CallDomains
    <2> HIDE DEF new
    <2>4. /\ u'[c][i0] = new /\ \A row \in Rows : row # i0 => u'[c][row] = u[c][row]
          /\ job'[c].pc = "u" /\ job'[c].i = i0
      BY <1>1, <1>2, <1>3, <2>1
    <2>5. ~(i0 < i0)
      BY <1>3
    <2>6. CallDomains(c)'
      BY <1>1, <1>2, <1>3, <2>3, <2>4, <2>5, OpenIsProper DEF CallDomains
    <2> QED
      BY <1>2, <1>5, <2>4, <2>6, CallStepDomains
  <1>7. CASE ~(j0 < k)
    <2> DEFINE new == Scheme!Add(Scheme!Intt(u[c][i0]), Scheme!Noise(Scheme!r(job[c].m), k + i0, 2))
    <2>1. /\ u' = [u EXCEPT ![c][i0] = new]
          /\ job' = [job EXCEPT ![c] = IF i0 + 1 < k THEN [job[c] EXCEPT !.i = i0 + 1, !.j = 0]
                                       ELSE [job[c] EXCEPT !.pc = "v", !.i = 0]]
      BY <1>1, <1>3, <1>7 DEF Scheme!CreateU
    <2>2. new.dom = "time"
      BY <1>4, TransformDomains, SampleDomains, SumDomains DEF Scheme!Noise
    <2> HIDE DEF new
    <2>3. u'[c][i0] = new /\ \A row \in Rows : row # i0 => u'[c][row] = u[c][row]
      BY <1>3, <2>1
    <2>4. \A row \in Rows : IF row < i0 + 1 THEN u'[c][row].dom = "time" ELSE u'[c][row].dom \in Open
      <3> SUFFICES ASSUME NEW row \in Rows
                   PROVE  IF row < i0 + 1 THEN u'[c][row].dom = "time" ELSE u'[c][row].dom \in Open
        OBVIOUS
      <3>1. CASE row = i0
        BY <1>3, <2>2, <2>3, <3>1
      <3>2. CASE row # i0
        <4>1. (row < i0 + 1) <=> (row < i0)
          BY <1>3, <3>2 DEF Rows, Scheme!Rows
        <4> QED
          BY <1>1, <1>2, <1>3, <2>3, <3>2, <4>1 DEF CallDomains
      <3> QED
        BY <3>1, <3>2
    <2>5. CASE i0 + 1 < k
      <3>1. job'[c].pc = "u" /\ job'[c].i = i0 + 1
        BY <1>2, <1>3, <2>1, <2>5
      <3>2. CallDomains(c)'
        BY <1>2, <1>3, <2>4, <3>1, OpenIsProper DEF CallDomains
      <3> QED
        BY <1>2, <1>5, <3>1, <3>2, CallStepDomains
    <2>6. CASE ~(i0 + 1 < k)
      <3>1. job'[c].pc = "v"
        BY <1>3, <2>1, <2>6
      <3>2. \A row \in Rows : row < i0 + 1
        BY <1>3, <2>6 DEF Rows, Scheme!Rows
      <3>3. CallDomains(c)'
        BY <1>2, <1>3, <2>4, <3>1, <3>2, OpenIsProper, ZeroDomain DEF CallDomains
      <3> QED
        BY <1>2, <1>5, <3>1, <3>3, CallStepDomains
    <2> QED
      BY <2>5, <2>6
  <1> QED
    BY <1>6, <1>7

LEMMA CreateVDomains ==
  ASSUME SchemeInv, DomainInv, NEW c \in Contexts, Scheme!CreateV(c)
  PROVE  DomainInv'
  <1>1. PICK i0 : i0 = job[c].i
    OBVIOUS
  <1>2. job[c].pc = "v" /\ UNCHANGED <<k, secret, t, full_matrix, y, u, decrypt, wire>>
    BY DEF Scheme!CreateV, Scheme!keyVars, Scheme!channelVars
  <1>3. /\ CallDomains(c) /\ CallStage(c) /\ DOMAIN job = Contexts /\ DOMAIN v_poly = Contexts
        /\ Rows' = Rows /\ DOMAIN job[c] = {"pc", "i", "j", "m"}
        /\ k \in {2, 3, 4} /\ i0 \in 0 .. k /\ VOpen(c) /\ v_poly[c].dom \in Open
    <2>1. CallStage(c) /\ DOMAIN job = Contexts /\ DOMAIN v_poly = Contexts /\ k \in {2, 3, 4} /\ CallDomains(c)
      BY DEF SchemeInv, KeyStage, DomainInv
    <2>2. Rows' = Rows
      BY <1>2, Primed
    <2> QED
      BY <1>1, <1>2, <2>1, <2>2 DEF CallStage, CallDomains
  <1>4. \A d \in Contexts : d # c => job'[d] = job[d] /\ v_poly'[d] = v_poly[d]
    <2>1. /\ \E new : v_poly' = [v_poly EXCEPT ![c] = new]
          /\ \E new : job' = [job EXCEPT ![c] = new]
      BY DEF Scheme!CreateV
    <2> QED
      BY <2>1
  <1>5. CASE i0 < k
    <2> DEFINE new == Scheme!Add(v_poly[c], Scheme!Multiply(t[i0], y[c][i0]))
    <2>1. v_poly' = [v_poly EXCEPT ![c] = new] /\ job' = [job EXCEPT ![c].i = i0 + 1]
      BY <1>1, <1>3, <1>5 DEF Scheme!CreateV
    <2>2. i0 \in Rows
      BY <1>3, <1>5 DEF Rows, Scheme!Rows
    <2>3. new.dom \in Open
      BY <1>3, <2>2, ProductDomains, SumDomains DEF CallDomains, DomainInv, KeyDomains
    <2> HIDE DEF new
    <2>4. v_poly'[c] = new /\ job'[c].pc = "v"
      BY <1>2, <1>3, <2>1
    <2>5. CallDomains(c)'
      BY <1>2, <1>3, <2>3, <2>4, OpenIsProper DEF CallDomains
    <2> QED
      BY <1>2, <1>4, <2>4, <2>5, CallStepDomains
  <1>6. CASE ~(i0 < k)
    <2> DEFINE noisy == Scheme!Add(Scheme!Intt(v_poly[c]), Scheme!Noise(Scheme!r(job[c].m), 2 * k, 2))
               new == Scheme!Add(noisy, Scheme!Message(job[c].m))
    <2>1. v_poly' = [v_poly EXCEPT ![c] = new] /\ job' = [job EXCEPT ![c].pc = "done"]
      BY <1>1, <1>3, <1>6 DEF Scheme!CreateV
    <2>2. noisy.dom = "time"
      BY <1>3, TransformDomains, SampleDomains, SumDomains DEF Scheme!Noise, VOpen
    <2>3. new.dom = "time"
      BY <2>2, SampleDomains, SumDomains DEF Scheme!Message
    <2> HIDE DEF new
    <2>4. v_poly'[c] = new /\ job'[c].pc = "done"
      BY <1>2, <1>3, <2>1
    <2>5. CallDomains(c)'
      BY <1>2, <1>3, <2>3, <2>4, OpenIsProper DEF CallDomains
    <2> QED
      BY <1>2, <1>4, <2>4, <2>5, CallStepDomains
  <1> QED
    BY <1>5, <1>6

LEMMA WipeEncapsDomains ==
  ASSUME SchemeInv, NEW c \in Contexts, Scheme!WipeEncaps(c), UNCHANGED <<k, keygen>>
  PROVE  CallDomains(c)'
  <1>1. /\ y' = [y EXCEPT ![c] = [row \in Rows |-> Scheme!Zero]]
        /\ u' = [u EXCEPT ![c] = [row \in Rows |-> Scheme!Zero]]
        /\ v_poly' = [v_poly EXCEPT ![c] = Scheme!Zero]
        /\ job' = [job EXCEPT ![c] = [pc |-> "idle", i |-> 0, j |-> 0, m |-> {}]]
    BY DEF Scheme!WipeEncaps, Rows, Scheme!Rows
  <1>2. DOMAIN job = Contexts /\ DOMAIN y = Contexts /\ DOMAIN u = Contexts /\ DOMAIN v_poly = Contexts
    BY DEF SchemeInv
  <1>3. Rows' = Rows
    BY Primed
  <1>4. /\ \A row \in Rows : y'[c][row] = Scheme!Zero /\ u'[c][row] = Scheme!Zero
        /\ v_poly'[c] = Scheme!Zero /\ job'[c].pc = "idle"
    BY <1>1, <1>2
  <1> QED
    BY <1>3, <1>4, ZeroDomain DEF CallDomains

LEMMA SendDomains ==
  ASSUME SchemeInv, DomainInv, Scheme!Send
  PROVE  DomainInv'
  <1>1. "client" \in Contexts /\ "slot" \in Contexts /\ Contexts' = Contexts
    BY DEF Contexts, Scheme!Contexts
  <1>2. /\ job["client"].pc = "done" /\ Scheme!WipeEncaps("client")
        /\ wire' = <<[u |-> u["client"], v |-> v_poly["client"], m |-> job["client"].m, intact |-> TRUE]>>
        /\ UNCHANGED <<k, keygen, secret, t, full_matrix, decrypt>>
    BY DEF Scheme!Send, Scheme!keyVars
  <1>3. \A d \in Contexts : d # "client" => /\ job'[d] = job[d] /\ y'[d] = y[d]
                                            /\ u'[d] = u[d] /\ v_poly'[d] = v_poly[d]
    BY <1>1, <1>2, WipeEncapsCleans
  <1>4. CallDomains("client") /\ CallDomains("client")' /\ Rows' = Rows
    BY <1>1, <1>2, WipeEncapsDomains, Primed DEF DomainInv
  <1>5. WireDomains'
    BY <1>2, <1>4 DEF WireDomains, CallDomains
  <1>6. KeyDomains' /\ SlotDomains'
    BY <1>1, <1>2, <1>3, KeyDomainsFrame, SlotDomainsFrame DEF DomainInv
  <1>7. CallDomains("slot")'
    BY <1>1, <1>2, <1>3, CallDomainsFrame DEF DomainInv
  <1> QED
    BY <1>1, <1>4, <1>5, <1>6, <1>7 DEF DomainInv, Contexts, Scheme!Contexts

LEMMA DamageDomains ==
  ASSUME SchemeInv, DomainInv, Scheme!Damage
  PROVE  DomainInv'
  <1>1. /\ wire # << >>
        /\ UNCHANGED <<k, secret, t, full_matrix, job, y, u, v_poly, decrypt>>
        /\ wire' = [wire EXCEPT ![1] = [wire[1] EXCEPT
                      !.v = Scheme!Add(wire[1].v, Scheme!Atom(<<"damage">>)), !.intact = FALSE]]
    BY DEF Scheme!Damage, Scheme!keyVars, Scheme!encapsVars
  <1>2. WireDomains /\ Rows' = Rows /\ Contexts' = Contexts
    BY <1>1, Primed DEF DomainInv, Contexts, Scheme!Contexts
  <1>3. Scheme!Add(wire[1].v, Scheme!Atom(<<"damage">>)).dom = "time"
    BY <1>1, <1>2, SampleDomains, SumDomains DEF WireDomains
  <1>4. WireDomains'
    BY <1>1, <1>2, <1>3 DEF WireDomains
  <1>5. KeyDomains' /\ SlotDomains'
    BY <1>1, KeyDomainsFrame, SlotDomainsFrame DEF DomainInv
  <1>6. \A c \in Contexts : CallDomains(c)'
    BY <1>1, CallDomainsFrame DEF DomainInv
  <1> QED
    BY <1>2, <1>4, <1>5, <1>6 DEF DomainInv

LEMMA ReceiveDomains ==
  ASSUME SchemeInv, DomainInv, Scheme!Receive
  PROVE  DomainInv'
  <1>1. "slot" \in Contexts /\ "client" \in Contexts /\ Contexts' = Contexts
    BY DEF Contexts, Scheme!Contexts
  <1>2. /\ wire # << >> /\ job["slot"].pc = "idle" /\ wire' = << >>
        /\ job' = [job EXCEPT !["slot"] = [job["slot"] EXCEPT !.pc = "decrypt", !.i = 0]]
        /\ UNCHANGED <<k, keygen, secret, t, full_matrix, y, u, v_poly>>
        /\ decrypt' = [decrypt EXCEPT
             !.u = [row \in Rows |-> Scheme!Add(wire[1].u[row], Scheme!Rounding(wire[1].m, row))],
             !.v = Scheme!Add(wire[1].v, Scheme!Rounding(wire[1].m, k)), !.ciphertext = wire]
    BY <1>1 DEF Scheme!Receive, Scheme!keyVars, SchemeInv, Rows, Scheme!Rows
  <1>3. /\ SlotStage /\ CallStage("slot") /\ DOMAIN job = Contexts /\ decrypt.poly = Scheme!Zero
        /\ DOMAIN decrypt = {"u", "v", "poly", "m", "ciphertext"}
        /\ DOMAIN job["slot"] = {"pc", "i", "j", "m"} /\ WireDomains /\ SlotDomains /\ Rows' = Rows
    BY <1>1, <1>2, Primed DEF SchemeInv, SlotStage, CallStage, DomainInv
  <1>4. /\ decrypt'.poly = Scheme!Zero /\ DOMAIN decrypt'.u = Rows
        /\ \A row \in Rows : decrypt'.u[row] = Scheme!Add(wire[1].u[row], Scheme!Rounding(wire[1].m, row))
        /\ decrypt'.v = Scheme!Add(wire[1].v, Scheme!Rounding(wire[1].m, k))
    BY <1>2, <1>3
  <1>5. /\ decrypt'.v.dom = "time"
        /\ \A row \in Rows : IsPoly(decrypt'.u[row]) /\ decrypt'.u[row].dom = "time"
    BY <1>2, <1>3, <1>4, SumShape, SumDomains, SampleDomains DEF WireDomains, Scheme!Rounding
  <1>6. SlotDomains'
    BY <1>3, <1>4, <1>5, ZeroDomain, OpenIsProper DEF SlotDomains, Arrived
  <1>7. job'["slot"].pc = "decrypt" /\ job'["client"] = job["client"]
    BY <1>1, <1>2, <1>3
  <1>8. CallDomains("slot")'
    BY <1>1, <1>2, <1>3, <1>7 DEF CallDomains, DomainInv
  <1>9. CallDomains("client")' /\ KeyDomains' /\ WireDomains'
    BY <1>1, <1>2, <1>7, CallDomainsFrame, KeyDomainsFrame DEF DomainInv, WireDomains
  <1> QED
    BY <1>1, <1>6, <1>8, <1>9 DEF DomainInv, Contexts, Scheme!Contexts

LEMMA DecryptDomains ==
  ASSUME SchemeInv, DomainInv, Scheme!Decrypt
  PROVE  DomainInv'
  <1>1. "slot" \in Contexts /\ "client" \in Contexts /\ Contexts' = Contexts
    BY DEF Contexts, Scheme!Contexts
  <1>2. PICK i0 : i0 = job["slot"].i
    OBVIOUS
  <1>3. /\ job["slot"].pc = "decrypt"
        /\ UNCHANGED <<k, keygen, secret, t, full_matrix, y, u, v_poly, wire>>
    BY DEF Scheme!Decrypt, Scheme!keyVars
  <1>4. /\ SlotDomains /\ KeyDomains /\ CallDomains("slot") /\ ContextClean("slot") /\ DOMAIN job = Contexts
        /\ DOMAIN job["slot"] = {"pc", "i", "j", "m"} /\ Rows' = Rows
        /\ i0 \in 0 .. k /\ k \in {2, 3, 4} /\ DOMAIN decrypt = {"u", "v", "poly", "m", "ciphertext"}
    <2>1. CallStage("slot") /\ SlotStage /\ k \in {2, 3, 4} /\ DOMAIN job = Contexts
      BY <1>1 DEF SchemeInv, KeyStage
    <2>2. Rows' = Rows
      BY <1>3, Primed
    <2> QED
      BY <1>1, <1>2, <1>3, <2>1, <2>2 DEF CallStage, SlotStage, DomainInv
  <1>5. IsPoly(decrypt.poly) /\ decrypt.poly.dom \in Open /\ decrypt.v.dom = "time"
    BY <1>3, <1>4 DEF SlotDomains
  <1>6. job'["client"] = job["client"]
    <2>1. \E new : job' = [job EXCEPT !["slot"] = new]
      BY DEF Scheme!Decrypt
    <2> QED
      BY <2>1
  <1>7. CallDomains("client")' /\ KeyDomains' /\ WireDomains'
    BY <1>1, <1>3, <1>6, CallDomainsFrame, KeyDomainsFrame, WireDomainsFrame DEF DomainInv
  <1>8. ASSUME job'["slot"].pc \in {"decrypt", "y"}
        PROVE  CallDomains("slot")'
    BY <1>3, <1>4, <1>8 DEF CallDomains
  <1>9. CASE i0 < k
    <2> DEFINE product == Scheme!Multiply(Scheme!Ntt(decrypt.u[i0]), secret[i0])
               sum == Scheme!Add(decrypt.poly, product)
    <2>1. /\ decrypt' = [decrypt EXCEPT !.u[i0] = product, !.poly = sum]
          /\ job' = [job EXCEPT !["slot"].i = i0 + 1]
      BY <1>2, <1>4, <1>9 DEF Scheme!Decrypt
    <2>2. i0 \in Rows /\ ~(i0 < i0)
      BY <1>4, <1>9 DEF Rows, Scheme!Rows
    <2>3. IsPoly(decrypt.u[i0]) /\ decrypt.u[i0].dom = "time"
      BY <1>2, <1>3, <1>4, <2>2 DEF SlotDomains, Arrived
    <2>4. product.dom \in Open
      BY <1>4, <2>2, <2>3, TransformDomains, ProductDomains DEF KeyDomains
    <2> HIDE DEF product
    <2>5. sum.dom \in Open /\ IsPoly(sum)
      BY <1>5, <2>4, SumDomains, SumShape
    <2> HIDE DEF sum
    <2>6. /\ decrypt'.poly = sum /\ decrypt'.v = decrypt.v /\ DOMAIN decrypt'.u = Rows
          /\ decrypt'.u[i0] = product
          /\ \A row \in Rows : row # i0 => decrypt'.u[row] = decrypt.u[row]
      BY <1>4, <2>1, <2>2 DEF SlotDomains
    <2>7. job'["slot"].pc = "decrypt" /\ job'["slot"].i = i0 + 1
      BY <1>1, <1>3, <1>4, <2>1
    <2>8. \A row \in Rows : row < i0 + 1 \/ (IsPoly(decrypt'.u[row]) /\ decrypt'.u[row].dom = "time")
      <3> SUFFICES ASSUME NEW row \in Rows, ~(row < i0 + 1)
                   PROVE  IsPoly(decrypt'.u[row]) /\ decrypt'.u[row].dom = "time"
        OBVIOUS
      <3>1. row # i0 /\ ~(row < i0)
        BY <1>4 DEF Rows, Scheme!Rows
      <3> QED
        BY <1>2, <1>3, <1>4, <2>6, <3>1 DEF SlotDomains, Arrived
    <2>9. \A row \in Rows : decrypt'.u[row].dom \in Proper
      BY <1>4, <2>4, <2>6, OpenIsProper DEF SlotDomains
    <2>10. SlotDomains'
      BY <1>4, <1>5, <2>5, <2>6, <2>7, <2>8, <2>9, OpenIsProper DEF SlotDomains, Arrived
    <2> QED
      BY <1>1, <1>7, <1>8, <2>7, <2>10 DEF DomainInv, Contexts, Scheme!Contexts
  <1>10. CASE ~(i0 < k)
    <2> DEFINE rest == Scheme!Sub(decrypt.v, Scheme!Intt(decrypt.poly))
    <2>1. PICK msg : /\ decrypt' = [decrypt EXCEPT !.poly = rest, !.m = msg]
                     /\ job' = [job EXCEPT !["slot"] = [pc |-> "y", i |-> 0, j |-> 0, m |-> msg]]
      BY <1>2, <1>10 DEF Scheme!Decrypt
    <2>2. rest.dom = "time"
      BY <1>5, TransformDomains, SumDomains
    <2> HIDE DEF rest
    <2>3. decrypt'.poly = rest /\ decrypt'.u = decrypt.u
      BY <1>4, <2>1
    <2>4. job'["slot"] = [pc |-> "y", i |-> 0, j |-> 0, m |-> msg]
      BY <1>1, <1>4, <2>1
    <2>5. job'["slot"].pc = "y"
      BY <2>4
    <2>6. SlotDomains'
      BY <1>4, <2>2, <2>3, <2>5, OpenIsProper DEF SlotDomains
    <2> QED
      BY <1>1, <1>7, <1>8, <2>5, <2>6 DEF DomainInv, Contexts, Scheme!Contexts
  <1> QED
    BY <1>9, <1>10

LEMMA SelectDomains ==
  ASSUME SchemeInv, DomainInv, Scheme!Select
  PROVE  DomainInv'
  <1>1. "slot" \in Contexts /\ "client" \in Contexts /\ Contexts' = Contexts
    BY DEF Contexts, Scheme!Contexts
  <1>2. /\ Scheme!WipeEncaps("slot") /\ UNCHANGED <<k, keygen, secret, t, full_matrix, wire>>
        /\ decrypt' = [Scheme!DecryptWiped EXCEPT !.ciphertext = << >>]
    BY DEF Scheme!Select, Scheme!keyVars
  <1>3. /\ CallDomains("slot")' /\ job'["slot"].pc = "idle" /\ Rows' = Rows
        /\ \A d \in Contexts : d # "slot" => /\ job'[d] = job[d] /\ y'[d] = y[d]
                                             /\ u'[d] = u[d] /\ v_poly'[d] = v_poly[d]
    BY <1>1, <1>2, WipeEncapsCleans, WipeEncapsDomains, Primed
  <1>4. DOMAIN decrypt = {"u", "v", "poly", "m", "ciphertext"}
    BY DEF SchemeInv, SlotStage
  <1>5. decrypt'.poly = Scheme!Zero /\ decrypt'.u = [row \in Rows |-> Scheme!Zero]
    BY <1>2, <1>4 DEF Scheme!DecryptWiped, Rows, Scheme!Rows
  <1>6. SlotDomains'
    BY <1>3, <1>5, ZeroDomain DEF SlotDomains
  <1>7. CallDomains("client")' /\ KeyDomains' /\ WireDomains'
    BY <1>1, <1>2, <1>3, CallDomainsFrame, KeyDomainsFrame, WireDomainsFrame DEF DomainInv
  <1> QED
    BY <1>1, <1>3, <1>6, <1>7 DEF DomainInv, Contexts, Scheme!Contexts

LEMMA DomainsStart ==
  ASSUME Scheme!Init
  PROVE  DomainInv
  <1>1. /\ secret = [row \in Rows |-> Scheme!Zero] /\ t = [row \in Rows |-> Scheme!Zero]
        /\ full_matrix = [e \in 0 .. k * k - 1 |-> Scheme!Zero]
        /\ job = [c \in Contexts |-> [pc |-> "idle", i |-> 0, j |-> 0, m |-> {}]]
        /\ y = [c \in Contexts |-> [row \in Rows |-> Scheme!Zero]]
        /\ u = [c \in Contexts |-> [row \in Rows |-> Scheme!Zero]]
        /\ v_poly = [c \in Contexts |-> Scheme!Zero]
        /\ wire = << >> /\ decrypt.u = [row \in Rows |-> Scheme!Zero] /\ decrypt.poly = Scheme!Zero
    BY DEF Scheme!Init, Rows, Contexts, Scheme!Rows
  <1>2. KeyDomains /\ WireDomains
    BY <1>1, ZeroDomain DEF KeyDomains, WireDomains
  <1>3. "slot" \in Contexts
    BY DEF Contexts, Scheme!Contexts
  <1>4. SlotDomains
    BY <1>1, <1>3, ZeroDomain DEF SlotDomains
  <1>5. \A c \in Contexts : CallDomains(c)
    BY <1>1, ZeroDomain DEF CallDomains
  <1> QED
    BY <1>2, <1>4, <1>5 DEF DomainInv

LEMMA DomainsStep ==
  ASSUME SchemeInv, DomainInv, Scheme!Next
  PROVE  DomainInv'
  <1>1. Scheme!CreateSecret \/ Scheme!CreatePublic \/ Scheme!FillMatrix => DomainInv'
    BY CreateSecretDomains, CreatePublicDomains, FillMatrixDomains
  <1>2. Scheme!StartClient \/ Scheme!Send \/ Scheme!Damage => DomainInv'
    BY StartClientDomains, SendDomains, DamageDomains
  <1>3. Scheme!Receive \/ Scheme!Decrypt \/ Scheme!Select => DomainInv'
    BY ReceiveDomains, DecryptDomains, SelectDomains
  <1>4. ASSUME NEW c \in Contexts, Scheme!CreateY(c) \/ Scheme!CreateU(c) \/ Scheme!CreateV(c)
        PROVE  DomainInv'
    BY <1>4, CreateYDomains, CreateUDomains, CreateVDomains
  <1> QED
    BY <1>1, <1>2, <1>3, <1>4 DEF Scheme!Next, Contexts

LEMMA DomainsFrame ==
  ASSUME SchemeInv, DomainInv, UNCHANGED schemeVars
  PROVE  DomainInv'
  <1>1. UNCHANGED <<k, secret, t, full_matrix, job, y, u, v_poly, decrypt, wire>>
    BY DEF schemeVars
  <1>2. KeyDomains'
    BY <1>1, KeyDomainsFrame DEF DomainInv
  <1> QED
    BY <1>1, <1>2, KeyGenerationDomains

\* Buffers do not say whether they hold coefficients or their transform. No step
\* of key generation, encapsulation and decapsulation combines the two, the key,
\* y and the matrix stay in the transform's domain, and what becomes a ciphertext
\* has left it, for any number of messages and of changed ciphertexts
\* (ml_kem_create_keys.c, ml_kem_encaps.c, ml_kem_decrypt.c).
THEOREM DomainsAgree == PrimitivesSpec => [](part = "scheme" => Scheme!TypeOK)
  <1> DEFINE Kept == part = "scheme" => SchemeInv /\ DomainInv
  <1>1. PrimitivesInit => Kept
    BY SchemeStarts, DomainsStart DEF PrimitivesInit
  <1>2. Kept /\ [PrimitivesNext]_primitiveVars => Kept'
    <2> SUFFICES ASSUME Kept, [PrimitivesNext]_primitiveVars
                 PROVE  Kept'
      OBVIOUS
    <2>1. CASE RunScheme(Scheme!Next)
      BY <2>1, SchemeStep, DomainsStep DEF RunScheme
    <2>2. CASE RunResidues(Next) \/ RunNtt(Transforming!Next) \/ RunCbd(Noise!Next)
               \/ RunKeccak(Permutation!Next)
      BY <2>2 DEF RunResidues, RunNtt, RunCbd, RunKeccak
    <2>3. CASE UNCHANGED primitiveVars
      BY <2>3, SchemeFrame, DomainsFrame DEF primitiveVars
    <2> QED
      BY <2>1, <2>2, <2>3 DEF PrimitivesNext
  <1>3. Kept => (part = "scheme" => Scheme!TypeOK)
    <2> SUFFICES ASSUME SchemeInv, DomainInv
                 PROVE  Scheme!TypeOK
      OBVIOUS
    <2>1. \A row \in Rows : {secret[row].dom, t[row].dom} \subseteq {"zero", "ntt"}
      BY DEF DomainInv, KeyDomains, Open
    <2>2. ASSUME NEW c \in Contexts
          PROVE  /\ job[c].pc \in {"idle", "decrypt", "y", "u", "v", "done"}
                 /\ \A row \in Rows : y[c][row].dom \in {"zero", "ntt"} /\ u[c][row].dom # "mixed"
                 /\ v_poly[c].dom # "mixed"
                 /\ job[c].pc = "done" => v_poly[c].dom = "time" /\ \A row \in Rows : u[c][row].dom = "time"
      BY DEF SchemeInv, CallStage, DomainInv, CallDomains, Open, Proper
    <2>3. decrypt.poly.dom # "mixed" /\ \A row \in Rows : decrypt.u[row].dom # "mixed"
      BY DEF DomainInv, SlotDomains, Proper
    <2> QED
      BY <2>1, <2>2, <2>3 DEF Scheme!TypeOK, SchemeInv, KeyStage, DomainInv, KeyDomains, Open, Rows, Contexts
  <1> QED
    BY <1>1, <1>2, <1>3, PTL DEF PrimitivesSpec
-----------------------------------------------------------------------------
(* The scheme: polynomials as sums of products of distinct atoms *)

Product(X) == Scheme!SetToBag(X)

\* g is the sum of the products of the sets of atoms in F, each taken once.
Sums(g, F) ==
  g = [dom |-> g.dom, terms |-> [w \in {Product(X) : X \in F} |-> 1]]

Fresh(a, F) == \A X \in F : a \notin X

LEMMA ProductAtoms ==
  ASSUME NEW X
  PROVE  DOMAIN Product(X) = X /\ \A Y : Product(X) = Product(Y) => X = Y
  <1>1. \A Y : DOMAIN Product(Y) = Y
    BY DEF Product, Scheme!SetToBag
  <1> QED
    BY <1>1

LEMMA SumsIsPoly ==
  ASSUME NEW g, NEW F, Sums(g, F)
  PROVE  IsPoly(g) /\ g.terms = [w \in {Product(X) : X \in F} |-> 1]
  <1>1. PICK terms : terms = [w \in {Product(X) : X \in F} |-> 1]
    OBVIOUS
  <1>2. g = [dom |-> g.dom, terms |-> terms]
    BY <1>1 DEF Sums
  <1> QED
    BY <1>1, <1>2 DEF IsPoly

\* What g has to be, for a g that is made as a record.
LEMMA SumsMade ==
  ASSUME NEW dom, NEW terms, NEW F, terms = [w \in {Product(X) : X \in F} |-> 1]
  PROVE  Sums([dom |-> dom, terms |-> terms], F)
  BY DEF Sums

LEMMA SumsAt ==
  ASSUME NEW g, NEW F, Sums(g, F), NEW X
  PROVE  /\ Product(X) \in Monomials(g) <=> X \in F
         /\ Scheme!Coefficient(g, Product(X)) = IF X \in F THEN 1 ELSE 0
         /\ Monomials(g) = {Product(Y) : Y \in F}
  <1>1. Monomials(g) = {Product(Y) : Y \in F} /\ \A w \in Monomials(g) : g.terms[w] = 1
    <2> DEFINE both == {Product(Y) : Y \in F}
    <2>1. g.terms = [w \in both |-> 1]
      BY SumsIsPoly
    <2> HIDE DEF both
    <2>2. Monomials(g) = both /\ \A w \in Monomials(g) : g.terms[w] = 1
      BY <2>1 DEF Monomials
    <2> QED
      BY <2>2 DEF both
  <1>2. Product(X) \in Monomials(g) <=> X \in F
    BY <1>1, ProductAtoms
  <1> QED
    BY <1>1, <1>2 DEF Scheme!Coefficient, Monomials

LEMMA SumsZero == Sums(Scheme!Zero, {})
  <1>1. << >> = [w \in {Product(X) : X \in {}} |-> 1]
    OBVIOUS
  <1> QED
    BY <1>1, SumsMade DEF Scheme!Zero

LEMMA SumsSample ==
  ASSUME NEW a
  PROVE  Sums(Scheme!Atom(a), {{a}}) /\ Sums(Scheme!SampledInNtt(a), {{a}})
  <1>1. {Product(X) : X \in {{a}}} = {Scheme!SetToBag({a})}
    BY DEF Product
  <1>2. \A dom : Sums([dom |-> dom, terms |-> [w \in {Scheme!SetToBag({a})} |-> 1]], {{a}})
    BY <1>1, SumsMade
  <1>3. Scheme!SampledInNtt(a) = [dom |-> "ntt", terms |-> [w \in {Scheme!SetToBag({a})} |-> 1]]
    BY DEF Scheme!Atom, Scheme!SampledInNtt
  <1> QED
    BY <1>2, <1>3 DEF Scheme!Atom

LEMMA SumsTransform ==
  ASSUME NEW g, NEW F, Sums(g, F)
  PROVE  Sums(Scheme!Ntt(g), F) /\ Sums(Scheme!Intt(g), F)
  <1>1. PICK terms : terms = [w \in {Product(X) : X \in F} |-> 1]
    OBVIOUS
  <1>2. g = [dom |-> g.dom, terms |-> terms]
    BY <1>1 DEF Sums
  <1>3. \A e : [g EXCEPT !.dom = e] = [dom |-> e, terms |-> terms]
    BY <1>2
  <1>4. PICK e : Scheme!Ntt(g) = [g EXCEPT !.dom = e]
    BY DEF Scheme!Ntt
  <1>5. PICK d : Scheme!Intt(g) = [g EXCEPT !.dom = d]
    BY DEF Scheme!Intt
  <1>6. /\ Scheme!Ntt(g) = [dom |-> e, terms |-> terms]
        /\ Scheme!Intt(g) = [dom |-> d, terms |-> terms]
    BY <1>3, <1>4, <1>5
  <1> QED
    BY <1>1, <1>6, SumsMade

LEMMA SumsEqual ==
  ASSUME NEW g, NEW h, NEW F, Sums(g, F), Sums(h, F), g.dom = h.dom
  PROVE  g = h
  BY DEF Sums

LEMMA SumsAdd ==
  ASSUME NEW g, NEW h, NEW F, NEW G, Sums(g, F), Sums(h, G), F \cap G = {}
  PROVE  Sums(Scheme!Add(g, h), F \cup G)
  <1> DEFINE value(e) == Scheme!Coefficient(g, e) + 1 * Scheme!Coefficient(h, e)
             left == {e \in Monomials(g) \cup Monomials(h) : value(e) # 0}
             both == {Product(X) : X \in F \cup G}
  <1>1. Monomials(g) \cup Monomials(h) = both
    BY SumsAt
  <1>2. \A e \in both : value(e) = 1
    <2> SUFFICES ASSUME NEW X \in F \cup G
                 PROVE  value(Product(X)) = 1
      OBVIOUS
    <2> QED
      BY SumsAt
  <1>3. Scheme!Add(g, h) = [dom |-> Scheme!SumDomain(g, h), terms |-> [e \in left |-> value(e)]]
    BY DEF Scheme!Add, Scheme!Combine, Monomials
  <1> HIDE DEF value
  <1>4. left = both
    BY <1>1, <1>2
  <1> HIDE DEF left, both
  <1>5. [e \in left |-> value(e)] = [e \in both |-> 1]
    BY <1>2, <1>4
  <1> QED
    BY <1>3, <1>5, SumsMade DEF both
LEMMA JoinAtom ==
  ASSUME NEW X, NEW a, a \notin X
  PROVE  Scheme!(+)(Product(X), Product({a})) = Product(X \cup {a})
  <1>1. Product(X) = [e \in X |-> 1] /\ Product({a}) = [e \in {a} |-> 1] /\ Product(X \cup {a}) = [e \in X \cup {a} |-> 1]
    BY DEF Product, Scheme!SetToBag
  <1>2. Scheme!(+)(Product(X), Product({a})) =
          [e \in X \cup {a} |-> (IF e \in X THEN Product(X)[e] ELSE 0) + (IF e \in {a} THEN Product({a})[e] ELSE 0)]
    BY ProductAtoms DEF Scheme!(+)
  <1>3. \A e \in X \cup {a} : (IF e \in X THEN Product(X)[e] ELSE 0) + (IF e \in {a} THEN Product({a})[e] ELSE 0) = 1
    BY <1>1
  <1> QED
    BY <1>1, <1>2, <1>3

\* The fold that Multiply sums with, over the one pair of a fibre.
LEMMA SumOfOne ==
  ASSUME NEW p, NEW g1, NEW h1, NEW total,
         total = LET iter[s1 \in SUBSET {p}] ==
                   IF s1 = {} THEN 0
                   ELSE LET x == CHOOSE x \in s1 : TRUE
                        IN  g1[x[1]] * h1[x[2]] + iter[s1 \ {x}]
                 IN  iter[{p}],
         g1[p[1]] = 1, h1[p[2]] = 1
  PROVE  total = 1
  <1> DEFINE Rec(h) == h = [s1 \in SUBSET {p} |-> IF s1 = {} THEN 0
                   ELSE LET x == CHOOSE x \in s1 : TRUE
                        IN  g1[x[1]] * h1[x[2]] + h[s1 \ {x}]]
  <1> DEFINE it == CHOOSE h : Rec(h)
  <1> DEFINE g == [s1 \in SUBSET {p} |-> IF s1 = {} THEN 0 ELSE 1]
  <1>1. total = it[{p}]
    OBVIOUS
  <1>2. SUBSET {p} = {{}, {p}}
    OBVIOUS
  <1>3. Rec(g)
    <2>1. (CHOOSE x \in {p} : TRUE) = p
      OBVIOUS
    <2>2. {p} \ {p} = {}
      OBVIOUS
    <2> QED BY <1>2, <2>1, <2>2
  <1>4. Rec(it)
    BY <1>3
  <1> HIDE DEF it, g
  <1>5. it[{}] = 0
    BY <1>4
  <1>6. it[{p}] = g1[p[1]] * h1[p[2]] + it[{}]
    BY <1>4
  <1> QED
    BY <1>1, <1>5, <1>6

\* The products in F, each with one more atom.
Times(F, a) == {X \cup {a} : X \in F}

LEMMA SumsMultiply ==
  ASSUME NEW g, NEW h, NEW F, NEW a, Sums(g, F), Sums(h, {{a}}), Fresh(a, F)
  PROVE  Sums(Scheme!Multiply(g, h), Times(F, a))
  <1> DEFINE one == Product({a})
             both == {Product(Y) : Y \in {X \cup {a} : X \in F}}
             pairs == (DOMAIN g.terms) \X (DOMAIN h.terms)
             value(e) == Scheme!MapThenSumSet(LAMBDA p : g.terms[p[1]] * h.terms[p[2]],
                                              {p \in pairs : Scheme!(+)(p[1], p[2]) = e})
             all == {Scheme!(+)(p[1], p[2]) : p \in pairs}
  <1>1. PICK dom : Scheme!Multiply(g, h) = [dom |-> dom, terms |-> [e \in all |-> value(e)]]
    BY DEF Scheme!Multiply
  <1>2. pairs = {Product(X) : X \in F} \X {one}
    <2>1. Monomials(g) = {Product(X) : X \in F} /\ Monomials(h) = {Product(X) : X \in {{a}}}
      BY SumsAt
    <2>2. {Product(X) : X \in {{a}}} = {one}
      OBVIOUS
    <2> QED
      BY <2>1, <2>2 DEF Monomials
  <1>3. \A X \in F : Scheme!(+)(Product(X), one) = Product(X \cup {a})
    BY JoinAtom DEF Fresh
  <1>4. all = both
    <2> HIDE DEF one, pairs
    <2>1. ASSUME NEW p \in pairs
          PROVE  Scheme!(+)(p[1], p[2]) \in both
      BY <1>2, <1>3
    <2>2. ASSUME NEW X \in F
          PROVE  Product(X \cup {a}) \in all
      <3>1. <<Product(X), one>> \in pairs
        BY <1>2
      <3> QED
        BY <1>3, <3>1
    <2> QED
      BY <2>1, <2>2
  <1>5. ASSUME NEW X \in F
        PROVE  value(Product(X \cup {a})) = 1
    <2> DEFINE p == <<Product(X), one>>
    <2>1. {q \in pairs : Scheme!(+)(q[1], q[2]) = Product(X \cup {a})} = {p}
      <3>1. \A Y \in F : Y \cup {a} = X \cup {a} => Y = X
        <4> SUFFICES ASSUME NEW Y \in F, Y \cup {a} = X \cup {a}
                     PROVE  Y = X
          OBVIOUS
        <4>1. a \notin X /\ a \notin Y
          BY DEF Fresh
        <4>2. \A z : z \in Y <=> z \in X
          BY <4>1
        <4> QED
          BY <4>2
      <3>2. p \in pairs /\ Scheme!(+)(p[1], p[2]) = Product(X \cup {a})
        BY <1>2, <1>3
      <3>3. ASSUME NEW q \in pairs, Scheme!(+)(q[1], q[2]) = Product(X \cup {a})
            PROVE  q = p
        <4> HIDE DEF pairs, one
        <4>1. PICK Y \in F : q = <<Product(Y), one>>
          BY <1>2
        <4>2. Product(Y \cup {a}) = Product(X \cup {a})
          BY <1>3, <3>3, <4>1
        <4>3. Y = X
          BY <3>1, <4>2, ProductAtoms
        <4> QED
          BY <4>1, <4>3
      <3> HIDE DEF p, pairs
      <3> QED
        BY <3>2, <3>3
    <2>2. g.terms[p[1]] = 1 /\ h.terms[p[2]] = 1
      BY SumsAt DEF Scheme!Coefficient, Monomials
    <2> DEFINE e == [q \in {p} |-> g.terms[q[1]] * h.terms[q[2]]]
    <2>3. e[p] = 1
      BY <2>2
    <2>4. value(Product(X \cup {a})) = LET iter[s1 \in SUBSET {p}] ==
                   IF s1 = {} THEN 0
                   ELSE LET x == CHOOSE x \in s1 : TRUE
                        IN  g.terms[x[1]] * h.terms[x[2]] + iter[s1 \ {x}]
                 IN  iter[{p}]
      BY <2>1 DEF Scheme!MapThenSumSet, Scheme!MapThenFoldSet
    <2> HIDE DEF value
    <2> QED
      BY <2>2, <2>4, SumOfOne
  <1> HIDE DEF value, all, both
  <1>6. [e \in all |-> value(e)] = [e \in both |-> 1]
    BY <1>4, <1>5 DEF both
  <1> QED
    BY <1>1, <1>6, SumsMade DEF both, Times

LEMMA SumsSub ==
  ASSUME NEW g, NEW h, NEW F, NEW G, Sums(g, F), Sums(h, G)
  PROVE  /\ \A X \in F \ G : Scheme!Coefficient(Scheme!Sub(g, h), Product(X)) = 1
         /\ \A w \in Monomials(Scheme!Sub(g, h)) :
              \E X \in (F \ G) \cup (G \ F) : w = Product(X)
  <1> DEFINE value(e) == Scheme!Coefficient(g, e) + (-1) * Scheme!Coefficient(h, e)
             left == {e \in Monomials(g) \cup Monomials(h) : value(e) # 0}
  <1>1. Scheme!Sub(g, h).terms = [e \in left |-> value(e)]
    BY DEF Scheme!Sub, Scheme!Combine, Monomials
  <1>2. Monomials(g) \cup Monomials(h) = {Product(X) : X \in F \cup G}
    BY SumsAt
  <1>3. \A X \in F \cup G :
          value(Product(X)) = IF X \in F \cap G THEN 0 ELSE IF X \in F THEN 1 ELSE -1
    <2> SUFFICES ASSUME NEW X \in F \cup G
                 PROVE  value(Product(X)) = IF X \in F \cap G THEN 0 ELSE IF X \in F THEN 1 ELSE -1
      OBVIOUS
    <2>1. /\ Scheme!Coefficient(g, Product(X)) = IF X \in F THEN 1 ELSE 0
          /\ Scheme!Coefficient(h, Product(X)) = IF X \in G THEN 1 ELSE 0
      BY SumsAt
    <2> QED
      BY <2>1
  <1> HIDE DEF value
  <1>4. ASSUME NEW X \in F \ G
        PROVE  Scheme!Coefficient(Scheme!Sub(g, h), Product(X)) = 1
    <2>1. Product(X) \in left /\ value(Product(X)) = 1
      BY <1>2, <1>3
    <2> HIDE DEF left
    <2> QED
      BY <1>1, <2>1 DEF Scheme!Coefficient
  <1>5. ASSUME NEW w \in Monomials(Scheme!Sub(g, h))
        PROVE  \E X \in (F \ G) \cup (G \ F) : w = Product(X)
    <2>1. w \in left
      BY <1>1 DEF Monomials
    <2>2. PICK X \in F \cup G : w = Product(X) /\ value(Product(X)) # 0
      BY <1>2, <2>1
    <2>3. X \notin F \cap G
      BY <1>3, <2>2
    <2> QED
      BY <2>2, <2>3
  <1> QED
    BY <1>4, <1>5

\* The sum in BagCardinality, over the one or two atoms of a product.
LEMMA PairCounted ==
  ASSUME NEW a, NEW b
  PROVE  Scheme!BagCardinality(Product({a, b})) <= 2
  <1> DEFINE w == Product({a, b})
  <1>1. w = [e \in {a, b} |-> 1] /\ DOMAIN w = {a, b}
    BY DEF Product, Scheme!SetToBag
  <1> DEFINE Rec(h) ==
        h = [X \in SUBSET DOMAIN w |->
               LET elt == CHOOSE e \in X : TRUE IN IF X = {} THEN 0 ELSE w[elt] + h[X \ {elt}]]
      it == CHOOSE h : Rec(h)
      pair == IF a = b THEN 1 ELSE 2
      g == [X \in SUBSET {a, b} |-> IF X = {} THEN 0 ELSE IF X = {a, b} THEN pair ELSE 1]
  <1>2. Scheme!BagCardinality(w) = it[DOMAIN w]
    BY DEF Scheme!BagCardinality
  <1>3. \A X \in SUBSET {a, b} : X = {} \/ X = {a} \/ X = {b} \/ X = {a, b}
    OBVIOUS
  <1>4. \A X \in SUBSET {a, b} : X # {} =>
          (CHOOSE e \in X : TRUE) \in X /\ w[CHOOSE e \in X : TRUE] = 1
    BY <1>1
  <1>5. ASSUME NEW X \in SUBSET {a, b}, X # {}, NEW elt \in X
        PROVE  g[X] = 1 + g[X \ {elt}]
    <2>1. CASE X = {a, b} /\ a # b
      <3>1. X \ {elt} # {} /\ X \ {elt} # {a, b} /\ X \ {elt} \in SUBSET {a, b}
        BY <2>1
      <3> QED
        BY <2>1, <3>1
    <2>2. CASE ~(X = {a, b} /\ a # b)
      <3>1. X = {elt} /\ X \ {elt} = {}
        BY <1>3, <1>5, <2>2
      <3>2. X = {a, b} => a = b
        BY <2>2
      <3> QED
        BY <1>5, <3>1, <3>2
    <2> QED
      BY <2>1, <2>2
  <1>6. Rec(g)
    <2>1. \A X \in SUBSET {a, b} :
            g[X] = LET elt == CHOOSE e \in X : TRUE IN IF X = {} THEN 0 ELSE w[elt] + g[X \ {elt}]
      <3> SUFFICES ASSUME NEW X \in SUBSET {a, b}
                   PROVE  g[X] = LET elt == CHOOSE e \in X : TRUE
                                 IN  IF X = {} THEN 0 ELSE w[elt] + g[X \ {elt}]
        OBVIOUS
      <3> HIDE DEF w
      <3>1. CASE X = {}
        BY <3>1
      <3>2. CASE X # {}
        <4>1. PICK elt \in X : elt = CHOOSE e \in X : TRUE
          BY <1>4, <3>2
        <4>2. w[elt] = 1 /\ g[X] = 1 + g[X \ {elt}]
          BY <1>4, <1>5, <3>2, <4>1
        <4> HIDE DEF g
        <4> QED
          BY <3>2, <4>1, <4>2
      <3> QED
        BY <3>1, <3>2
    <2>2. g = [X \in SUBSET {a, b} |-> g[X]]
      OBVIOUS
    <2> HIDE DEF g, w
    <2> QED
      BY <1>1, <2>1, <2>2
  <1>7. Rec(it)
    BY <1>6
  <1> HIDE DEF it, g, w
  <1>8. it[{}] = 0
    BY <1>1, <1>7
  <1>9. ASSUME NEW X \in SUBSET {a, b}, X # {}
        PROVE  \E elt \in X : it[X] = 1 + it[X \ {elt}]
    BY <1>1, <1>4, <1>7, <1>9
  <1>10. \A c \in {a, b} : it[{c}] = 1
    <2> SUFFICES ASSUME NEW c \in {a, b}
                 PROVE  it[{c}] = 1
      OBVIOUS
    <2>1. it[{c}] = 1 + it[{}]
      <3>1. PICK elt \in {c} : it[{c}] = 1 + it[{c} \ {elt}]
        BY <1>9
      <3>2. {c} \ {elt} = {}
        OBVIOUS
      <3> QED
        BY <3>1, <3>2
    <2> QED
      BY <1>8, <2>1
  <1>11. it[{a, b}] \in {1, 2}
    <2>1. PICK elt \in {a, b} : it[{a, b}] = 1 + it[{a, b} \ {elt}]
      BY <1>9
    <2>2. {a, b} \ {elt} = {} \/ \E c \in {a, b} : {a, b} \ {elt} = {c}
      OBVIOUS
    <2> QED
      BY <1>8, <1>10, <2>1, <2>2
  <1> QED
    BY <1>1, <1>2, <1>11 DEF w

-----------------------------------------------------------------------------
(* The scheme: the products each buffer is the sum of *)

Eta(l) == IF l = 2 THEN 3 ELSE 2

\* The atoms, for the level l and the message msg.
MatrixAtom(a, b) == <<"A", a, b>>
KeyAtom(l, c) == <<"noise", Scheme!sigma, c, Eta(l)>>
RoundingAtom(msg, p) == <<"rounding", msg, p>>
MessageAtom(msg) == <<"m", msg>>
DamageAtom == <<"damage">>

\* The first num terms of row `row` of the public key, and the row with its noise.
PublicSums(l, row, num) == {{MatrixAtom(col, row), KeyAtom(l, col)} : col \in 0 .. num - 1}
PublicFull(l, row) == PublicSums(l, row, l) \cup {{KeyAtom(l, l + row)}}

\* The same of u, and u as it arrives after compression.
USums(l, msg, row, num) ==
  {{MatrixAtom(row, col), CallNoise(msg, col, Eta(l))} : col \in 0 .. num - 1}
UFull(l, msg, row) == USums(l, msg, row, l) \cup {{CallNoise(msg, l + row, 2)}}
URounded(l, msg, row) == UFull(l, msg, row) \cup {{RoundingAtom(msg, row)}}

\* The same of v, of a ciphertext that is intact or not, and as it arrives.
VSums(l, msg, num) ==
  UNION {Times(PublicFull(l, row), CallNoise(msg, row, Eta(l))) : row \in 0 .. num - 1}
VNoisy(l, msg) == VSums(l, msg, l) \cup {{CallNoise(msg, 2 * l, 2)}}
VFull(l, msg) == VNoisy(l, msg) \cup {{MessageAtom(msg)}}
VSent(l, msg, intact) == IF intact THEN VFull(l, msg) ELSE VFull(l, msg) \cup {{DamageAtom}}
VRounded(l, msg, intact) == VSent(l, msg, intact) \cup {{RoundingAtom(msg, l)}}

\* The first num terms of <s, u>.
PolySums(l, msg, num) ==
  UNION {Times(URounded(l, msg, row), KeyAtom(l, row)) : row \in 0 .. num - 1}

LEMMA AtomsAre ==
  /\ \A a, b : MatrixAtom(a, b)[1] = "A" /\ MatrixAtom(a, b)[2] = a /\ MatrixAtom(a, b)[3] = b
  /\ \A l, c : /\ KeyAtom(l, c)[1] = "noise" /\ KeyAtom(l, c)[2] = Scheme!sigma
               /\ KeyAtom(l, c)[3] = c
  /\ \A msg, c, e : /\ CallNoise(msg, c, e)[1] = "noise" /\ CallNoise(msg, c, e)[2] = Scheme!r(msg)
                    /\ CallNoise(msg, c, e)[3] = c
  /\ \A msg, p : RoundingAtom(msg, p)[1] = "rounding" /\ RoundingAtom(msg, p)[3] = p
  /\ \A msg : MessageAtom(msg)[1] = "m" /\ MessageAtom(msg)[2] = msg
  /\ DamageAtom[1] = "damage"
  /\ \A msg : Scheme!r(msg) # Scheme!sigma
  BY DEF MatrixAtom, KeyAtom, CallNoise, RoundingAtom, MessageAtom, DamageAtom,
         Scheme!r, Scheme!sigma

\* What the atoms of each sum are.
LEMMA PublicAtoms ==
  ASSUME NEW l \in Nat, NEW row \in Nat, NEW num \in Nat
  PROVE  /\ \A X \in PublicSums(l, row, num) : \A a \in X :
              \E col \in 0 .. num - 1 : a = MatrixAtom(col, row) \/ a = KeyAtom(l, col)
         /\ \A X \in PublicFull(l, row) : \A a \in X :
              \/ a[1] = "A"
              \/ a[1] = "noise" /\ a[2] = Scheme!sigma
  <1>1. ASSUME NEW d \in Nat, NEW X \in PublicSums(l, row, d), NEW a \in X
        PROVE  \E col \in 0 .. d - 1 : a = MatrixAtom(col, row) \/ a = KeyAtom(l, col)
    BY DEF PublicSums
  <1>2. ASSUME NEW X \in PublicFull(l, row), NEW a \in X
        PROVE  a[1] = "A" \/ (a[1] = "noise" /\ a[2] = Scheme!sigma)
    <2>1. CASE X \in PublicSums(l, row, l)
      <3>1. \E col : a = MatrixAtom(col, row) \/ a = KeyAtom(l, col)
        BY <1>1, <2>1
      <3> QED
        BY <3>1, AtomsAre
    <2>2. CASE X = {KeyAtom(l, l + row)}
      BY <2>2, AtomsAre
    <2> QED
      BY <2>1, <2>2 DEF PublicFull
  <1> QED
    BY <1>1, <1>2

LEMMA UAtoms ==
  ASSUME NEW l \in Nat, NEW msg, NEW row \in Nat, NEW num \in Nat
  PROVE  /\ \A X \in USums(l, msg, row, num) : \A a \in X :
              \E col \in 0 .. num - 1 : a = MatrixAtom(row, col) \/ a = CallNoise(msg, col, Eta(l))
         /\ \A X \in UFull(l, msg, row) : \A a \in X :
              \/ a[1] = "A"
              \/ a[1] = "noise" /\ a[2] = Scheme!r(msg)
  <1>1. ASSUME NEW d \in Nat, NEW X \in USums(l, msg, row, d), NEW a \in X
        PROVE  \E col \in 0 .. d - 1 : a = MatrixAtom(row, col) \/ a = CallNoise(msg, col, Eta(l))
    BY DEF USums
  <1>2. ASSUME NEW X \in UFull(l, msg, row), NEW a \in X
        PROVE  a[1] = "A" \/ (a[1] = "noise" /\ a[2] = Scheme!r(msg))
    <2>1. CASE X \in USums(l, msg, row, l)
      <3>1. \E col : a = MatrixAtom(row, col) \/ a = CallNoise(msg, col, Eta(l))
        BY <1>1, <2>1
      <3> QED
        BY <3>1, AtomsAre
    <2>2. CASE X = {CallNoise(msg, l + row, 2)}
      BY <2>2, AtomsAre
    <2> QED
      BY <2>1, <2>2 DEF UFull
  <1> QED
    BY <1>1, <1>2

LEMMA VAtoms ==
  ASSUME NEW l \in Nat, NEW msg, NEW num \in Nat
  PROVE  \A X \in VSums(l, msg, num) : \A a \in X :
           \/ a[1] = "A"
           \/ a[1] = "noise" /\ a[2] = Scheme!sigma
           \/ \E row \in 0 .. num - 1 : a = CallNoise(msg, row, Eta(l))
  <1> SUFFICES ASSUME NEW X \in VSums(l, msg, num), NEW a \in X
               PROVE  \/ a[1] = "A"
                      \/ a[1] = "noise" /\ a[2] = Scheme!sigma
                      \/ \E row \in 0 .. num - 1 : a = CallNoise(msg, row, Eta(l))
    OBVIOUS
  <1>1. PICK row \in 0 .. num - 1 :
          \E Y \in PublicFull(l, row) : X = Y \cup {CallNoise(msg, row, Eta(l))}
    BY DEF VSums, Times
  <1>2. PICK Y \in PublicFull(l, row) : X = Y \cup {CallNoise(msg, row, Eta(l))}
    BY <1>1
  <1>3. a \in Y => a[1] = "A" \/ (a[1] = "noise" /\ a[2] = Scheme!sigma)
    BY PublicAtoms
  <1> QED
    BY <1>2, <1>3

LEMMA PolyAtoms ==
  ASSUME NEW l \in Nat, NEW msg, NEW num \in Nat
  PROVE  \A X \in PolySums(l, msg, num) : \A a \in X :
           \/ a[1] \in {"A", "rounding"}
           \/ a[1] = "noise" /\ a[2] = Scheme!r(msg)
           \/ \E row \in 0 .. num - 1 : a = KeyAtom(l, row)
  <1> SUFFICES ASSUME NEW X \in PolySums(l, msg, num), NEW a \in X
               PROVE  \/ a[1] \in {"A", "rounding"}
                      \/ a[1] = "noise" /\ a[2] = Scheme!r(msg)
                      \/ \E row \in 0 .. num - 1 : a = KeyAtom(l, row)
    OBVIOUS
  <1>1. PICK row \in 0 .. num - 1 :
          \E Y \in URounded(l, msg, row) : X = Y \cup {KeyAtom(l, row)}
    BY DEF PolySums, Times
  <1>2. PICK Y \in URounded(l, msg, row) : X = Y \cup {KeyAtom(l, row)}
    BY <1>1
  <1>3. ASSUME a \in Y
        PROVE  a[1] \in {"A", "rounding"} \/ (a[1] = "noise" /\ a[2] = Scheme!r(msg))
    <2>1. CASE Y \in UFull(l, msg, row)
      BY <1>3, <2>1, UAtoms
    <2>2. CASE Y = {RoundingAtom(msg, row)}
      BY <1>3, <2>2, AtomsAre
    <2> QED
      BY <2>1, <2>2 DEF URounded
  <1> QED
    BY <1>2, <1>3

\* Products that a shares are none of those that it is fresh in.
LEMMA FreshDisjoint ==
  ASSUME NEW a, NEW F, Fresh(a, F)
  PROVE  /\ F \cap {{a}} = {}
         /\ \A b : F \cap {{b, a}} = {}
         /\ \A G : F \cap Times(G, a) = {}
  BY DEF Fresh, Times

LEMMA NoTermsYet ==
  /\ \A l, row : PublicSums(l, row, 0) = {}
  /\ \A l, msg, row : USums(l, msg, row, 0) = {}
  /\ \A l, msg : VSums(l, msg, 0) = {} /\ PolySums(l, msg, 0) = {}
  <1>1. 0 .. 0 - 1 = {}
    OBVIOUS
  <1> QED
    BY <1>1 DEF PublicSums, USums, VSums, PolySums

\* The next sum, what it adds, and an atom that makes the addition disjoint.
LEMMA PublicNext ==
  ASSUME NEW l \in Nat, NEW row \in Nat, NEW num \in Nat
  PROVE  /\ PublicSums(l, row, num + 1) =
              PublicSums(l, row, num) \cup Times({{MatrixAtom(num, row)}}, KeyAtom(l, num))
         /\ Fresh(KeyAtom(l, num), {{MatrixAtom(num, row)}})
         /\ Fresh(KeyAtom(l, num), PublicSums(l, row, num))
         /\ num <= l + row => Fresh(KeyAtom(l, l + row), PublicSums(l, row, num))
  <1>1. PublicSums(l, row, num + 1) = PublicSums(l, row, num) \cup {{MatrixAtom(num, row), KeyAtom(l, num)}}
    <2>1. 0 .. (num + 1) - 1 = 0 .. num - 1 \cup {num}
      OBVIOUS
    <2> QED
      BY <2>1 DEF PublicSums
  <1>2. Times({{MatrixAtom(num, row)}}, KeyAtom(l, num)) = {{MatrixAtom(num, row), KeyAtom(l, num)}}
    <2>1. {MatrixAtom(num, row)} \cup {KeyAtom(l, num)} = {MatrixAtom(num, row), KeyAtom(l, num)}
      OBVIOUS
    <2> QED
      BY <2>1 DEF Times
  <1>3. ASSUME NEW c \in Nat, c >= num, NEW X \in PublicSums(l, row, num)
        PROVE  KeyAtom(l, c) \notin X
    <2> SUFFICES ASSUME KeyAtom(l, c) \in X
                 PROVE  FALSE
      OBVIOUS
    <2>1. PICK col \in 0 .. num - 1 : KeyAtom(l, c) = MatrixAtom(col, row) \/ KeyAtom(l, c) = KeyAtom(l, col)
      BY PublicAtoms
    <2>2. c = col
      BY <2>1, AtomsAre
    <2> QED
      BY <1>3, <2>2
  <1>4. Fresh(KeyAtom(l, num), {{MatrixAtom(num, row)}})
    BY AtomsAre DEF Fresh
  <1>5. /\ Fresh(KeyAtom(l, num), PublicSums(l, row, num))
        /\ num <= l + row => Fresh(KeyAtom(l, l + row), PublicSums(l, row, num))
    BY <1>3 DEF Fresh
  <1> QED
    BY <1>1, <1>2, <1>4, <1>5

LEMMA UNext ==
  ASSUME NEW l \in Nat, NEW msg, NEW row \in Nat, NEW num \in Nat
  PROVE  /\ USums(l, msg, row, num + 1) =
              USums(l, msg, row, num)
                \cup Times({{MatrixAtom(row, num)}}, CallNoise(msg, num, Eta(l)))
         /\ Fresh(CallNoise(msg, num, Eta(l)), {{MatrixAtom(row, num)}})
         /\ Fresh(CallNoise(msg, num, Eta(l)), USums(l, msg, row, num))
         /\ num <= l + row => Fresh(CallNoise(msg, l + row, 2), USums(l, msg, row, num))
         /\ Fresh(RoundingAtom(msg, row), UFull(l, msg, row))
  <1>1. \A X \in USums(l, msg, row, num) : \A a \in X :
          \E col \in 0 .. num - 1 : a = MatrixAtom(row, col) \/ a = CallNoise(msg, col, Eta(l))
    BY UAtoms
  <1>2. USums(l, msg, row, num + 1) =
          USums(l, msg, row, num) \cup {{MatrixAtom(row, num), CallNoise(msg, num, Eta(l))}}
    <2>1. 0 .. (num + 1) - 1 = 0 .. num - 1 \cup {num}
      OBVIOUS
    <2> QED
      BY <2>1 DEF USums
  <1>3. Times({{MatrixAtom(row, num)}}, CallNoise(msg, num, Eta(l))) =
          {{MatrixAtom(row, num), CallNoise(msg, num, Eta(l))}}
    <2>1. {MatrixAtom(row, num)} \cup {CallNoise(msg, num, Eta(l))} = {MatrixAtom(row, num), CallNoise(msg, num, Eta(l))}
      OBVIOUS
    <2> QED
      BY <2>1 DEF Times
  <1>4. ASSUME NEW c \in Nat, c >= num, NEW e, NEW X \in USums(l, msg, row, num)
        PROVE  CallNoise(msg, c, e) \notin X
    <2> SUFFICES ASSUME CallNoise(msg, c, e) \in X
                 PROVE  FALSE
      OBVIOUS
    <2>1. \A a \in X :
            \E col \in 0 .. num - 1 : a = MatrixAtom(row, col) \/ a = CallNoise(msg, col, Eta(l))
      BY <1>1
    <2>2. PICK col \in 0 .. num - 1 : \/ CallNoise(msg, c, e) = MatrixAtom(row, col)
                                      \/ CallNoise(msg, c, e) = CallNoise(msg, col, Eta(l))
      BY <2>1
    <2>3. c = col
      BY <2>2, AtomsAre
    <2> QED
      BY <1>4, <2>3
  <1>5. Fresh(CallNoise(msg, num, Eta(l)), {{MatrixAtom(row, num)}})
    BY AtomsAre DEF Fresh
  <1>6. Fresh(RoundingAtom(msg, row), UFull(l, msg, row))
    BY UAtoms, AtomsAre DEF Fresh
  <1>7. /\ Fresh(CallNoise(msg, num, Eta(l)), USums(l, msg, row, num))
        /\ num <= l + row => Fresh(CallNoise(msg, l + row, 2), USums(l, msg, row, num))
    BY <1>4 DEF Fresh
  <1> QED
    BY <1>2, <1>3, <1>5, <1>6, <1>7

LEMMA VNext ==
  ASSUME NEW l \in Nat \ {0}, NEW msg, NEW num \in Nat, NEW intact \in BOOLEAN
  PROVE  /\ VSums(l, msg, num + 1) =
              VSums(l, msg, num) \cup Times(PublicFull(l, num), CallNoise(msg, num, Eta(l)))
         /\ Fresh(CallNoise(msg, num, Eta(l)), PublicFull(l, num))
         /\ Fresh(CallNoise(msg, num, Eta(l)), VSums(l, msg, num))
         /\ Fresh(CallNoise(msg, 2 * l, 2), VSums(l, msg, l))
         /\ Fresh(MessageAtom(msg), VNoisy(l, msg))
         /\ Fresh(DamageAtom, VFull(l, msg))
         /\ Fresh(RoundingAtom(msg, l), VSent(l, msg, intact))
  <1>1. VSums(l, msg, num + 1) =
          VSums(l, msg, num) \cup Times(PublicFull(l, num), CallNoise(msg, num, Eta(l)))
    <2>1. 0 .. (num + 1) - 1 = 0 .. num - 1 \cup {num}
      OBVIOUS
    <2> QED
      BY <2>1 DEF VSums
  <1>2. Fresh(CallNoise(msg, num, Eta(l)), PublicFull(l, num))
    BY PublicAtoms, AtomsAre DEF Fresh
  <1>3. ASSUME NEW d \in Nat, NEW c \in Nat, c >= d, NEW e, NEW X \in VSums(l, msg, d)
        PROVE  CallNoise(msg, c, e) \notin X
    <2> SUFFICES ASSUME CallNoise(msg, c, e) \in X
                 PROVE  FALSE
      OBVIOUS
    <2>1. PICK row \in 0 .. d - 1 : CallNoise(msg, c, e) = CallNoise(msg, row, Eta(l))
      BY VAtoms, AtomsAre
    <2>2. c = row
      BY <2>1, AtomsAre
    <2> QED
      BY <1>3, <2>2
  <1>4. \A X \in VNoisy(l, msg) : \A a \in X : a[1] \in {"A", "noise"}
    <2>1. \A X \in VSums(l, msg, l) : \A a \in X : a[1] \in {"A", "noise"}
      BY VAtoms, AtomsAre
    <2> QED
      BY <2>1, AtomsAre DEF VNoisy
  <1>5. \A X \in VFull(l, msg) : \A a \in X : a[1] \in {"A", "noise", "m"}
    BY <1>4, AtomsAre DEF VFull
  <1>6. \A X \in VSent(l, msg, intact) : \A a \in X : a[1] \in {"A", "noise", "m", "damage"}
    BY <1>5, AtomsAre DEF VSent
  <1>7. Fresh(CallNoise(msg, num, Eta(l)), VSums(l, msg, num)) /\ Fresh(CallNoise(msg, 2 * l, 2), VSums(l, msg, l))
    BY <1>3 DEF Fresh
  <1> QED
    BY <1>1, <1>2, <1>4, <1>5, <1>6, <1>7, AtomsAre DEF Fresh

LEMMA PolyNext ==
  ASSUME NEW l \in Nat, NEW msg, NEW num \in Nat
  PROVE  /\ PolySums(l, msg, num + 1) =
              PolySums(l, msg, num) \cup Times(URounded(l, msg, num), KeyAtom(l, num))
         /\ Fresh(KeyAtom(l, num), URounded(l, msg, num))
         /\ Fresh(KeyAtom(l, num), PolySums(l, msg, num))
  <1>1. PolySums(l, msg, num + 1) =
          PolySums(l, msg, num) \cup Times(URounded(l, msg, num), KeyAtom(l, num))
    <2>1. 0 .. (num + 1) - 1 = 0 .. num - 1 \cup {num}
      OBVIOUS
    <2> QED
      BY <2>1 DEF PolySums
  <1>2. Fresh(KeyAtom(l, num), URounded(l, msg, num))
    <2>1. ASSUME NEW X \in URounded(l, msg, num)
          PROVE  KeyAtom(l, num) \notin X
      <3>1. CASE X \in UFull(l, msg, num)
        BY <3>1, UAtoms, AtomsAre
      <3>2. CASE X = {RoundingAtom(msg, num)}
        BY <3>2, AtomsAre
      <3> QED
        BY <3>1, <3>2 DEF URounded
    <2> QED
      BY <2>1 DEF Fresh
  <1>3. ASSUME NEW X \in PolySums(l, msg, num), KeyAtom(l, num) \in X
        PROVE  FALSE
    <2>1. PICK row \in 0 .. num - 1 : KeyAtom(l, num) = KeyAtom(l, row)
      BY <1>3, PolyAtoms, AtomsAre
    <2>2. num = row
      BY <2>1, AtomsAre
    <2> QED
      BY <2>2
  <1> QED
    BY <1>1, <1>2, <1>3 DEF Fresh

-----------------------------------------------------------------------------
(* The scheme: what decryption leaves *)

LEMMA SameCardinality == \A S : Scheme!Cardinality(S) = Cardinality(S)
  BY DEF Scheme!Cardinality, Cardinality

\* DecryptsToMessage, of any polynomial.
Legible(g, msg) ==
  /\ Scheme!Coefficient(g, Product({MessageAtom(msg)})) = 1
  /\ \A w \in Monomials(g) :
       /\ Scheme!BagCardinality(w) <= 2
       /\ \A a \in DOMAIN w : a[1] \in {"m", "noise", "rounding", "damage"}
       /\ Scheme!Cardinality({a \in DOMAIN w : a[1] = "noise" /\ a[2] = Scheme!sigma}) <= 1

\* A product of at most two atoms, at most one of them of the key.
Small(msg, X) ==
  \E a, b : /\ X = {a, b}
            /\ a[1] \in {"m", "noise", "rounding", "damage"}
            /\ b[1] \in {"m", "rounding", "damage"} \/ (b[1] = "noise" /\ b[2] # Scheme!sigma)
            /\ \A e \in X : e[1] = "m" => e = MessageAtom(msg)

LEMMA SmallIsLegible ==
  ASSUME NEW msg, NEW X, Small(msg, X)
  PROVE  /\ Scheme!BagCardinality(Product(X)) <= 2
         /\ \A a \in X : a[1] \in {"m", "noise", "rounding", "damage"}
         /\ Scheme!Cardinality({a \in X : a[1] = "noise" /\ a[2] = Scheme!sigma}) <= 1
  <1>1. PICK a, b : /\ X = {a, b}
                    /\ a[1] \in {"m", "noise", "rounding", "damage"}
                    /\ b[1] \in {"m", "rounding", "damage"} \/ (b[1] = "noise" /\ b[2] # Scheme!sigma)
    BY DEF Small
  <1> DEFINE ofKey == {e \in X : e[1] = "noise" /\ e[2] = Scheme!sigma}
  <1>2. ofKey = {} \/ ofKey = {a}
    <2>1. b \notin ofKey
      BY <1>1
    <2> QED
      BY <1>1, <2>1
  <1>3. Scheme!Cardinality({}) = 0 /\ Scheme!Cardinality({a}) = 1
    BY FS_EmptySet, FS_Singleton, SameCardinality
  <1>4. Scheme!Cardinality(ofKey) <= 1
    BY <1>2, <1>3
  <1>5. Scheme!BagCardinality(Product(X)) <= 2
    BY <1>1, PairCounted
  <1>6. \A e \in X : e[1] \in {"m", "noise", "rounding", "damage"}
    BY <1>1
  <1> QED
    BY <1>4, <1>5, <1>6

\* The same product with a matrix atom is in v and in <s, u>.
LEMMA MatrixCancels ==
  ASSUME NEW l \in Nat \ {0}, NEW msg, NEW intact \in BOOLEAN
  PROVE  /\ \A X \in VRounded(l, msg, intact) \ PolySums(l, msg, l) : Small(msg, X)
         /\ \A X \in PolySums(l, msg, l) \ VRounded(l, msg, intact) : Small(msg, X)
  <1>1. ASSUME NEW row \in 0 .. l - 1, NEW col \in 0 .. l - 1
        PROVE  /\ {MatrixAtom(col, row), KeyAtom(l, col), CallNoise(msg, row, Eta(l))} \in VRounded(l, msg, intact)
               /\ {MatrixAtom(col, row), KeyAtom(l, col), CallNoise(msg, row, Eta(l))} \in PolySums(l, msg, l)
    <2> DEFINE a == MatrixAtom(col, row)
               b == KeyAtom(l, col)
               c == CallNoise(msg, row, Eta(l))
    <2>1. {a, b} \in PublicFull(l, row) /\ {a, c} \in URounded(l, msg, col)
      BY DEF PublicFull, PublicSums, URounded, UFull, USums
    <2> HIDE DEF a
    <2>2. {a, b} \cup {c} \in VSums(l, msg, l)
      BY <2>1 DEF VSums, Times
    <2>3. {a, c} \cup {b} \in PolySums(l, msg, l)
      BY <2>1 DEF PolySums, Times
    <2> HIDE DEF b, c
    <2>4. {a, b} \cup {c} = {a, b, c} /\ {a, c} \cup {b} = {a, b, c}
      OBVIOUS
    <2>5. {a, b, c} \in VSent(l, msg, intact)
      BY <2>2, <2>4 DEF VSent, VFull, VNoisy
    <2> QED
      BY <2>3, <2>4, <2>5 DEF VRounded, a, b, c
  <1>2. ASSUME NEW a, \/ a[1] \in {"rounding", "damage"} \/ a = MessageAtom(msg)
                      \/ a[1] = "noise" /\ a[2] # Scheme!sigma
        PROVE  Small(msg, {a})
    <2>1. {a} = {a, a}
      OBVIOUS
    <2> QED
      BY <1>2, <2>1, AtomsAre DEF Small
  <1>3. ASSUME NEW X \in VRounded(l, msg, intact), X \notin PolySums(l, msg, l)
        PROVE  Small(msg, X)
    <2>1. CASE X \in VSums(l, msg, l)
      <3>1. PICK row \in 0 .. l - 1 :
              \E Y \in PublicFull(l, row) : X = Y \cup {CallNoise(msg, row, Eta(l))}
        BY <2>1 DEF VSums, Times
      <3>2. PICK Y \in PublicFull(l, row) : X = Y \cup {CallNoise(msg, row, Eta(l))}
        BY <3>1
      <3>3. Y \notin PublicSums(l, row, l)
        <4> SUFFICES ASSUME Y \in PublicSums(l, row, l)
                     PROVE  FALSE
          OBVIOUS
        <4>1. PICK col \in 0 .. l - 1 : Y = {MatrixAtom(col, row), KeyAtom(l, col)}
          BY DEF PublicSums
        <4>2. X = {MatrixAtom(col, row), KeyAtom(l, col), CallNoise(msg, row, Eta(l))}
          BY <3>2, <4>1
        <4> QED
          BY <1>1, <1>3, <4>2
      <3>4. Y = {KeyAtom(l, l + row)}
        BY <3>2, <3>3 DEF PublicFull
      <3>5. X = {KeyAtom(l, l + row), CallNoise(msg, row, Eta(l))}
        BY <3>2, <3>4
      <3> QED
        BY <3>5, AtomsAre DEF Small
    <2>2. CASE X \in {{CallNoise(msg, 2 * l, 2)}, {MessageAtom(msg)}, {DamageAtom}, {RoundingAtom(msg, l)}}
      BY <1>2, <2>2, AtomsAre
    <2>3. \/ X \in VSums(l, msg, l)
          \/ X \in {{CallNoise(msg, 2 * l, 2)}, {MessageAtom(msg)}, {DamageAtom}, {RoundingAtom(msg, l)}}
      BY <1>3 DEF VRounded, VSent, VFull, VNoisy
    <2> QED
      BY <2>1, <2>2, <2>3
  <1>4. ASSUME NEW X \in PolySums(l, msg, l), X \notin VRounded(l, msg, intact)
        PROVE  Small(msg, X)
    <2>1. PICK row \in 0 .. l - 1 :
            \E Y \in URounded(l, msg, row) : X = Y \cup {KeyAtom(l, row)}
      BY <1>4 DEF PolySums, Times
    <2>2. PICK Y \in URounded(l, msg, row) : X = Y \cup {KeyAtom(l, row)}
      BY <2>1
    <2>3. Y \notin USums(l, msg, row, l)
      <3> SUFFICES ASSUME Y \in USums(l, msg, row, l)
                   PROVE  FALSE
        OBVIOUS
      <3>1. PICK col \in 0 .. l - 1 : Y = {MatrixAtom(row, col), CallNoise(msg, col, Eta(l))}
        BY DEF USums
      <3>2. X = {MatrixAtom(row, col), KeyAtom(l, row), CallNoise(msg, col, Eta(l))}
        BY <2>2, <3>1
      <3> QED
        BY <1>1, <1>4, <3>2
    <2>4. Y = {CallNoise(msg, l + row, 2)} \/ Y = {RoundingAtom(msg, row)}
      BY <2>3 DEF URounded, UFull
    <2>5. \/ X = {KeyAtom(l, row), CallNoise(msg, l + row, 2)}
          \/ X = {KeyAtom(l, row), RoundingAtom(msg, row)}
      BY <2>2, <2>4
    <2> QED
      BY <2>5, AtomsAre DEF Small
  <1> QED
    BY <1>3, <1>4

LEMMA OneMessage ==
  ASSUME NEW g, NEW a, {e \in Scheme!Atoms(g) : e[1] = "m"} = {a},
         ~\E e \in Scheme!Atoms(g) : e[1] = "A"
  PROVE  Scheme!Decoded(g) = a[2]
  <1>1. Scheme!Cardinality({a}) = 1 /\ (CHOOSE e \in {a} : TRUE) = a
    BY FS_Singleton, SameCardinality
  <1> QED
    BY <1>1 DEF Scheme!Decoded

\* <s, u> subtracted from v leaves the message, legible.
LEMMA Decrypted ==
  ASSUME NEW l \in Nat \ {0}, NEW msg, NEW intact \in BOOLEAN, NEW g, NEW h,
         Sums(g, VRounded(l, msg, intact)), Sums(h, PolySums(l, msg, l))
  PROVE  /\ Legible(Scheme!Sub(g, h), msg)
         /\ Scheme!Decoded(Scheme!Sub(g, h)) = msg
  <1> DEFINE rest == Scheme!Sub(g, h)
             message == {MessageAtom(msg)}
  <1>1. message \in VRounded(l, msg, intact) \ PolySums(l, msg, l)
    <2>1. message \in VRounded(l, msg, intact)
      BY DEF VRounded, VSent, VFull
    <2>2. message \notin PolySums(l, msg, l)
      <3> SUFFICES ASSUME message \in PolySums(l, msg, l)
                   PROVE  FALSE
        OBVIOUS
      <3>1. MessageAtom(msg) \in message
        OBVIOUS
      <3> HIDE DEF message
      <3> QED
        BY <3>1, PolyAtoms, AtomsAre
    <2> QED
      BY <2>1, <2>2
  <1>2. Scheme!Coefficient(rest, Product(message)) = 1
    BY <1>1, SumsSub
  <1>3. \A w \in Monomials(rest) : \E X : w = Product(X) /\ Small(msg, X)
    BY SumsSub, MatrixCancels
  <1> HIDE DEF rest
  <1>4. ASSUME NEW w \in Monomials(rest)
        PROVE  /\ Scheme!BagCardinality(w) <= 2
               /\ \A a \in DOMAIN w : a[1] \in {"m", "noise", "rounding", "damage"}
               /\ Scheme!Cardinality({a \in DOMAIN w : a[1] = "noise" /\ a[2] = Scheme!sigma}) <= 1
    <2>1. PICK X : w = Product(X) /\ Small(msg, X)
      BY <1>3
    <2>2. DOMAIN w = X
      BY <2>1, ProductAtoms
    <2> QED
      BY <2>1, <2>2, SmallIsLegible
  <1>5. Legible(rest, msg)
    BY <1>2, <1>4 DEF Legible
  <1>6. ASSUME NEW a \in Scheme!Atoms(rest)
        PROVE  a[1] # "A" /\ (a[1] = "m" => a = MessageAtom(msg))
    <2>1. PICK w \in Monomials(rest) : a \in DOMAIN w
      BY DEF Scheme!Atoms, Scheme!BagToSet, Monomials
    <2>2. PICK X : w = Product(X) /\ Small(msg, X)
      BY <1>3
    <2>3. a \in X
      BY <2>1, <2>2, ProductAtoms
    <2> QED
      BY <2>2, <2>3 DEF Small
  <1>7. MessageAtom(msg) \in Scheme!Atoms(rest)
    <2>1. Product(message) \in Monomials(rest)
      BY <1>2 DEF Scheme!Coefficient, Monomials
    <2>2. MessageAtom(msg) \in DOMAIN Product(message)
      BY ProductAtoms
    <2> QED
      BY <2>1, <2>2 DEF Scheme!Atoms, Scheme!BagToSet, Monomials
  <1> DEFINE messages == {a \in Scheme!Atoms(rest) : a[1] = "m"}
  <1>8. messages = {MessageAtom(msg)}
    BY <1>6, <1>7, AtomsAre
  <1>9. Scheme!Decoded(rest) = msg
    <2>1. ~\E a \in Scheme!Atoms(rest) : a[1] = "A"
      BY <1>6
    <2> QED
      BY <1>8, <2>1, OneMessage, AtomsAre
  <1> QED
    BY <1>5, <1>9 DEF rest

-----------------------------------------------------------------------------
(* The scheme: each buffer is the sum of its products, at every point of its loop *)

PairExact ==
  /\ \A row \in Rows : keygen.pc # "secret" \/ row < keygen.i => Sums(secret[row], {{KeyAtom(k, row)}})
  /\ keygen.pc = "secret" => \A row \in Rows : Sums(t[row], {})
  /\ keygen.pc = "public" => \A row \in Rows :
       Sums(t[row], IF row < keygen.i THEN PublicFull(k, row)
                    ELSE IF row = keygen.i THEN PublicSums(k, row, keygen.j) ELSE {})
  /\ keygen.pc \in {"fill", "ready"} => \A row \in Rows : Sums(t[row], PublicFull(k, row))

EntryExact(a, b) == Sums(full_matrix[a * k + b], {{MatrixAtom(a, b)}})

MatrixExact ==
  /\ keygen.pc = "fill" => full /\ keygen.j < k
  /\ full /\ keygen.pc \in {"fill", "ready"} => \A a \in Rows, b \in Rows :
       keygen.pc = "ready" \/ a < keygen.i \/ (a = keygen.i /\ b < keygen.j) => EntryExact(a, b)

KeyExact == PairExact /\ MatrixExact

CallExact(c) ==
  /\ job[c].m \in SUBSET Nat /\ u[c] = [row \in Rows |-> u[c][row]]
  /\ job[c].pc \in {"y", "u", "v", "done"} => \A row \in Rows :
       job[c].pc # "y" \/ row < job[c].i => Sums(y[c][row], {{CallNoise(job[c].m, row, Eta(k))}})
  /\ job[c].pc = "u" => \A row \in Rows :
       Sums(u[c][row], IF row < job[c].i THEN UFull(k, job[c].m, row)
                       ELSE IF row = job[c].i THEN USums(k, job[c].m, row, job[c].j) ELSE {})
  /\ job[c].pc \in {"v", "done"} => \A row \in Rows : Sums(u[c][row], UFull(k, job[c].m, row))
  /\ job[c].pc = "v" => Sums(v_poly[c], VSums(k, job[c].m, job[c].i))
  /\ job[c].pc = "done" => Sums(v_poly[c], VFull(k, job[c].m))

\* A ciphertext that was sent at level l.
Ciphertext(l, c) ==
  /\ DOMAIN c = {"u", "v", "m", "intact"} /\ c.m \in SUBSET Nat /\ c.intact \in BOOLEAN
  /\ c.u = [row \in 0 .. l - 1 |-> c.u[row]]
  /\ \A row \in 0 .. l - 1 : Sums(c.u[row], UFull(l, c.m, row)) /\ c.u[row].dom = "time"
  /\ Sums(c.v, VSent(l, c.m, c.intact)) /\ c.v.dom = "time"

WireExact == wire # << >> => wire = <<wire[1]>> /\ Ciphertext(k, wire[1])

Received == decrypt.ciphertext[1]

SlotExact ==
  /\ job["slot"].pc # "idle" => Ciphertext(k, Received)
  /\ job["slot"].pc = "decrypt" =>
       /\ \A row \in Rows : row < job["slot"].i \/ Sums(decrypt.u[row], URounded(k, Received.m, row))
       /\ Sums(decrypt.v, VRounded(k, Received.m, Received.intact)) /\ decrypt.m = {}
       /\ Sums(decrypt.poly, PolySums(k, Received.m, job["slot"].i))
  /\ job["slot"].pc \in {"y", "u", "v", "done"} => job["slot"].m = Received.m
  /\ job["slot"].pc = "y" => Legible(decrypt.poly, Received.m)

Answers == [m : SUBSET Nat, intact : BOOLEAN, key : SUBSET Nat]
ResultsExact == sent \in Nat /\ results \in Seq(Answers) /\ Scheme!KeysAgree

ExactInv ==
  KeyExact /\ WireExact /\ SlotExact /\ ResultsExact /\ \A c \in Contexts : CallExact(c)

LEMMA EtaIs == Scheme!eta1 = Eta(k)
  BY DEF Scheme!eta1, Eta

LEMMA KeyExactFrame ==
  ASSUME KeyExact, UNCHANGED <<k, full, keygen, secret, t, full_matrix>>
  PROVE  KeyExact'
  <1>1. Rows' = Rows
    BY Primed
  <1> QED
    BY <1>1 DEF KeyExact, PairExact, MatrixExact, EntryExact

LEMMA CallExactFrame ==
  ASSUME NEW c \in Contexts, CallExact(c), UNCHANGED k,
         job'[c] = job[c], y'[c] = y[c], u'[c] = u[c], v_poly'[c] = v_poly[c]
  PROVE  CallExact(c)'
  <1>1. Rows' = Rows
    BY Primed
  <1> QED
    BY <1>1 DEF CallExact

LEMMA SlotExactFrame ==
  ASSUME SlotExact, UNCHANGED <<k, decrypt>>, job'["slot"] = job["slot"]
  PROVE  SlotExact'
  <1>1. Rows' = Rows
    BY Primed
  <1> QED
    BY <1>1 DEF SlotExact, Received

LEMMA WireExactFrame ==
  ASSUME WireExact, UNCHANGED <<k, wire>>
  PROVE  WireExact'
  BY DEF WireExact

LEMMA ResultsExactFrame ==
  ASSUME ResultsExact, UNCHANGED <<sent, results>>
  PROVE  ResultsExact'
  BY DEF ResultsExact, Scheme!KeysAgree

LEMMA KeyGenerationExact ==
  ASSUME ExactInv, KeyExact', UNCHANGED <<k, job, y, u, v_poly, decrypt, wire, sent, results>>
  PROVE  ExactInv'
  <1>1. Contexts' = Contexts
    BY DEF Contexts, Scheme!Contexts
  <1>2. SlotExact' /\ WireExact' /\ ResultsExact'
    BY SlotExactFrame, WireExactFrame, ResultsExactFrame DEF ExactInv
  <1>3. \A c \in Contexts : CallExact(c)'
    BY CallExactFrame DEF ExactInv
  <1> QED
    BY <1>1, <1>2, <1>3 DEF ExactInv

LEMMA CreateSecretExact ==
  ASSUME SchemeInv, ExactInv, Scheme!CreateSecret
  PROVE  ExactInv'
  <1>1. PICK i0 \in Nat : i0 = keygen.i
    BY DEF SchemeInv, KeyStage
  <1>2. /\ keygen.pc = "secret"
        /\ keygen' = IF i0 + 1 < k THEN [keygen EXCEPT !.i = i0 + 1]
                                   ELSE [pc |-> "public", i |-> 0, j |-> 0]
        /\ UNCHANGED <<k, full, t, full_matrix, job, y, u, v_poly, decrypt, wire, sent, results>>
    BY <1>1 DEF Scheme!CreateSecret, Scheme!encapsVars, Scheme!channelVars
  <1>3. /\ PairExact /\ DOMAIN secret = Rows /\ Rows' = Rows /\ Rows = 0 .. k - 1 /\ k \in {2, 3, 4}
        /\ i0 \in 0 .. k - 1 /\ DOMAIN keygen = {"pc", "i", "j"}
    BY <1>1, <1>2, Primed DEF ExactInv, KeyExact, SchemeInv, KeyStage, Rows, Scheme!Rows
  <1>4. PICK new : Sums(new, {{KeyAtom(k, i0)}}) /\ secret' = [secret EXCEPT ![i0] = new]
    <2>1. secret' = [secret EXCEPT ![i0] = Scheme!Ntt(Scheme!Noise(Scheme!sigma, i0, Scheme!eta1))]
      BY <1>1 DEF Scheme!CreateSecret
    <2>2. Scheme!Noise(Scheme!sigma, i0, Scheme!eta1) = Scheme!Atom(KeyAtom(k, i0))
      BY EtaIs DEF Scheme!Noise, KeyAtom
    <2> QED
      BY <2>1, <2>2, SumsSample, SumsTransform
  <1>5. \A row \in Rows : row < i0 + 1 => Sums(secret'[row], {{KeyAtom(k, row)}})
    <2> SUFFICES ASSUME NEW row \in Rows, row < i0 + 1
                 PROVE  Sums(secret'[row], {{KeyAtom(k, row)}})
      OBVIOUS
    <2>1. CASE row = i0
      BY <1>3, <1>4, <2>1
    <2>2. CASE row # i0
      <3>1. row < i0
        BY <1>3, <2>2
      <3> QED
        BY <1>1, <1>2, <1>3, <1>4, <2>2, <3>1 DEF PairExact
    <2> QED
      BY <2>1, <2>2
  <1>6. PairExact'
    <2>1. CASE i0 + 1 < k
      <3>1. keygen'.pc = "secret" /\ keygen'.i = i0 + 1
        BY <1>2, <1>3, <2>1
      <3> QED
        BY <1>2, <1>3, <1>5, <3>1 DEF PairExact
    <2>2. CASE ~(i0 + 1 < k)
      <3>1. keygen'.pc = "public" /\ keygen'.i = 0 /\ keygen'.j = 0
        BY <1>2, <2>2
      <3>2. \A row \in Rows : row < i0 + 1 /\ ~(row < 0)
        BY <1>3, <2>2
      <3>3. \A row \in Rows : PublicSums(k, row, 0) = {}
        BY NoTermsYet
      <3>4. \A row \in Rows : Sums(t[row], {})
        BY <1>2, <1>3 DEF PairExact
      <3> QED
        BY <1>2, <1>3, <1>5, <3>1, <3>2, <3>3, <3>4 DEF PairExact
    <2> QED
      BY <2>1, <2>2
  <1>7. MatrixExact'
    <2>1. keygen'.pc \in {"secret", "public"}
      BY <1>2, <1>3
    <2> QED
      BY <2>1 DEF MatrixExact
  <1> QED
    BY <1>2, <1>6, <1>7, KeyGenerationExact DEF KeyExact

LEMMA CreatePublicExact ==
  ASSUME SchemeInv, ExactInv, Scheme!CreatePublic
  PROVE  ExactInv'
  <1>1. PICK i0 \in Nat, j0 \in Nat : i0 = keygen.i /\ j0 = keygen.j
    BY DEF SchemeInv, KeyStage
  <1>2. /\ keygen.pc = "public"
        /\ UNCHANGED <<k, full, secret, full_matrix, job, y, u, v_poly, decrypt, wire, sent, results>>
    BY DEF Scheme!CreatePublic, Scheme!encapsVars, Scheme!channelVars
  <1>3. /\ PairExact /\ DOMAIN t = Rows /\ Rows' = Rows /\ Rows = 0 .. k - 1 /\ k \in {2, 3, 4} /\ k \in Nat
        /\ i0 \in 0 .. k - 1 /\ j0 \in 0 .. k /\ DOMAIN keygen = {"pc", "i", "j"}
    BY <1>1, <1>2, Primed DEF ExactInv, KeyExact, SchemeInv, KeyStage, Rows, Scheme!Rows
  <1>4. Sums(t[i0], PublicSums(k, i0, j0)) /\ \A row \in Rows : Sums(secret[row], {{KeyAtom(k, row)}})
    <2>1. ~(i0 < i0)
      OBVIOUS
    <2> QED
      BY <1>1, <1>2, <1>3, <2>1 DEF PairExact
  <1>5. CASE j0 < k
    <2> DEFINE term == Scheme!Multiply(Scheme!KeySeed(i0, j0), secret[j0])
               new == Scheme!Add(t[i0], term)
    <2>1. t' = [t EXCEPT ![i0] = new] /\ keygen' = [keygen EXCEPT !.j = j0 + 1]
      BY <1>1, <1>5 DEF Scheme!CreatePublic
    <2>2. Sums(Scheme!KeySeed(i0, j0), {{MatrixAtom(j0, i0)}}) /\ Sums(secret[j0], {{KeyAtom(k, j0)}})
      <3>1. Scheme!KeySeed(i0, j0) = Scheme!SampledInNtt(MatrixAtom(j0, i0))
        BY DEF Scheme!KeySeed, Scheme!MatrixPoly, MatrixAtom
      <3>2. j0 \in Rows
        BY <1>3, <1>5
      <3> QED
        BY <1>4, <3>1, <3>2, SumsSample
    <2> DEFINE more == Times({{MatrixAtom(j0, i0)}}, KeyAtom(k, j0))
    <2>3. Sums(term, more)
      <3>1. Fresh(KeyAtom(k, j0), {{MatrixAtom(j0, i0)}})
        BY <1>3, PublicNext
      <3> QED
        BY <2>2, <3>1, SumsMultiply
    <2>4. PublicSums(k, i0, j0) \cap more = {}
      <3>1. Fresh(KeyAtom(k, j0), PublicSums(k, i0, j0))
        BY <1>3, PublicNext
      <3> QED
        BY <3>1, FreshDisjoint
    <2>5. PublicSums(k, i0, j0 + 1) = PublicSums(k, i0, j0) \cup more
      BY <1>3, PublicNext
    <2> HIDE DEF term, more
    <2>6. Sums(new, PublicSums(k, i0, j0 + 1))
      BY <1>4, <2>3, <2>4, <2>5, SumsAdd
    <2> HIDE DEF new
    <2>7. keygen'.pc = "public" /\ keygen'.i = i0 /\ keygen'.j = j0 + 1
      BY <1>1, <1>2, <1>3, <2>1
    <2>8. t'[i0] = new /\ \A row \in Rows : row # i0 => t'[row] = t[row]
      BY <1>3, <2>1
    <2>9. PairExact'
      <3>1. ~(i0 < i0)
        OBVIOUS
      <3>2. \A row \in Rows : Sums(t'[row], IF row < i0 THEN PublicFull(k, row)
                                            ELSE IF row = i0 THEN PublicSums(k, row, j0 + 1) ELSE {})
        BY <1>1, <1>2, <1>3, <2>6, <2>8, <3>1 DEF PairExact
      <3> QED
        BY <1>2, <1>3, <1>4, <2>7, <3>2 DEF PairExact
    <2>10. MatrixExact'
      BY <2>7 DEF MatrixExact
    <2> QED
      BY <1>2, <2>9, <2>10, KeyGenerationExact DEF KeyExact
  <1>6. CASE ~(j0 < k)
    <2> DEFINE term == Scheme!Ntt(Scheme!Noise(Scheme!sigma, Scheme!KeyNoiseCounter(i0), Scheme!eta1))
               new == Scheme!Add(t[i0], term)
    <2>1. /\ t' = [t EXCEPT ![i0] = new]
          /\ keygen' = IF i0 + 1 < k THEN [keygen EXCEPT !.i = i0 + 1, !.j = 0]
                       ELSE [pc |-> IF full THEN "fill" ELSE "ready", i |-> 0, j |-> 0]
      BY <1>1, <1>6 DEF Scheme!CreatePublic
    <2>2. Sums(term, {{KeyAtom(k, k + i0)}})
      <3>1. Scheme!Noise(Scheme!sigma, Scheme!KeyNoiseCounter(i0), Scheme!eta1) = Scheme!Atom(KeyAtom(k, k + i0))
        BY EtaIs DEF Scheme!Noise, KeyAtom, Scheme!KeyNoiseCounter
      <3> QED
        BY <3>1, SumsSample, SumsTransform
    <2>3. PublicSums(k, i0, k) \cap {{KeyAtom(k, k + i0)}} = {} /\ j0 = k
      <3>1. k <= k + i0
        BY <1>3
      <3>2. Fresh(KeyAtom(k, k + i0), PublicSums(k, i0, k))
        BY <1>3, <3>1, PublicNext
      <3> QED
        BY <1>3, <1>6, <3>2, FreshDisjoint
    <2> HIDE DEF term
    <2>4. Sums(new, PublicFull(k, i0))
      BY <1>4, <2>2, <2>3, SumsAdd DEF PublicFull
    <2> HIDE DEF new
    <2>5. t'[i0] = new /\ \A row \in Rows : row # i0 => t'[row] = t[row]
      BY <1>3, <2>1
    <2>6. \A row \in Rows : Sums(t'[row], IF row < i0 + 1 THEN PublicFull(k, row) ELSE {})
      <3> SUFFICES ASSUME NEW row \in Rows
                   PROVE  Sums(t'[row], IF row < i0 + 1 THEN PublicFull(k, row) ELSE {})
        OBVIOUS
      <3>1. CASE row = i0
        BY <1>3, <2>4, <2>5, <3>1
      <3>2. CASE row # i0
        <4>1. (row < i0 + 1) <=> (row < i0)
          BY <1>3, <3>2
        <4> QED
          BY <1>1, <1>2, <1>3, <2>5, <3>2, <4>1 DEF PairExact
      <3> QED
        BY <3>1, <3>2
    <2>7. \A row \in Rows : PublicSums(k, row, 0) = {}
      BY NoTermsYet
    <2>8. CASE i0 + 1 < k
      <3>1. keygen'.pc = "public" /\ keygen'.i = i0 + 1 /\ keygen'.j = 0
        BY <1>2, <1>3, <2>1, <2>8
      <3>2. PairExact'
        BY <1>2, <1>3, <1>4, <2>6, <2>7, <3>1 DEF PairExact
      <3>3. MatrixExact'
        BY <3>1 DEF MatrixExact
      <3> QED
        BY <1>2, <3>2, <3>3, KeyGenerationExact DEF KeyExact
    <2>9. CASE ~(i0 + 1 < k)
      <3>1. keygen' = [pc |-> IF full THEN "fill" ELSE "ready", i |-> 0, j |-> 0]
        BY <2>1, <2>9
      <3>2. keygen'.i = 0 /\ keygen'.j = 0 /\ keygen'.pc = IF full THEN "fill" ELSE "ready"
        BY <3>1
      <3>3. \A row \in Rows : row < i0 + 1 /\ ~(row < 0)
        BY <1>3, <2>9
      <3>4. \A row \in Rows : Sums(t'[row], PublicFull(k, row))
        BY <2>6, <3>3
      <3>5. PairExact'
        BY <1>2, <1>3, <1>4, <3>2, <3>3, <3>4 DEF PairExact
      <3>6. MatrixExact'
        BY <1>2, <1>3, <3>2, <3>3 DEF MatrixExact
      <3> QED
        BY <1>2, <3>5, <3>6, KeyGenerationExact DEF KeyExact
    <2> QED
      BY <2>8, <2>9
  <1> QED
    BY <1>5, <1>6

\* Rows of the matrix lie one after the other.
LEMMA OneEntry ==
  ASSUME NEW l \in {2, 3, 4}, NEW a \in 0 .. l - 1, NEW b \in 0 .. l - 1
  PROVE  /\ a * l + b \in 0 .. l * l - 1
         /\ \A c \in 0 .. l - 1, d \in 0 .. l - 1 : a * l + b = c * l + d => a = c /\ b = d
  <1>1. CASE l = 2
    BY <1>1
  <1>2. CASE l = 3
    BY <1>2
  <1>3. CASE l = 4
    BY <1>3
  <1> QED
    BY <1>1, <1>2, <1>3

LEMMA FillMatrixExact ==
  ASSUME SchemeInv, ExactInv, Scheme!FillMatrix
  PROVE  ExactInv'
  <1>1. PICK i0 \in Nat, j0 \in Nat : i0 = keygen.i /\ j0 = keygen.j
    BY DEF SchemeInv, KeyStage
  <1>2. /\ keygen.pc = "fill" /\ full_matrix' = [full_matrix EXCEPT ![i0 * k + j0] = Scheme!FillSeed(i0, j0)]
        /\ keygen' = CASE j0 + 1 < k -> [keygen EXCEPT !.j = j0 + 1]
                       [] j0 + 1 = k /\ i0 + 1 < k -> [keygen EXCEPT !.i = i0 + 1, !.j = 0]
                       [] OTHER -> [keygen EXCEPT !.pc = "ready"]
        /\ UNCHANGED <<k, full, secret, t, job, y, u, v_poly, decrypt, wire, sent, results>>
    BY <1>1 DEF Scheme!FillMatrix, Scheme!encapsVars, Scheme!channelVars
  <1>3. /\ PairExact /\ MatrixExact /\ DOMAIN full_matrix = 0 .. k * k - 1 /\ Rows' = Rows /\ Rows = 0 .. k - 1
        /\ k \in {2, 3, 4} /\ i0 \in 0 .. k - 1 /\ DOMAIN keygen = {"pc", "i", "j"}
    BY <1>1, <1>2, Primed DEF ExactInv, KeyExact, SchemeInv, KeyStage, Rows, Scheme!Rows
  <1>4. full /\ j0 \in 0 .. k - 1
    BY <1>1, <1>2, <1>3 DEF MatrixExact
  <1>5. ASSUME NEW a \in Rows, NEW b \in Rows, a < i0 \/ (a = i0 /\ b < j0 + 1)
        PROVE  EntryExact(a, b)'
    <2>1. CASE a = i0 /\ b = j0
      <3>1. full_matrix'[i0 * k + j0] = Scheme!FillSeed(i0, j0)
        BY <1>2, <1>3, <1>4, OneEntry
      <3> QED
        BY <1>2, <2>1, <3>1, SumsSample DEF EntryExact, Scheme!FillSeed, Scheme!MatrixPoly, MatrixAtom
    <2>2. CASE ~(a = i0 /\ b = j0)
      <3>1. a < i0 \/ (a = i0 /\ b < j0)
        BY <1>3, <1>4, <1>5, <2>2
      <3>2. a * k + b # i0 * k + j0 /\ a * k + b \in DOMAIN full_matrix
        BY <1>3, <1>4, <2>2, OneEntry
      <3>3. full_matrix'[a * k + b] = full_matrix[a * k + b]
        BY <1>2, <3>2
      <3>4. EntryExact(a, b)
        BY <1>1, <1>2, <1>3, <1>4, <3>1 DEF MatrixExact
      <3> QED
        BY <1>2, <3>3, <3>4 DEF EntryExact
    <2> QED
      BY <2>1, <2>2
  <1>6. \A row \in Rows : Sums(secret[row], {{KeyAtom(k, row)}}) /\ Sums(t[row], PublicFull(k, row))
    BY <1>2, <1>3 DEF PairExact
  <1>7. MatrixExact' /\ keygen'.pc \in {"fill", "ready"}
    <2>1. CASE j0 + 1 < k
      <3>1. keygen' = [keygen EXCEPT !.j = j0 + 1]
        BY <1>2, <2>1
      <3>2. keygen'.pc = "fill" /\ keygen'.i = i0 /\ keygen'.j = j0 + 1
        BY <1>1, <1>2, <1>3, <3>1
      <3> QED
        BY <1>2, <1>3, <1>4, <1>5, <2>1, <3>2 DEF MatrixExact
    <2>2. CASE ~(j0 + 1 < k) /\ i0 + 1 < k
      <3>1. j0 + 1 = k
        BY <1>3, <1>4, <2>2
      <3>2. keygen' = [keygen EXCEPT !.i = i0 + 1, !.j = 0]
        BY <1>2, <2>2, <3>1
      <3>3. keygen'.pc = "fill" /\ keygen'.i = i0 + 1 /\ keygen'.j = 0
        BY <1>2, <1>3, <3>2
      <3>4. 0 < k
        BY <1>3
      <3>5. ASSUME NEW a \in Rows, NEW b \in Rows, a < i0 + 1 \/ (a = i0 + 1 /\ b < 0)
            PROVE  EntryExact(a, b)'
        <4>1. a < i0 \/ (a = i0 /\ b < j0 + 1)
          BY <1>3, <3>1, <3>5
        <4> QED
          BY <1>5, <4>1
      <3> QED
        BY <1>2, <1>3, <1>4, <3>3, <3>4, <3>5 DEF MatrixExact
    <2>3. CASE ~(j0 + 1 < k) /\ ~(i0 + 1 < k)
      <3>1. keygen' = [keygen EXCEPT !.pc = "ready"]
        BY <1>2, <2>3
      <3>2. keygen'.pc = "ready"
        BY <1>3, <3>1
      <3>3. \A a \in Rows, b \in Rows : EntryExact(a, b)'
        <4>1. \A a \in Rows, b \in Rows : a < i0 \/ (a = i0 /\ b < j0 + 1)
          BY <1>3, <1>4, <2>3
        <4> QED
          BY <1>5, <4>1
      <3> QED
        BY <1>2, <1>3, <3>2, <3>3 DEF MatrixExact
    <2> QED
      BY <2>1, <2>2, <2>3
  <1>8. PairExact'
    BY <1>2, <1>3, <1>6, <1>7 DEF PairExact
  <1> QED
    BY <1>2, <1>7, <1>8, KeyGenerationExact DEF KeyExact

LEMMA CallStepExact ==
  ASSUME ExactInv, NEW c \in Contexts, CallExact(c)',
         UNCHANGED <<k, full, keygen, secret, t, full_matrix, decrypt, wire, sent, results>>,
         \A d \in Contexts : d # c => /\ job'[d] = job[d] /\ y'[d] = y[d]
                                      /\ u'[d] = u[d] /\ v_poly'[d] = v_poly[d],
         job[c].pc \in {"y", "u", "v"}, job'[c].pc \in {"y", "u", "v", "done"},
         job'[c].m = job[c].m, job'[c].pc = "y" => job[c].pc = "y"
  PROVE  ExactInv'
  <1>1. Contexts' = Contexts /\ "slot" \in Contexts
    BY DEF Contexts, Scheme!Contexts
  <1>2. KeyExact' /\ WireExact' /\ ResultsExact'
    BY KeyExactFrame, WireExactFrame, ResultsExactFrame DEF ExactInv
  <1>3. SlotExact'
    <2>1. CASE c = "slot"
      BY <2>1 DEF ExactInv, SlotExact, Received
    <2>2. CASE c # "slot"
      BY <1>1, <2>2, SlotExactFrame DEF ExactInv
    <2> QED
      BY <2>1, <2>2
  <1>4. \A d \in Contexts : CallExact(d)'
    <2> SUFFICES ASSUME NEW d \in Contexts, d # c
                 PROVE  CallExact(d)'
      OBVIOUS
    <2>1. CallExact(d)
      BY DEF ExactInv
    <2> QED
      BY <2>1, CallExactFrame
  <1> QED
    BY <1>1, <1>2, <1>3, <1>4 DEF ExactInv

LEMMA StartClientExact ==
  ASSUME SchemeInv, ExactInv, Scheme!StartClient
  PROVE  ExactInv'
  <1>1. /\ "client" \in Contexts /\ "slot" \in Contexts /\ Contexts' = Contexts /\ DOMAIN job = Contexts
    BY DEF Contexts, Scheme!Contexts, SchemeInv
  <1>2. /\ job' = [job EXCEPT !["client"] = [pc |-> "y", i |-> 0, j |-> 0, m |-> {sent + 1}]]
        /\ sent' = sent + 1
        /\ UNCHANGED <<k, full, keygen, secret, t, full_matrix, y, u, v_poly, decrypt, wire, results>>
    BY DEF Scheme!StartClient, Scheme!keyVars
  <1>3. job'["client"] = [pc |-> "y", i |-> 0, j |-> 0, m |-> {sent + 1}] /\ job'["slot"] = job["slot"]
    BY <1>1, <1>2
  <1>4. sent \in Nat /\ {sent + 1} \in SUBSET Nat
    BY DEF ExactInv, ResultsExact
  <1>5. CallExact("client")'
    <2>1. Rows' = Rows /\ CallExact("client") /\ \A row \in Rows : ~(row < 0)
      BY <1>1, <1>2, Primed DEF ExactInv, SchemeInv, KeyStage, Rows, Scheme!Rows
    <2>2. job'["client"].pc = "y" /\ job'["client"].i = 0 /\ job'["client"].m = {sent + 1}
      BY <1>3
    <2> QED
      BY <1>2, <1>4, <2>1, <2>2 DEF CallExact
  <1>6. CallExact("slot")' /\ SlotExact'
    BY <1>1, <1>2, <1>3, CallExactFrame, SlotExactFrame DEF ExactInv
  <1>7. ResultsExact'
    BY <1>2, <1>4 DEF ExactInv, ResultsExact, Scheme!KeysAgree
  <1>8. KeyExact' /\ WireExact'
    BY <1>2, KeyExactFrame, WireExactFrame DEF ExactInv
  <1> QED
    BY <1>1, <1>5, <1>6, <1>7, <1>8 DEF ExactInv, Contexts, Scheme!Contexts

LEMMA CreateYExact ==
  ASSUME SchemeInv, ExactInv, NEW c \in Contexts, Scheme!CreateY(c)
  PROVE  ExactInv'
  <1>1. PICK i0, msg : i0 = job[c].i /\ msg = job[c].m
    OBVIOUS
  <1>2. /\ job[c].pc = "y" /\ y' = [y EXCEPT ![c][i0] = Scheme!TemporarySecret(c, i0)]
        /\ UNCHANGED <<k, full, keygen, secret, t, full_matrix, u, v_poly, decrypt, wire, sent, results>>
        /\ job' = [job EXCEPT ![c] = IF i0 + 1 < k THEN [job[c] EXCEPT !.i = i0 + 1]
                                     ELSE [job[c] EXCEPT !.pc = "u", !.i = 0, !.j = 0]]
    BY <1>1 DEF Scheme!CreateY, Scheme!keyVars, Scheme!channelVars, SchemeInv
  <1>3. /\ CallExact(c) /\ CallStage(c) /\ ContextClean(c) /\ DOMAIN job = Contexts /\ DOMAIN y = Contexts
        /\ Rows' = Rows /\ k \in {2, 3, 4}
    BY <1>2, Primed DEF ExactInv, SchemeInv, CallStage, KeyStage
  <1>4. /\ DOMAIN y[c] = Rows /\ DOMAIN job[c] = {"pc", "i", "j", "m"} /\ Rows = 0 .. k - 1 /\ i0 \in 0 .. k - 1
    BY <1>1, <1>2, <1>3 DEF CallStage, Rows, Scheme!Rows
  <1>5. Sums(y'[c][i0], {{CallNoise(msg, i0, Eta(k))}})
    <2>1. y'[c][i0] = Scheme!TemporarySecret(c, i0)
      BY <1>2, <1>3, <1>4
    <2>2. Scheme!TemporarySecret(c, i0) = Scheme!Ntt(Scheme!Atom(CallNoise(msg, i0, Eta(k))))
      BY <1>1, EtaIs DEF Scheme!TemporarySecret, Scheme!Noise, CallNoise
    <2> QED
      BY <2>1, <2>2, SumsSample, SumsTransform
  <1>6. \A row \in Rows : row < i0 + 1 => Sums(y'[c][row], {{CallNoise(msg, row, Eta(k))}})
    <2> SUFFICES ASSUME NEW row \in Rows, row < i0 + 1, row # i0
                 PROVE  Sums(y'[c][row], {{CallNoise(msg, row, Eta(k))}})
      BY <1>5
    <2>1. row < i0
      BY <1>4
    <2>2. y'[c][row] = y[c][row]
      BY <1>2, <1>3, <1>4
    <2> QED
      BY <1>1, <1>2, <1>3, <2>1, <2>2 DEF CallExact
  <1>7. \A d \in Contexts : d # c => job'[d] = job[d] /\ y'[d] = y[d]
    BY <1>2, <1>3
  <1>8. CASE i0 + 1 < k
    <2>1. job'[c].pc = "y" /\ job'[c].i = i0 + 1 /\ job'[c].m = msg
      BY <1>1, <1>2, <1>3, <1>4, <1>8
    <2>2. CallExact(c)'
      BY <1>1, <1>2, <1>3, <1>6, <2>1 DEF CallExact
    <2> QED
      BY <1>1, <1>2, <1>7, <2>1, <2>2, CallStepExact
  <1>9. CASE ~(i0 + 1 < k)
    <2>1. job'[c].pc = "u" /\ job'[c].i = 0 /\ job'[c].j = 0 /\ job'[c].m = msg
      BY <1>1, <1>2, <1>3, <1>4, <1>9
    <2>2. \A row \in Rows : row < i0 + 1 /\ ~(row < 0)
      BY <1>3, <1>4, <1>9
    <2>3. \A row \in Rows : Sums(u'[c][row], {}) /\ USums(k, msg, row, 0) = {}
      BY <1>2, <1>3, SumsZero, NoTermsYet DEF ContextClean
    <2>4. CallExact(c)'
      BY <1>1, <1>2, <1>3, <1>6, <2>1, <2>2, <2>3 DEF CallExact
    <2> QED
      BY <1>1, <1>2, <1>7, <2>1, <2>4, CallStepExact
  <1> QED
    BY <1>8, <1>9

LEMMA EntryIsExact ==
  ASSUME SchemeInv, ExactInv, keygen.pc = "ready", NEW c, NEW a \in Rows, NEW b \in Rows
  PROVE  Sums(Scheme!Entry(c, a, b), {{MatrixAtom(a, b)}})
  <1>1. CASE c = "slot" /\ full
    BY <1>1 DEF ExactInv, KeyExact, MatrixExact, EntryExact, Scheme!Entry
  <1>2. CASE ~(c = "slot" /\ full)
    <2>1. Scheme!Entry(c, a, b) = Scheme!SampledInNtt(MatrixAtom(a, b))
      BY <1>2 DEF Scheme!Entry, Scheme!MatrixPoly, MatrixAtom
    <2> QED
      BY <2>1, SumsSample
  <1> QED
    BY <1>1, <1>2

LEMMA CreateUExact ==
  ASSUME SchemeInv, ExactInv, NEW c \in Contexts, Scheme!CreateU(c)
  PROVE  ExactInv'
  <1>1. PICK i0, j0, msg : i0 = job[c].i /\ j0 = job[c].j /\ msg = job[c].m
    OBVIOUS
  <1>2. /\ job[c].pc = "u"
        /\ UNCHANGED <<k, full, keygen, secret, t, full_matrix, y, v_poly, decrypt, wire, sent, results>>
    BY DEF Scheme!CreateU, Scheme!keyVars, Scheme!channelVars
  <1>3. /\ CallExact(c) /\ CallStage(c) /\ DOMAIN job = Contexts /\ DOMAIN u = Contexts
        /\ Rows' = Rows /\ k \in {2, 3, 4}
    BY <1>2, Primed DEF ExactInv, SchemeInv, KeyStage
  <1>4. /\ DOMAIN u[c] = Rows /\ DOMAIN job[c] = {"pc", "i", "j", "m"} /\ Rows = 0 .. k - 1
        /\ i0 \in Rows /\ i0 \in 0 .. k - 1 /\ i0 \in Nat /\ j0 \in 0 .. k /\ j0 \in Nat /\ k \in Nat
        /\ v_poly[c] = Scheme!Zero /\ keygen.pc = "ready"
    BY <1>1, <1>2, <1>3 DEF CallStage, Rows, Scheme!Rows
  <1>5. /\ Sums(u[c][i0], USums(k, msg, i0, j0))
        /\ \A row \in Rows : Sums(y[c][row], {{CallNoise(msg, row, Eta(k))}})
    <2>1. ~(i0 < i0)
      BY <1>4
    <2> QED
      BY <1>1, <1>2, <1>3, <1>4, <2>1 DEF CallExact
  <1>6. \A d \in Contexts : d # c => job'[d] = job[d] /\ u'[d] = u[d]
    <2>1. /\ \E new : u' = [u EXCEPT ![c][job[c].i] = new]
          /\ \E new : job' = [job EXCEPT ![c] = new]
      BY DEF Scheme!CreateU
    <2> QED
      BY <2>1
  <1>7. CASE j0 < k
    <2> DEFINE term == Scheme!Multiply(Scheme!Entry(c, i0, j0), y[c][j0])
               new == Scheme!Add(u[c][i0], term)
               more == Times({{MatrixAtom(i0, j0)}}, CallNoise(msg, j0, Eta(k)))
    <2>1. u' = [u EXCEPT ![c][i0] = new] /\ job' = [job EXCEPT ![c].j = j0 + 1]
      BY <1>1, <1>4, <1>7 DEF Scheme!CreateU
    <2>2. j0 \in Rows
      BY <1>4, <1>7
    <2>3. /\ Sums(Scheme!Entry(c, i0, j0), {{MatrixAtom(i0, j0)}})
          /\ Sums(y[c][j0], {{CallNoise(msg, j0, Eta(k))}})
      BY <1>4, <1>5, <2>2, EntryIsExact
    <2>4. Sums(term, more)
      <3>1. Fresh(CallNoise(msg, j0, Eta(k)), {{MatrixAtom(i0, j0)}})
        BY <1>4, UNext
      <3> QED
        BY <2>3, <3>1, SumsMultiply
    <2>5. USums(k, msg, i0, j0) \cap more = {}
      <3>1. Fresh(CallNoise(msg, j0, Eta(k)), USums(k, msg, i0, j0))
        BY <1>4, UNext
      <3> QED
        BY <3>1, FreshDisjoint
    <2>6. USums(k, msg, i0, j0 + 1) = USums(k, msg, i0, j0) \cup more
      BY <1>4, UNext
    <2> HIDE DEF term, more
    <2>7. Sums(new, USums(k, msg, i0, j0 + 1))
      BY <1>5, <2>4, <2>5, <2>6, SumsAdd
    <2> HIDE DEF new
    <2>8. u'[c] = [row \in Rows |-> u'[c][row]]
      BY <1>3, <1>4, <2>1 DEF CallExact
    <2>9. /\ u'[c][i0] = new /\ \A row \in Rows : row # i0 => u'[c][row] = u[c][row]
          /\ job'[c].pc = "u" /\ job'[c].i = i0 /\ job'[c].j = j0 + 1 /\ job'[c].m = msg
      BY <1>1, <1>2, <1>3, <1>4, <2>1
    <2>10. \A row \in Rows : Sums(u'[c][row], IF row < i0 THEN UFull(k, msg, row)
                                             ELSE IF row = i0 THEN USums(k, msg, row, j0 + 1) ELSE {})
      <3>1. ~(i0 < i0)
        BY <1>4
      <3> QED
        BY <1>1, <1>2, <1>3, <2>7, <2>9, <3>1 DEF CallExact
    <2>11. CallExact(c)'
      BY <1>1, <1>2, <1>3, <1>5, <2>9, <2>10, <2>8 DEF CallExact
    <2> QED
      BY <1>1, <1>2, <1>6, <2>9, <2>11, CallStepExact
  <1>8. CASE ~(j0 < k)
    <2> DEFINE new == Scheme!Add(Scheme!Intt(u[c][i0]), Scheme!Noise(Scheme!r(job[c].m), k + i0, 2))
    <2>1. /\ u' = [u EXCEPT ![c][i0] = new]
          /\ job' = [job EXCEPT ![c] = IF i0 + 1 < k THEN [job[c] EXCEPT !.i = i0 + 1, !.j = 0]
                                       ELSE [job[c] EXCEPT !.pc = "v", !.i = 0]]
      BY <1>1, <1>4, <1>8 DEF Scheme!CreateU
    <2>2. Sums(new, UFull(k, msg, i0))
      <3>1. j0 = k /\ k <= k + i0
        BY <1>4, <1>8
      <3>2. USums(k, msg, i0, k) \cap {{CallNoise(msg, k + i0, 2)}} = {}
        <4>1. Fresh(CallNoise(msg, k + i0, 2), USums(k, msg, i0, k))
          BY <1>4, <3>1, UNext
        <4> QED
          BY <4>1, FreshDisjoint
      <3>3. Scheme!Noise(Scheme!r(job[c].m), k + i0, 2) = Scheme!Atom(CallNoise(msg, k + i0, 2))
        BY <1>1 DEF Scheme!Noise, CallNoise
      <3>4. /\ Sums(Scheme!Intt(u[c][i0]), USums(k, msg, i0, k))
            /\ Sums(Scheme!Noise(Scheme!r(job[c].m), k + i0, 2), {{CallNoise(msg, k + i0, 2)}})
        BY <1>5, <3>1, <3>3, SumsTransform, SumsSample
      <3> QED
        BY <3>2, <3>4, SumsAdd DEF UFull
    <2> HIDE DEF new
    <2>3. u'[c][i0] = new /\ \A row \in Rows : row # i0 => u'[c][row] = u[c][row]
      BY <1>3, <1>4, <2>1
    <2>4. u'[c] = [row \in Rows |-> u'[c][row]]
      BY <1>3, <1>4, <2>1 DEF CallExact
    <2>5. \A row \in Rows : Sums(u'[c][row], IF row < i0 + 1 THEN UFull(k, msg, row) ELSE {})
      <3> SUFFICES ASSUME NEW row \in Rows
                   PROVE  Sums(u'[c][row], IF row < i0 + 1 THEN UFull(k, msg, row) ELSE {})
        OBVIOUS
      <3>1. CASE row = i0
        BY <1>4, <2>2, <2>3, <3>1
      <3>2. CASE row # i0
        <4>1. (row < i0 + 1) <=> (row < i0)
          BY <1>4, <3>2
        <4> QED
          BY <1>1, <1>2, <1>3, <2>3, <3>2, <4>1 DEF CallExact
      <3> QED
        BY <3>1, <3>2
    <2>6. CASE i0 + 1 < k
      <3>1. job'[c].pc = "u" /\ job'[c].i = i0 + 1 /\ job'[c].j = 0 /\ job'[c].m = msg
        BY <1>1, <1>2, <1>3, <1>4, <2>1, <2>6
      <3>2. \A row \in Rows : USums(k, msg, row, 0) = {}
        BY NoTermsYet
      <3>3. CallExact(c)'
        BY <1>1, <1>2, <1>3, <1>5, <2>5, <2>4, <3>1, <3>2 DEF CallExact
      <3> QED
        BY <1>1, <1>2, <1>6, <3>1, <3>3, CallStepExact
    <2>7. CASE ~(i0 + 1 < k)
      <3>1. job'[c].pc = "v" /\ job'[c].i = 0 /\ job'[c].m = msg
        BY <1>1, <1>3, <1>4, <2>1, <2>7
      <3>2. \A row \in Rows : row < i0 + 1
        BY <1>4, <2>7
      <3>3. Sums(v_poly'[c], VSums(k, msg, 0))
        BY <1>2, <1>4, SumsZero, NoTermsYet
      <3>4. CallExact(c)'
        BY <1>1, <1>2, <1>3, <1>5, <2>5, <2>4, <3>1, <3>2, <3>3 DEF CallExact
      <3> QED
        BY <1>1, <1>2, <1>6, <3>1, <3>4, CallStepExact
    <2> QED
      BY <2>6, <2>7
  <1> QED
    BY <1>7, <1>8

LEMMA CreateVExact ==
  ASSUME SchemeInv, ExactInv, NEW c \in Contexts, Scheme!CreateV(c)
  PROVE  ExactInv'
  <1>1. PICK i0, msg : i0 = job[c].i /\ msg = job[c].m
    OBVIOUS
  <1>2. /\ job[c].pc = "v"
        /\ UNCHANGED <<k, full, keygen, secret, t, full_matrix, y, u, decrypt, wire, sent, results>>
    BY DEF Scheme!CreateV, Scheme!keyVars, Scheme!channelVars
  <1>3. /\ CallExact(c) /\ CallStage(c) /\ DOMAIN job = Contexts /\ DOMAIN v_poly = Contexts
        /\ Rows' = Rows /\ k \in {2, 3, 4} /\ PairExact
    BY <1>2, Primed DEF ExactInv, SchemeInv, KeyStage, KeyExact
  <1>4. /\ DOMAIN job[c] = {"pc", "i", "j", "m"} /\ Rows = 0 .. k - 1
        /\ i0 \in 0 .. k /\ i0 \in Nat /\ k \in Nat \ {0} /\ keygen.pc = "ready"
    BY <1>1, <1>2, <1>3 DEF CallStage, Rows, Scheme!Rows
  <1>5. /\ Sums(v_poly[c], VSums(k, msg, i0))
        /\ \A row \in Rows : /\ Sums(y[c][row], {{CallNoise(msg, row, Eta(k))}})
                             /\ Sums(u[c][row], UFull(k, msg, row))
    BY <1>1, <1>2, <1>3 DEF CallExact
  <1>6. \A d \in Contexts : d # c => job'[d] = job[d] /\ v_poly'[d] = v_poly[d]
    <2>1. /\ \E new : v_poly' = [v_poly EXCEPT ![c] = new]
          /\ \E new : job' = [job EXCEPT ![c] = new]
      BY DEF Scheme!CreateV
    <2> QED
      BY <2>1
  <1>7. CASE i0 < k
    <2> DEFINE term == Scheme!Multiply(t[i0], y[c][i0])
               new == Scheme!Add(v_poly[c], term)
               more == Times(PublicFull(k, i0), CallNoise(msg, i0, Eta(k)))
    <2>1. v_poly' = [v_poly EXCEPT ![c] = new] /\ job' = [job EXCEPT ![c].i = i0 + 1]
      BY <1>1, <1>4, <1>7 DEF Scheme!CreateV
    <2>2. i0 \in Rows
      BY <1>4, <1>7
    <2>3. Sums(t[i0], PublicFull(k, i0)) /\ Sums(y[c][i0], {{CallNoise(msg, i0, Eta(k))}})
      BY <1>3, <1>4, <1>5, <2>2 DEF PairExact
    <2>4. /\ Fresh(CallNoise(msg, i0, Eta(k)), PublicFull(k, i0))
          /\ Fresh(CallNoise(msg, i0, Eta(k)), VSums(k, msg, i0))
          /\ VSums(k, msg, i0 + 1) = VSums(k, msg, i0) \cup more
      BY <1>4, VNext
    <2>5. Sums(term, more)
      BY <2>3, <2>4, SumsMultiply
    <2>6. VSums(k, msg, i0) \cap more = {}
      BY <2>4, FreshDisjoint
    <2> HIDE DEF term, more
    <2>7. Sums(new, VSums(k, msg, i0 + 1))
      BY <1>5, <2>4, <2>5, <2>6, SumsAdd
    <2> HIDE DEF new
    <2>8. v_poly'[c] = new /\ job'[c].pc = "v" /\ job'[c].i = i0 + 1 /\ job'[c].m = msg
      BY <1>1, <1>2, <1>3, <1>4, <2>1
    <2>9. CallExact(c)'
      BY <1>1, <1>2, <1>3, <1>5, <2>7, <2>8 DEF CallExact
    <2> QED
      BY <1>1, <1>2, <1>6, <2>8, <2>9, CallStepExact
  <1>8. CASE ~(i0 < k)
    <2> DEFINE noise == Scheme!Noise(Scheme!r(job[c].m), 2 * k, 2)
               noisy == Scheme!Add(Scheme!Intt(v_poly[c]), noise)
               new == Scheme!Add(noisy, Scheme!Message(job[c].m))
    <2>1. v_poly' = [v_poly EXCEPT ![c] = new] /\ job' = [job EXCEPT ![c].pc = "done"]
      BY <1>1, <1>4, <1>8 DEF Scheme!CreateV
    <2>2. noise = Scheme!Atom(CallNoise(msg, 2 * k, 2)) /\ Scheme!Message(job[c].m) = Scheme!Atom(MessageAtom(msg))
      BY <1>1 DEF Scheme!Noise, CallNoise, Scheme!Message, MessageAtom
    <2> HIDE DEF noise
    <2>3. Sums(noise, {{CallNoise(msg, 2 * k, 2)}}) /\ Sums(Scheme!Message(job[c].m), {{MessageAtom(msg)}})
      BY <2>2, SumsSample
    <2>4. /\ Fresh(CallNoise(msg, 2 * k, 2), VSums(k, msg, k))
          /\ Fresh(MessageAtom(msg), VNoisy(k, msg))
      BY <1>4, VNext
    <2>5. Sums(Scheme!Intt(v_poly[c]), VSums(k, msg, k))
      <3>1. i0 = k
        BY <1>4, <1>8
      <3> QED
        BY <1>5, <3>1, SumsTransform
    <2>6. Sums(noisy, VNoisy(k, msg))
      <3>1. VSums(k, msg, k) \cap {{CallNoise(msg, 2 * k, 2)}} = {}
        BY <2>4, FreshDisjoint
      <3> QED
        BY <2>3, <2>5, <3>1, SumsAdd DEF VNoisy
    <2> HIDE DEF noisy
    <2>7. Sums(new, VFull(k, msg))
      <3>1. VNoisy(k, msg) \cap {{MessageAtom(msg)}} = {}
        BY <2>4, FreshDisjoint
      <3> QED
        BY <2>3, <2>6, <3>1, SumsAdd DEF VFull
    <2> HIDE DEF new
    <2>8. v_poly'[c] = new /\ job'[c].pc = "done" /\ job'[c].m = msg
      BY <1>1, <1>2, <1>3, <1>4, <2>1
    <2>9. CallExact(c)'
      BY <1>1, <1>2, <1>3, <1>5, <2>7, <2>8 DEF CallExact
    <2> QED
      BY <1>1, <1>2, <1>6, <2>8, <2>9, CallStepExact
  <1> QED
    BY <1>7, <1>8

\* A wiped context asks nothing of its buffers.
LEMMA IdleExact ==
  ASSUME NEW c \in Contexts, SchemeInv, Scheme!WipeEncaps(c), UNCHANGED k
  PROVE  CallExact(c)' /\ job'[c].pc = "idle"
  <1>1. /\ job' = [job EXCEPT ![c] = [pc |-> "idle", i |-> 0, j |-> 0, m |-> {}]]
        /\ u' = [u EXCEPT ![c] = [row \in Rows |-> Scheme!Zero]]
        /\ DOMAIN job = Contexts /\ DOMAIN u = Contexts
    BY DEF Scheme!WipeEncaps, SchemeInv, Rows, Scheme!Rows
  <1>2. job'[c] = [pc |-> "idle", i |-> 0, j |-> 0, m |-> {}]
    BY <1>1
  <1>3. job'[c].pc = "idle" /\ job'[c].m = {}
    BY <1>2
  <1>4. u'[c] = [row \in Rows |-> Scheme!Zero] /\ Rows' = Rows
    BY <1>1, Primed
  <1>5. u'[c] = [row \in Rows |-> u'[c][row]]
    BY <1>4
  <1> QED
    BY <1>3, <1>4, <1>5 DEF CallExact

LEMMA SendExact ==
  ASSUME SchemeInv, DomainInv, ExactInv, Scheme!Send
  PROVE  ExactInv'
  <1>1. "client" \in Contexts /\ "slot" \in Contexts /\ Contexts' = Contexts
    BY DEF Contexts, Scheme!Contexts
  <1>2. /\ job["client"].pc = "done" /\ Scheme!WipeEncaps("client")
        /\ wire' = <<[u |-> u["client"], v |-> v_poly["client"], m |-> job["client"].m, intact |-> TRUE]>>
        /\ UNCHANGED <<k, full, keygen, secret, t, full_matrix, decrypt, sent, results>>
    BY DEF Scheme!Send, Scheme!keyVars
  <1>3. \A d \in Contexts : d # "client" => /\ job'[d] = job[d] /\ y'[d] = y[d]
                                            /\ u'[d] = u[d] /\ v_poly'[d] = v_poly[d]
    BY <1>1, <1>2, WipeEncapsCleans
  <1>4. /\ CallExact("client") /\ CallDomains("client") /\ CallStage("client") /\ k \in {2, 3, 4}
        /\ CallExact("client")'
    BY <1>1, <1>2, IdleExact DEF ExactInv, DomainInv, SchemeInv, KeyStage
  <1>5. PICK c : c = [u |-> u["client"], v |-> v_poly["client"], m |-> job["client"].m, intact |-> TRUE]
    OBVIOUS
  <1>6. /\ DOMAIN c = {"u", "v", "m", "intact"} /\ c.u = u["client"] /\ c.v = v_poly["client"]
        /\ c.m = job["client"].m /\ c.intact = TRUE
    BY <1>5
  <1>7. Ciphertext(k, c)
    <2>1. Rows = 0 .. k - 1
      BY DEF Rows, Scheme!Rows
    <2>2. c.u = [row \in 0 .. k - 1 |-> c.u[row]]
      <3>1. u["client"] = [row \in Rows |-> u["client"][row]]
        BY <1>4 DEF CallExact
      <3> QED
        BY <1>6, <2>1, <3>1
    <2>3. \A row \in 0 .. k - 1 : Sums(c.u[row], UFull(k, c.m, row)) /\ c.u[row].dom = "time"
      BY <1>2, <1>4, <1>6, <2>1 DEF CallExact, CallDomains
    <2>4. Sums(c.v, VSent(k, c.m, c.intact)) /\ c.v.dom = "time" /\ c.m \in SUBSET Nat
      BY <1>2, <1>4, <1>6 DEF CallExact, CallDomains, VSent
    <2> QED
      BY <1>6, <2>2, <2>3, <2>4 DEF Ciphertext
  <1>8. WireExact'
    BY <1>2, <1>5, <1>7 DEF WireExact
  <1>9. KeyExact' /\ SlotExact' /\ ResultsExact'
    BY <1>1, <1>2, <1>3, KeyExactFrame, SlotExactFrame, ResultsExactFrame DEF ExactInv
  <1>10. CallExact("slot")'
    BY <1>1, <1>2, <1>3, CallExactFrame DEF ExactInv
  <1> QED
    BY <1>1, <1>4, <1>8, <1>9, <1>10 DEF ExactInv, Contexts, Scheme!Contexts

LEMMA DamageExact ==
  ASSUME SchemeInv, ExactInv, Scheme!Damage
  PROVE  ExactInv'
  <1>1. /\ wire # << >> /\ wire[1].intact
        /\ UNCHANGED <<k, full, keygen, secret, t, full_matrix, job, y, u, v_poly, decrypt, sent, results>>
        /\ wire' = [wire EXCEPT ![1] = [wire[1] EXCEPT
                      !.v = Scheme!Add(wire[1].v, Scheme!Atom(<<"damage">>)), !.intact = FALSE]]
    BY DEF Scheme!Damage, Scheme!keyVars, Scheme!encapsVars
  <1>2. PICK c : c = wire[1]
    OBVIOUS
  <1>3. wire = <<c>> /\ Ciphertext(k, c) /\ c.intact = TRUE /\ k \in Nat \ {0} /\ Contexts' = Contexts
    <2>1. wire = <<c>> /\ Ciphertext(k, c) /\ c.intact
      BY <1>1, <1>2 DEF ExactInv, WireExact
    <2>2. c.intact = TRUE
      BY <2>1 DEF Ciphertext
    <2>3. k \in Nat \ {0} /\ Contexts' = Contexts
      BY DEF SchemeInv, KeyStage, Contexts, Scheme!Contexts
    <2> QED
      BY <2>1, <2>2, <2>3
  <1>4. PICK g : g = Scheme!Add(c.v, Scheme!Atom(<<"damage">>))
    OBVIOUS
  <1>5. PICK d : d = [c EXCEPT !.v = g, !.intact = FALSE]
    OBVIOUS
  <1>6. /\ DOMAIN d = {"u", "v", "m", "intact"} /\ d.u = c.u /\ d.v = g /\ d.m = c.m /\ d.intact = FALSE
        /\ wire' = <<d>>
    BY <1>1, <1>2, <1>3, <1>4, <1>5 DEF Ciphertext
  <1>7. Sums(g, VSent(k, c.m, FALSE))
    <2>1. Sums(c.v, VFull(k, c.m)) /\ Sums(Scheme!Atom(<<"damage">>), {{DamageAtom}})
      BY <1>3, SumsSample DEF Ciphertext, VSent, DamageAtom
    <2>2. VFull(k, c.m) \cap {{DamageAtom}} = {}
      BY <1>3, VNext, FreshDisjoint
    <2> QED
      BY <1>4, <2>1, <2>2, SumsAdd DEF VSent
  <1>8. g.dom = "time"
    BY <1>3, <1>4, SampleDomains, SumDomains DEF Ciphertext
  <1>9. Ciphertext(k, d)
    BY <1>3, <1>6, <1>7, <1>8 DEF Ciphertext
  <1>10. WireExact'
    BY <1>1, <1>6, <1>9 DEF WireExact
  <1>11. KeyExact' /\ SlotExact' /\ ResultsExact'
    BY <1>1, KeyExactFrame, SlotExactFrame, ResultsExactFrame DEF ExactInv
  <1>12. \A e \in Contexts : CallExact(e)'
    BY <1>1, CallExactFrame DEF ExactInv
  <1> QED
    BY <1>3, <1>10, <1>11, <1>12 DEF ExactInv

LEMMA ReceiveExact ==
  ASSUME SchemeInv, ExactInv, Scheme!Receive
  PROVE  ExactInv'
  <1>1. "slot" \in Contexts /\ "client" \in Contexts /\ Contexts' = Contexts
    BY DEF Contexts, Scheme!Contexts
  <1>2. /\ wire # << >> /\ job["slot"].pc = "idle" /\ wire' = << >>
        /\ job' = [job EXCEPT !["slot"] = [job["slot"] EXCEPT !.pc = "decrypt", !.i = 0]]
        /\ UNCHANGED <<k, full, keygen, secret, t, full_matrix, y, u, v_poly, sent, results>>
        /\ decrypt' = [decrypt EXCEPT
             !.u = [row \in Rows |-> Scheme!Add(wire[1].u[row], Scheme!Rounding(wire[1].m, row))],
             !.v = Scheme!Add(wire[1].v, Scheme!Rounding(wire[1].m, k)), !.ciphertext = wire]
    BY <1>1 DEF Scheme!Receive, Scheme!keyVars, SchemeInv, Rows, Scheme!Rows
  <1>3. /\ DOMAIN job = Contexts /\ decrypt.poly = Scheme!Zero /\ decrypt.m = {}
        /\ DOMAIN decrypt = {"u", "v", "poly", "m", "ciphertext"}
        /\ DOMAIN job["slot"] = {"pc", "i", "j", "m"} /\ Rows' = Rows /\ Rows = 0 .. k - 1
        /\ k \in {2, 3, 4} /\ k \in Nat \ {0}
    BY <1>1, <1>2, Primed DEF SchemeInv, SlotStage, CallStage, KeyStage, Rows, Scheme!Rows
  <1>4. PICK c : c = wire[1]
    OBVIOUS
  <1>5. wire = <<c>> /\ Ciphertext(k, c)
    BY <1>2, <1>4 DEF ExactInv, WireExact
  <1>6. /\ decrypt'.poly = Scheme!Zero /\ decrypt'.m = {} /\ decrypt'.ciphertext = wire
        /\ \A row \in Rows : decrypt'.u[row] = Scheme!Add(c.u[row], Scheme!Rounding(c.m, row))
        /\ decrypt'.v = Scheme!Add(c.v, Scheme!Rounding(c.m, k))
    BY <1>2, <1>3, <1>4
  <1>7. Received' = c
    BY <1>5, <1>6 DEF Received
  <1>8. \A p : Sums(Scheme!Rounding(c.m, p), {{RoundingAtom(c.m, p)}})
    BY SumsSample DEF Scheme!Rounding, RoundingAtom
  <1>9. \A row \in Rows : Sums(decrypt'.u[row], URounded(k, c.m, row))
    <2> SUFFICES ASSUME NEW row \in Rows
                 PROVE  Sums(decrypt'.u[row], URounded(k, c.m, row))
      OBVIOUS
    <2>1. row \in Nat /\ Sums(c.u[row], UFull(k, c.m, row))
      BY <1>3, <1>5 DEF Ciphertext
    <2>2. UFull(k, c.m, row) \cap {{RoundingAtom(c.m, row)}} = {}
      <3>1. Fresh(RoundingAtom(c.m, row), UFull(k, c.m, row))
        BY <1>3, <2>1, UNext
      <3> QED
        BY <3>1, FreshDisjoint
    <2>3. Sums(Scheme!Rounding(c.m, row), {{RoundingAtom(c.m, row)}})
      BY <1>8
    <2>4. Sums(Scheme!Add(c.u[row], Scheme!Rounding(c.m, row)),
               UFull(k, c.m, row) \cup {{RoundingAtom(c.m, row)}})
      BY <2>1, <2>2, <2>3, SumsAdd
    <2> QED
      BY <1>6, <2>4 DEF URounded
  <1>10. Sums(decrypt'.v, VRounded(k, c.m, c.intact))
    <2>1. Sums(c.v, VSent(k, c.m, c.intact)) /\ c.intact \in BOOLEAN
      BY <1>5 DEF Ciphertext
    <2>2. VSent(k, c.m, c.intact) \cap {{RoundingAtom(c.m, k)}} = {}
      <3>1. Fresh(RoundingAtom(c.m, k), VSent(k, c.m, c.intact))
        BY <1>3, <2>1, VNext
      <3> QED
        BY <3>1, FreshDisjoint
    <2>3. Sums(Scheme!Rounding(c.m, k), {{RoundingAtom(c.m, k)}})
      BY <1>8
    <2>4. Sums(Scheme!Add(c.v, Scheme!Rounding(c.m, k)),
               VSent(k, c.m, c.intact) \cup {{RoundingAtom(c.m, k)}})
      BY <2>1, <2>2, <2>3, SumsAdd
    <2> QED
      BY <1>6, <2>4 DEF VRounded
  <1>11. job'["slot"].pc = "decrypt" /\ job'["slot"].i = 0 /\ job'["slot"].m = job["slot"].m
         /\ job'["client"] = job["client"]
    BY <1>1, <1>2, <1>3
  <1>12. SlotExact'
    <2>1. Sums(decrypt'.poly, PolySums(k, c.m, 0))
      BY <1>6, SumsZero, NoTermsYet
    <2> QED
      BY <1>2, <1>3, <1>5, <1>6, <1>7, <1>9, <1>10, <1>11, <2>1 DEF SlotExact
  <1>13. CallExact("slot")'
    <2>1. CallExact("slot")
      BY <1>1 DEF ExactInv
    <2> QED
      BY <1>2, <1>3, <1>11, <2>1 DEF CallExact
  <1>14. CallExact("client")' /\ KeyExact' /\ WireExact' /\ ResultsExact'
    BY <1>1, <1>2, <1>11, CallExactFrame, KeyExactFrame, ResultsExactFrame DEF ExactInv, WireExact
  <1> QED
    BY <1>1, <1>12, <1>13, <1>14 DEF ExactInv, Contexts, Scheme!Contexts

LEMMA DecryptExact ==
  ASSUME SchemeInv, ExactInv, Scheme!Decrypt
  PROVE  ExactInv'
  <1>1. "slot" \in Contexts /\ "client" \in Contexts /\ Contexts' = Contexts
    BY DEF Contexts, Scheme!Contexts
  <1>2. PICK i0, c : i0 = job["slot"].i /\ c = Received
    OBVIOUS
  <1>3. /\ job["slot"].pc = "decrypt"
        /\ UNCHANGED <<k, full, keygen, secret, t, full_matrix, y, u, v_poly, wire, sent, results>>
    BY DEF Scheme!Decrypt, Scheme!keyVars
  <1>4. /\ SlotExact /\ PairExact /\ CallExact("slot") /\ DOMAIN job = Contexts
        /\ DOMAIN job["slot"] = {"pc", "i", "j", "m"} /\ Rows' = Rows /\ Rows = 0 .. k - 1
        /\ i0 \in 0 .. k /\ k \in {2, 3, 4} /\ k \in Nat \ {0} /\ i0 \in Nat /\ keygen.pc = "ready"
        /\ DOMAIN decrypt = {"u", "v", "poly", "m", "ciphertext"}
    <2>1. /\ CallStage("slot") /\ SlotStage /\ k \in {2, 3, 4} /\ DOMAIN job = Contexts
          /\ SlotExact /\ PairExact /\ CallExact("slot")
      BY <1>1 DEF SchemeInv, KeyStage, ExactInv, KeyExact
    <2>2. Rows' = Rows /\ Rows = 0 .. k - 1
      BY <1>3, Primed DEF Rows, Scheme!Rows
    <2> QED
      BY <1>1, <1>2, <1>3, <2>1, <2>2 DEF CallStage, SlotStage
  <1>5. /\ Ciphertext(k, c) /\ decrypt.m = {}
        /\ \A row \in Rows : row < i0 \/ Sums(decrypt.u[row], URounded(k, c.m, row))
        /\ Sums(decrypt.v, VRounded(k, c.m, c.intact)) /\ Sums(decrypt.poly, PolySums(k, c.m, i0))
    BY <1>2, <1>3, <1>4 DEF SlotExact
  <1>6. job'["client"] = job["client"]
    <2>1. \E new : job' = [job EXCEPT !["slot"] = new]
      BY DEF Scheme!Decrypt
    <2> QED
      BY <2>1
  <1>7. CallExact("client")' /\ KeyExact' /\ WireExact' /\ ResultsExact'
    BY <1>1, <1>3, <1>6, CallExactFrame, KeyExactFrame, WireExactFrame, ResultsExactFrame DEF ExactInv
  <1>8. CASE i0 < k
    <2> DEFINE product == Scheme!Multiply(Scheme!Ntt(decrypt.u[i0]), secret[i0])
               sum == Scheme!Add(decrypt.poly, product)
               more == Times(URounded(k, c.m, i0), KeyAtom(k, i0))
    <2>1. /\ decrypt' = [decrypt EXCEPT !.u[i0] = product, !.poly = sum]
          /\ job' = [job EXCEPT !["slot"].i = i0 + 1]
      BY <1>2, <1>4, <1>8 DEF Scheme!Decrypt
    <2>2. i0 \in Rows /\ ~(i0 < i0)
      BY <1>4, <1>8
    <2>3. Sums(Scheme!Ntt(decrypt.u[i0]), URounded(k, c.m, i0)) /\ Sums(secret[i0], {{KeyAtom(k, i0)}})
      BY <1>4, <1>5, <2>2, SumsTransform DEF PairExact
    <2>4. /\ Fresh(KeyAtom(k, i0), URounded(k, c.m, i0)) /\ Fresh(KeyAtom(k, i0), PolySums(k, c.m, i0))
          /\ PolySums(k, c.m, i0 + 1) = PolySums(k, c.m, i0) \cup more
      BY <1>4, PolyNext
    <2>5. Sums(product, more)
      BY <2>3, <2>4, SumsMultiply
    <2>6. PolySums(k, c.m, i0) \cap more = {}
      BY <2>4, FreshDisjoint
    <2> HIDE DEF product, more
    <2>7. Sums(sum, PolySums(k, c.m, i0 + 1))
      BY <1>5, <2>4, <2>5, <2>6, SumsAdd
    <2> HIDE DEF sum
    <2>8. /\ decrypt'.poly = sum /\ decrypt'.v = decrypt.v /\ decrypt'.m = {}
          /\ decrypt'.ciphertext = decrypt.ciphertext
          /\ \A row \in Rows : row # i0 => decrypt'.u[row] = decrypt.u[row]
      BY <1>4, <1>5, <2>1
    <2>9. job'["slot"].pc = "decrypt" /\ job'["slot"].i = i0 + 1 /\ job'["slot"].m = job["slot"].m
      BY <1>1, <1>3, <1>4, <2>1
    <2>10. \A row \in Rows : row < i0 + 1 \/ Sums(decrypt'.u[row], URounded(k, c.m, row))
      <3> SUFFICES ASSUME NEW row \in Rows, ~(row < i0 + 1)
                   PROVE  Sums(decrypt'.u[row], URounded(k, c.m, row))
        OBVIOUS
      <3>1. row # i0 /\ ~(row < i0)
        BY <1>4
      <3> QED
        BY <1>5, <2>8, <3>1
    <2>11. Received' = c
      BY <1>2, <2>8 DEF Received
    <2>12. SlotExact'
      BY <1>3, <1>4, <1>5, <2>7, <2>8, <2>9, <2>10, <2>11 DEF SlotExact
    <2>13. CallExact("slot")'
      BY <1>3, <1>4, <2>9 DEF CallExact
    <2> QED
      BY <1>1, <1>7, <2>12, <2>13 DEF ExactInv, Contexts, Scheme!Contexts
  <1>9. CASE ~(i0 < k)
    <2> DEFINE rest == Scheme!Sub(decrypt.v, Scheme!Intt(decrypt.poly))
    <2>1. Legible(rest, c.m) /\ Scheme!Decoded(rest) = c.m /\ c.m \in SUBSET Nat
      <3>1. i0 = k /\ c.intact \in BOOLEAN /\ c.m \in SUBSET Nat
        BY <1>4, <1>5, <1>9 DEF Ciphertext
      <3>2. Sums(Scheme!Intt(decrypt.poly), PolySums(k, c.m, k))
        BY <1>5, <3>1, SumsTransform
      <3> QED
        BY <1>4, <1>5, <3>1, <3>2, Decrypted
    <2>2. /\ decrypt' = [decrypt EXCEPT !.poly = rest, !.m = decrypt.m \cup Scheme!Decoded(rest)]
          /\ job' = [job EXCEPT !["slot"] = [pc |-> "y", i |-> 0, j |-> 0, m |-> decrypt.m \cup Scheme!Decoded(rest)]]
      BY <1>2, <1>9 DEF Scheme!Decrypt
    <2> HIDE DEF rest
    <2>3. decrypt.m \cup Scheme!Decoded(rest) = c.m
      BY <1>5, <2>1
    <2>4. decrypt'.poly = rest /\ decrypt'.ciphertext = decrypt.ciphertext
      BY <1>4, <2>2
    <2>5. job'["slot"] = [pc |-> "y", i |-> 0, j |-> 0, m |-> c.m]
      BY <1>1, <1>4, <2>2, <2>3
    <2>6. job'["slot"].pc = "y" /\ job'["slot"].i = 0 /\ job'["slot"].m = c.m
      BY <2>5
    <2>7. Received' = c
      BY <1>2, <2>4 DEF Received
    <2>8. SlotExact'
      BY <1>3, <1>5, <2>1, <2>4, <2>6, <2>7 DEF SlotExact
    <2>9. CallExact("slot")'
      <3>1. \A row \in Rows : ~(row < 0)
        BY <1>4
      <3> QED
        BY <1>3, <1>4, <2>1, <2>6, <3>1 DEF CallExact
    <2> QED
      BY <1>1, <1>7, <2>8, <2>9 DEF ExactInv, Contexts, Scheme!Contexts
  <1> QED
    BY <1>8, <1>9

\* A re-encryption equals the ciphertext exactly when that is intact.
LEMMA SameWhenIntact ==
  ASSUME NEW l \in Nat \ {0}, NEW c, Ciphertext(l, c), NEW g, NEW h,
         g = [row \in 0 .. l - 1 |-> g[row]],
         \A row \in 0 .. l - 1 : Sums(g[row], UFull(l, c.m, row)) /\ g[row].dom = "time",
         Sums(h, VFull(l, c.m)), h.dom = "time"
  PROVE  (g = c.u /\ h = c.v) <=> c.intact
  <1>1. \A row \in 0 .. l - 1 : g[row] = c.u[row]
    BY SumsEqual DEF Ciphertext
  <1>2. g = c.u
    BY <1>1 DEF Ciphertext
  <1>3. CASE c.intact
    BY <1>2, <1>3, SumsEqual DEF Ciphertext, VSent
  <1>4. CASE ~c.intact
    <2>1. Sums(c.v, VFull(l, c.m) \cup {{DamageAtom}})
      BY <1>4 DEF Ciphertext, VSent
    <2>2. {DamageAtom} \notin VFull(l, c.m)
      <3>1. Fresh(DamageAtom, VFull(l, c.m))
        BY VNext
      <3>2. DamageAtom \in {DamageAtom}
        OBVIOUS
      <3> QED
        BY <3>1, <3>2 DEF Fresh
    <2>3. Product({DamageAtom}) \in Monomials(c.v) /\ Product({DamageAtom}) \notin Monomials(h)
      BY <2>1, <2>2, SumsAt
    <2> QED
      BY <1>4, <2>3
  <1> QED
    BY <1>3, <1>4

LEMMA SelectExact ==
  ASSUME SchemeInv, DomainInv, ExactInv, Scheme!Select
  PROVE  ExactInv'
  <1>1. "slot" \in Contexts /\ "client" \in Contexts /\ Contexts' = Contexts
    BY DEF Contexts, Scheme!Contexts
  <1>2. /\ job["slot"].pc = "done" /\ Scheme!WipeEncaps("slot")
        /\ UNCHANGED <<k, full, keygen, secret, t, full_matrix, wire, sent>>
        /\ decrypt' = [Scheme!DecryptWiped EXCEPT !.ciphertext = << >>]
    BY DEF Scheme!Select, Scheme!keyVars
  <1>3. PICK c, msg : c = Received /\ msg = job["slot"].m
    OBVIOUS
  <1>4. PICK answer :
          /\ answer = [m |-> c.m, intact |-> c.intact,
                       key |-> IF u["slot"] = c.u /\ v_poly["slot"] = c.v THEN msg ELSE {}]
          /\ results' = Append(results, answer)
    BY <1>3 DEF Scheme!Select, Received
  <1>5. Ciphertext(k, c) /\ msg = c.m
    BY <1>2, <1>3 DEF ExactInv, SlotExact
  <1>6. (u["slot"] = c.u /\ v_poly["slot"] = c.v) <=> c.intact
    <2>1. k \in Nat \ {0} /\ Rows = 0 .. k - 1 /\ CallExact("slot") /\ CallDomains("slot")
      BY <1>1 DEF SchemeInv, KeyStage, Rows, Scheme!Rows, ExactInv, DomainInv
    <2>2. /\ u["slot"] = [row \in 0 .. k - 1 |-> u["slot"][row]]
          /\ \A row \in 0 .. k - 1 : Sums(u["slot"][row], UFull(k, c.m, row)) /\ u["slot"][row].dom = "time"
          /\ Sums(v_poly["slot"], VFull(k, c.m)) /\ v_poly["slot"].dom = "time"
      BY <1>2, <1>3, <1>5, <2>1 DEF CallExact, CallDomains
    <2> QED
      BY <1>5, <2>1, <2>2, SameWhenIntact
  <1>7. answer \in Answers /\ answer.key = IF answer.intact THEN answer.m ELSE {}
    BY <1>4, <1>5, <1>6 DEF Answers, Ciphertext
  <1>8. ResultsExact'
    <2>1. results \in Seq(Answers) /\ Scheme!KeysAgree /\ sent \in Nat
      BY DEF ExactInv, ResultsExact
    <2>2. /\ results' \in Seq(Answers) /\ DOMAIN results = 1 .. Len(results)
          /\ DOMAIN results' = 1 .. Len(results) + 1 /\ Len(results) \in Nat
          /\ \A e \in 1 .. Len(results) : results'[e] = results[e]
          /\ results'[Len(results) + 1] = answer
      BY <1>4, <1>7, <2>1
    <2>3. \A e \in DOMAIN results' : e \in DOMAIN results \/ e = Len(results) + 1
      BY <2>2
    <2>4. Scheme!KeysAgree'
      BY <1>7, <2>1, <2>2, <2>3 DEF Scheme!KeysAgree
    <2> QED
      BY <1>2, <2>1, <2>2, <2>4 DEF ResultsExact
  <1>9. /\ CallExact("slot")' /\ job'["slot"].pc = "idle"
        /\ \A d \in Contexts : d # "slot" => /\ job'[d] = job[d] /\ y'[d] = y[d]
                                             /\ u'[d] = u[d] /\ v_poly'[d] = v_poly[d]
    BY <1>1, <1>2, WipeEncapsCleans, IdleExact
  <1>10. SlotExact'
    BY <1>9 DEF SlotExact
  <1>11. CallExact("client")' /\ KeyExact' /\ WireExact'
    BY <1>1, <1>2, <1>9, CallExactFrame, KeyExactFrame, WireExactFrame DEF ExactInv
  <1> QED
    BY <1>1, <1>8, <1>9, <1>10, <1>11 DEF ExactInv, Contexts, Scheme!Contexts

LEMMA ExactStart ==
  ASSUME Scheme!Init
  PROVE  ExactInv
  <1>1. /\ keygen = [pc |-> "secret", i |-> 0, j |-> 0] /\ t = [row \in Rows |-> Scheme!Zero]
        /\ job = [c \in Contexts |-> [pc |-> "idle", i |-> 0, j |-> 0, m |-> {}]]
        /\ u = [c \in Contexts |-> [row \in Rows |-> Scheme!Zero]]
        /\ wire = << >> /\ sent = 0 /\ results = << >> /\ Rows = 0 .. k - 1
    BY DEF Scheme!Init, Rows, Contexts, Scheme!Rows
  <1>2. keygen.pc = "secret" /\ keygen.i = 0
    BY <1>1
  <1>3. KeyExact /\ WireExact
    <2>1. \A row \in Rows : ~(row < 0) /\ Sums(t[row], {})
      BY <1>1, SumsZero
    <2> QED
      BY <1>1, <1>2, <2>1 DEF KeyExact, PairExact, MatrixExact, WireExact
  <1>4. \A c \in Contexts : job[c].pc = "idle" /\ job[c].m = {} /\ u[c] = [row \in Rows |-> Scheme!Zero]
    BY <1>1
  <1>5. \A c \in Contexts : u[c] = [row \in Rows |-> u[c][row]]
    BY <1>4
  <1>6. \A c \in Contexts : CallExact(c)
    BY <1>4, <1>5 DEF CallExact
  <1>7. SlotExact
    BY <1>4 DEF SlotExact, Contexts, Scheme!Contexts
  <1>8. ResultsExact
    <2>1. << >> \in Seq(Answers) /\ DOMAIN << >> = {}
      OBVIOUS
    <2> QED
      BY <1>1, <2>1 DEF ResultsExact, Scheme!KeysAgree
  <1> QED
    BY <1>3, <1>6, <1>7, <1>8 DEF ExactInv

LEMMA ExactStep ==
  ASSUME SchemeInv, DomainInv, ExactInv, Scheme!Next
  PROVE  ExactInv'
  <1>1. Scheme!CreateSecret \/ Scheme!CreatePublic \/ Scheme!FillMatrix => ExactInv'
    BY CreateSecretExact, CreatePublicExact, FillMatrixExact
  <1>2. Scheme!StartClient \/ Scheme!Send \/ Scheme!Damage => ExactInv'
    BY StartClientExact, SendExact, DamageExact
  <1>3. Scheme!Receive \/ Scheme!Decrypt \/ Scheme!Select => ExactInv'
    BY ReceiveExact, DecryptExact, SelectExact
  <1>4. ASSUME NEW c \in Contexts, Scheme!CreateY(c) \/ Scheme!CreateU(c) \/ Scheme!CreateV(c)
        PROVE  ExactInv'
    BY <1>4, CreateYExact, CreateUExact, CreateVExact
  <1> QED
    BY <1>1, <1>2, <1>3, <1>4 DEF Scheme!Next, Contexts

LEMMA ExactFrame ==
  ASSUME ExactInv, UNCHANGED schemeVars
  PROVE  ExactInv'
  <1>1. UNCHANGED <<k, full, keygen, secret, t, full_matrix, job, y, u, v_poly, decrypt, wire, sent, results>>
    BY DEF schemeVars
  <1>2. KeyExact'
    BY <1>1, KeyExactFrame DEF ExactInv
  <1> QED
    BY <1>1, <1>2, KeyGenerationExact

LEMMA SchemeExact == PrimitivesSpec => [](part = "scheme" => SchemeInv /\ DomainInv /\ ExactInv)
  <1> DEFINE Kept == part = "scheme" => SchemeInv /\ DomainInv /\ ExactInv
  <1>1. PrimitivesInit => Kept
    BY SchemeStarts, DomainsStart, ExactStart DEF PrimitivesInit
  <1>2. Kept /\ [PrimitivesNext]_primitiveVars => Kept'
    <2> SUFFICES ASSUME Kept, [PrimitivesNext]_primitiveVars
                 PROVE  Kept'
      OBVIOUS
    <2>1. CASE RunScheme(Scheme!Next)
      BY <2>1, SchemeStep, DomainsStep, ExactStep DEF RunScheme
    <2>2. CASE RunResidues(Next) \/ RunNtt(Transforming!Next) \/ RunCbd(Noise!Next)
               \/ RunKeccak(Permutation!Next)
      BY <2>2 DEF RunResidues, RunNtt, RunCbd, RunKeccak
    <2>3. CASE UNCHANGED primitiveVars
      BY <2>3, SchemeFrame, DomainsFrame, ExactFrame DEF primitiveVars
    <2> QED
      BY <2>1, <2>2, <2>3 DEF PrimitivesNext
  <1> QED
    BY <1>1, <1>2, PTL DEF PrimitivesSpec

\* The three algorithms fit together for any number of messages and of changed
\* ciphertexts, at every level and with either build's matrix: all terms with a
\* matrix polynomial cancel in decryption, what is left is the message and noise
\* with at most one factor of the key's, every call starts clean, and the result
\* is the client's key for an intact ciphertext and the fallback for a changed
\* one (ml_kem_create_keys.c, ml_kem_encaps.c, ml_kem_decrypt.c, ml_kem_decaps.c).
THEOREM KeysAlwaysAgree == PrimitivesSpec => []AlgorithmsAgree
  <1>1. (part = "scheme" => SchemeInv /\ DomainInv /\ ExactInv)
          /\ (part = "scheme" => Scheme!TypeOK) /\ (part = "scheme" => Scheme!StartsClean) => AlgorithmsAgree
    <2> SUFFICES ASSUME SchemeInv, DomainInv, ExactInv
                 PROVE  Scheme!DecryptsToMessage /\ Scheme!KeysAgree
      BY DEF AlgorithmsAgree, Scheme!AlgorithmsAgree
    <2>1. Scheme!DecryptsToMessage
      <3> SUFFICES ASSUME job["slot"].pc = "y"
                   PROVE  Legible(decrypt.poly, Received.m)
        BY DEF Scheme!DecryptsToMessage, Legible, Received, Product, MessageAtom, Monomials, Scheme!BagToSet
      <3> QED
        BY DEF ExactInv, SlotExact
    <2>2. Scheme!KeysAgree
      BY DEF ExactInv, ResultsExact
    <2> QED
      BY <2>1, <2>2
  <1> QED
    BY <1>1, SchemeExact, DomainsAgree, CallsStartClean, PTL

-----------------------------------------------------------------------------
(* Keccak-f: the step mappings *)

Lanes == Permutation!Lanes
LaneBits == Permutation!Bits
Xor(a, b) == Permutation!(+)(a, b)

LEMMA InXor == \A a, b, e : (e \in Xor(a, b)) = ((e \in a) # (e \in b))
  BY DEF Xor, Permutation!(+)

LEMMA XorInLane ==
  ASSUME NEW a \in SUBSET LaneBits, NEW b \in SUBSET LaneBits
  PROVE  Xor(a, b) \in SUBSET LaneBits
  BY DEF Xor, Permutation!(+)

LEMMA RotatedIs ==
  ASSUME NEW a \in SUBSET LaneBits, NEW num \in 0 .. 63
  PROVE  /\ Permutation!rotl64(a, num) \in SUBSET LaneBits
         /\ \A z \in LaneBits : (z \in Permutation!rotl64(a, num)) = ((z + 64 - num) % 64 \in a)
  <1>1. \A b \in LaneBits : (b + num) % 64 \in LaneBits
    BY DEF LaneBits, Permutation!Bits
  <1>2. \A b \in LaneBits, z \in LaneBits : z = (b + num) % 64 <=> b = (z + 64 - num) % 64
    BY SMTT(60) DEF LaneBits, Permutation!Bits
  <1>3. \A z \in LaneBits : (z + 64 - num) % 64 \in LaneBits
    BY DEF LaneBits, Permutation!Bits
  <1> QED
    BY <1>1, <1>2, <1>3 DEF Permutation!rotl64

LEMMA LaneIs ==
  ASSUME NEW x \in 0 .. 4, NEW row \in 0 .. 4
  PROVE  /\ x + 5 * row \in 0 .. 24
         /\ (x + 5 * row) % 5 = x /\ (x + 5 * row) \div 5 = row
  BY SMT

\* One more lane in the column turns the parity over if its bit is one.
OddUpTo(X, e) == Cardinality(X \cap 0 .. e) % 2 = 1

LEMMA ParityStep ==
  ASSUME NEW X, NEW e \in 0 .. 4
  PROVE  OddUpTo(X, e) = (OddUpTo(X, e - 1) # (e \in X))
  <1> DEFINE before == X \cap 0 .. e - 1
             now == X \cap 0 .. e
  <1>1. IsFiniteSet(before) /\ IsFiniteSet(now)
    <2>1. IsFiniteSet(0 .. e - 1) /\ IsFiniteSet(0 .. e)
      BY FS_Interval
    <2> QED
      BY <2>1, FS_Subset
  <1>2. Cardinality(before) \in Nat /\ Cardinality(now) \in Nat
    BY <1>1, FS_CardinalityType
  <1> DEFINE after == Cardinality(now)
             prior == Cardinality(before)
  <1>4. OddUpTo(X, e) = (after % 2 = 1) /\ OddUpTo(X, e - 1) = (prior % 2 = 1)
    BY DEF OddUpTo
  <1>3. CASE e \in X
    <2>1. now = before \cup {e} /\ e \notin before
      BY <1>3
    <2>2. Cardinality(now) = Cardinality(before) + 1
      BY <1>1, <2>1, FS_AddElement
    <2> HIDE DEF before, now
    <2>3. (after % 2 = 1) = ~(prior % 2 = 1)
      BY <1>2, <2>2
    <2> HIDE DEF after, prior
    <2> QED
      BY <1>4, <1>3, <2>3
  <1>5. CASE e \notin X
    <2>1. after = prior
      <3>1. now = before
        BY <1>5
      <3> QED
        BY <3>1
    <2> HIDE DEF before, now, after, prior
    <2> QED
      BY <1>4, <1>5, <2>1
  <1> QED
    BY <1>3, <1>5

LEMMA ParityOfFive ==
  ASSUME NEW X, X \subseteq 0 .. 4
  PROVE  (Permutation!Cardinality(X) % 2 = 1)
           = (((((0 \in X) # (1 \in X)) # (2 \in X)) # (3 \in X)) # (4 \in X))
  <1>1. Permutation!Cardinality(X) = Cardinality(X)
    BY DEF Permutation!Cardinality, Cardinality
  <1>2. OddUpTo(X, 4) = (Cardinality(X) % 2 = 1)
    <2>1. X \cap 0 .. 4 = X
      OBVIOUS
    <2> QED
      BY <2>1 DEF OddUpTo
  <1>3. ~ OddUpTo(X, 0 - 1)
    <2>1. X \cap 0 .. 0 - 1 = {}
      OBVIOUS
    <2>2. Cardinality({}) = 0
      BY FS_EmptySet
    <2> QED
      BY <2>1, <2>2 DEF OddUpTo
  <1>4. \A e \in 0 .. 4 : OddUpTo(X, e) = (OddUpTo(X, e - 1) # (e \in X))
    BY ParityStep
  <1>5. OddUpTo(X, 0) = (0 \in X)
    <2>1. OddUpTo(X, 0) = (OddUpTo(X, 0 - 1) # (0 \in X))
      BY <1>4
    <2>2. OddUpTo(X, 0) \in BOOLEAN /\ OddUpTo(X, 0 - 1) \in BOOLEAN
      BY DEF OddUpTo
    <2> QED
      BY <1>3, <2>1, <2>2
  <1>6. OddUpTo(X, 1) = (OddUpTo(X, 0) # (1 \in X))
    <2>1. OddUpTo(X, 1) = (OddUpTo(X, 1 - 1) # (1 \in X))
      BY <1>4
    <2> QED
      BY <2>1
  <1>7. OddUpTo(X, 2) = (OddUpTo(X, 1) # (2 \in X))
    <2>1. OddUpTo(X, 2) = (OddUpTo(X, 2 - 1) # (2 \in X))
      BY <1>4
    <2> QED
      BY <2>1
  <1>8. OddUpTo(X, 3) = (OddUpTo(X, 2) # (3 \in X))
    <2>1. OddUpTo(X, 3) = (OddUpTo(X, 3 - 1) # (3 \in X))
      BY <1>4
    <2> QED
      BY <2>1
  <1>9. OddUpTo(X, 4) = (OddUpTo(X, 3) # (4 \in X))
    <2>1. OddUpTo(X, 4) = (OddUpTo(X, 4 - 1) # (4 \in X))
      BY <1>4
    <2> QED
      BY <2>1
  <1> QED
    BY <1>1, <1>2, <1>5, <1>6, <1>7, <1>8, <1>9

KeccakTyped == Permutation!TypeOK

\* Bit (x, row, z) of the lanes.
BitAt(x, row, z) == z \in s[x + 5 * row]

LEMMA BitIs ==
  ASSUME NEW x, NEW row, NEW z
  PROVE  Permutation!A(x, row, z) = BitAt(x, row, z)
  BY DEF Permutation!A, BitAt

LEMMA ThetaStandard ==
  ASSUME KeccakTyped, step = "theta", s' = Permutation!keccak_theta(s)
  PROVE  Permutation!StepsFollowStandard /\ s' \in [Lanes -> SUBSET LaneBits]
  <1> DEFINE col == [x \in 0 .. 4 |-> Xor(Xor(Xor(Xor(s[x], s[x + 5]), s[x + 10]), s[x + 15]), s[x + 20])]
             diff == [x \in 0 .. 4 |-> Xor(col[(x + 4) % 5], Permutation!rotl64(col[(x + 1) % 5], 1))]
  <1>1. s' = [l \in Lanes |-> Xor(s[l], diff[l % 5])]
    BY DEF Permutation!keccak_theta, Xor, Lanes
  <1>2. s \in [Lanes -> SUBSET LaneBits] /\ Lanes = 0 .. 24 /\ LaneBits = 0 .. 63
    BY DEF KeccakTyped, Permutation!TypeOK, Lanes, LaneBits, Permutation!Lanes, Permutation!Bits
  <1>3. ASSUME NEW x \in 0 .. 4
        PROVE  /\ col[x] \in SUBSET LaneBits
               /\ \A z : (z \in col[x]) = (((((BitAt(x, 0, z) # BitAt(x, 1, z)) # BitAt(x, 2, z))
                                             # BitAt(x, 3, z)) # BitAt(x, 4, z)))
    <2>1. /\ x + 5 * 0 = x /\ x + 5 * 1 = x + 5 /\ x + 5 * 2 = x + 10 /\ x + 5 * 3 = x + 15 /\ x + 5 * 4 = x + 20
          /\ x \in Lanes /\ x + 5 \in Lanes /\ x + 10 \in Lanes /\ x + 15 \in Lanes /\ x + 20 \in Lanes
      BY <1>2
    <2>2. col[x] = Xor(Xor(Xor(Xor(s[x], s[x + 5]), s[x + 10]), s[x + 15]), s[x + 20])
      OBVIOUS
    <2> HIDE DEF col
    <2>3. col[x] \in SUBSET LaneBits
      BY <1>2, <2>1, <2>2, XorInLane
    <2>4. ASSUME NEW z
          PROVE  (z \in col[x]) = (((((BitAt(x, 0, z) # BitAt(x, 1, z)) # BitAt(x, 2, z))
                                             # BitAt(x, 3, z)) # BitAt(x, 4, z)))
      BY <2>1, <2>2, InXor DEF BitAt
    <2> QED
      BY <2>3, <2>4
  <1>4. ASSUME NEW x \in 0 .. 4, NEW z
        PROVE  Permutation!Odd(x, z) = (z \in col[x])
    <2> DEFINE X == {row \in 0 .. 4 : Permutation!A(x, row, z)}
    <2>1. Permutation!Odd(x, z) = (Permutation!Cardinality(X) % 2 = 1)
      BY DEF Permutation!Odd
    <2>2. X \subseteq 0 .. 4 /\ \A row \in 0 .. 4 : (row \in X) = BitAt(x, row, z)
      BY DEF Permutation!A, BitAt
    <2>3. (Permutation!Cardinality(X) % 2 = 1)
            = (((((0 \in X) # (1 \in X)) # (2 \in X)) # (3 \in X)) # (4 \in X))
      BY <2>2, ParityOfFive
    <2> HIDE DEF X, col
    <2> QED
      BY <1>3, <2>1, <2>2, <2>3
  <1> HIDE DEF col
  <1>5. ASSUME NEW x \in 0 .. 4
        PROVE  /\ diff[x] \in SUBSET LaneBits
               /\ \A z \in LaneBits : (z \in diff[x]) =
                    (Permutation!Odd((x + 4) % 5, z) # Permutation!Odd((x + 1) % 5, (z + 63) % 64))
    <2>1. /\ (x + 4) % 5 \in 0 .. 4 /\ (x + 1) % 5 \in 0 .. 4 /\ 1 \in 0 .. 63
          /\ \A z \in LaneBits : z + 64 - 1 = z + 63
      BY <1>2
    <2>2. diff[x] = Xor(col[(x + 4) % 5], Permutation!rotl64(col[(x + 1) % 5], 1))
      OBVIOUS
    <2> HIDE DEF diff
    <2>3. /\ col[(x + 4) % 5] \in SUBSET LaneBits /\ col[(x + 1) % 5] \in SUBSET LaneBits
      BY <1>3, <2>1
    <2>4. /\ Permutation!rotl64(col[(x + 1) % 5], 1) \in SUBSET LaneBits
          /\ \A z \in LaneBits : (z \in Permutation!rotl64(col[(x + 1) % 5], 1))
                                   = ((z + 63) % 64 \in col[(x + 1) % 5])
      BY <2>1, <2>3, RotatedIs
    <2>5. diff[x] \in SUBSET LaneBits
      BY <2>2, <2>3, <2>4, XorInLane
    <2> QED
      BY <1>4, <2>1, <2>2, <2>4, <2>5, InXor
  <1> HIDE DEF diff
  <1>6. \A l \in Lanes : l % 5 \in 0 .. 4
    BY <1>2
  <1>7. s' \in [Lanes -> SUBSET LaneBits]
    BY <1>1, <1>2, <1>5, <1>6, XorInLane
  <1>8. ASSUME NEW x \in 0 .. 4, NEW row \in 0 .. 4, NEW z \in LaneBits
        PROVE  (z \in s'[x + 5 * row]) = Permutation!StandardBit(x, row, z)
    <2>1. x + 5 * row \in Lanes /\ (x + 5 * row) % 5 = x
      BY <1>2, LaneIs
    <2>2. s'[x + 5 * row] = Xor(s[x + 5 * row], diff[x])
      BY <1>1, <2>1
    <2>3. (z \in s'[x + 5 * row]) = (BitAt(x, row, z) # (z \in diff[x]))
      BY <2>2, InXor DEF BitAt
    <2>4. Permutation!StandardBit(x, row, z) =
            ((BitAt(x, row, z) # Permutation!Odd((x + 4) % 5, z)) # Permutation!Odd((x + 1) % 5, (z + 63) % 64))
      BY BitIs DEF Permutation!StandardBit
    <2>5. /\ Permutation!Odd((x + 4) % 5, z) \in BOOLEAN
          /\ Permutation!Odd((x + 1) % 5, (z + 63) % 64) \in BOOLEAN
          /\ BitAt(x, row, z) \in BOOLEAN
      BY DEF Permutation!Odd, BitAt
    <2>6. (z \in diff[x]) =
            (Permutation!Odd((x + 4) % 5, z) # Permutation!Odd((x + 1) % 5, (z + 63) % 64))
      BY <1>5
    <2> QED
      BY <2>3, <2>4, <2>5, <2>6
  <1> QED
    BY <1>7, <1>8 DEF Permutation!StepsFollowStandard, LaneBits

LEMMA ChiStandard ==
  ASSUME KeccakTyped, step = "chi", s' = Permutation!keccak_chi(s)
  PROVE  Permutation!StepsFollowStandard /\ s' \in [Lanes -> SUBSET LaneBits]
  <1> DEFINE first(l) == 5 * (l \div 5)
             more(l) == s[first(l) + ((l + 2) % 5)] \ s[first(l) + ((l + 1) % 5)]
  <1>1. s' = [l \in Lanes |-> Xor(s[l], more(l))]
    BY DEF Permutation!keccak_chi, Xor, Lanes
  <1>2. s \in [Lanes -> SUBSET LaneBits] /\ Lanes = 0 .. 24
    BY DEF KeccakTyped, Permutation!TypeOK, Lanes, LaneBits, Permutation!Lanes
  <1>3. \A l \in Lanes : first(l) + ((l + 2) % 5) \in Lanes
    BY <1>2
  <1>4. \A l \in Lanes : more(l) \in SUBSET LaneBits
    BY <1>2, <1>3
  <1>5. ASSUME NEW x \in 0 .. 4, NEW row \in 0 .. 4, NEW z \in LaneBits
        PROVE  (z \in s'[x + 5 * row]) = Permutation!StandardBit(x, row, z)
    <2> DEFINE lane == x + 5 * row
    <2>1. /\ lane \in Lanes /\ first(lane) = 5 * row
          /\ (lane + 2) % 5 = (x + 2) % 5 /\ (lane + 1) % 5 = (x + 1) % 5
          /\ 5 * row + ((x + 2) % 5) = ((x + 2) % 5) + 5 * row
          /\ 5 * row + ((x + 1) % 5) = ((x + 1) % 5) + 5 * row
      BY <1>2, SMT
    <2>2. more(lane) = s[((x + 2) % 5) + 5 * row] \ s[((x + 1) % 5) + 5 * row]
      BY <2>1
    <2>3. s'[lane] = Xor(s[lane], more(lane))
      BY <1>1, <2>1
    <2> HIDE DEF more, first
    <2>4. (z \in s'[lane]) = (BitAt(x, row, z)
             # (~BitAt((x + 1) % 5, row, z) /\ BitAt((x + 2) % 5, row, z)))
      BY <2>2, <2>3, InXor DEF BitAt
    <2> HIDE DEF lane
    <2>5. Permutation!StandardBit(x, row, z) = (BitAt(x, row, z)
             # (~BitAt((x + 1) % 5, row, z) /\ BitAt((x + 2) % 5, row, z)))
      BY BitIs DEF Permutation!StandardBit
    <2> QED
      BY <2>4, <2>5 DEF lane
  <1> HIDE DEF more, first
  <1>6. s' \in [Lanes -> SUBSET LaneBits]
    BY <1>1, <1>2, <1>4, XorInLane
  <1> QED
    BY <1>5, <1>6 DEF Permutation!StepsFollowStandard, LaneBits

\* The lanes in the order in which rho visits them.
Path == <<
  <<1, 0>>, <<0, 2>>, <<2, 1>>, <<1, 2>>, <<2, 3>>, <<3, 3>>, <<3, 0>>, <<0, 1>>,
  <<1, 3>>, <<3, 1>>, <<1, 4>>, <<4, 4>>, <<4, 0>>, <<0, 3>>, <<3, 4>>, <<4, 3>>,
  <<3, 2>>, <<2, 2>>, <<2, 0>>, <<0, 4>>, <<4, 2>>, <<2, 4>>, <<4, 1>>, <<1, 1>>>>

VisitStep(num, before) == IF num = 0 THEN <<1, 0>> ELSE <<before[2], (2 * before[1] + 3 * before[2]) % 5>>

LEMMA VisitedIs == \A num \in 0 .. 23 : Permutation!Visited[num] = Path[num + 1]
  <1> DEFINE rec(g) == [num \in 0 .. 23 |-> VisitStep(num, g[num - 1])]
             path == [num \in 0 .. 23 |-> Path[num + 1]]
             visited == CHOOSE g : g = rec(g)
  <1>1. Permutation!Visited = visited
    BY DEF Permutation!Visited, VisitStep
  <1>2. Path[1] = <<1, 0>> /\ \A num \in 1 .. 23 : Path[num + 1] = VisitStep(num, Path[num])
    BY SMTT(60) DEF Path, VisitStep
  <1>3. path = rec(path)
    <2>1. ASSUME NEW num \in 0 .. 23
          PROVE  path[num] = VisitStep(num, path[num - 1])
      <3>1. CASE num = 0
        BY <1>2, <3>1 DEF VisitStep
      <3>2. CASE num \in 1 .. 23
        <4>1. num - 1 \in 0 .. 23 /\ num - 1 + 1 = num
          BY <3>2
        <4> QED
          BY <1>2, <3>2, <4>1
      <3> QED
        BY <3>1, <3>2
    <2> QED
      BY <2>1
  <1>4. visited = rec(visited)
    BY <1>3
  <1> HIDE DEF visited
  <1>5. visited[0] = Path[1]
    BY <1>2, <1>4 DEF VisitStep
  <1>6. ASSUME NEW num \in 0 .. 22, visited[num] = Path[num + 1]
        PROVE  visited[num + 1] = Path[num + 1 + 1]
    <2>1. num + 1 \in 0 .. 23 /\ num + 1 \in 1 .. 23 /\ num + 1 - 1 = num
      OBVIOUS
    <2>2. visited[num + 1] = VisitStep(num + 1, visited[num])
      BY <1>4, <2>1
    <2> QED
      BY <1>2, <1>6, <2>1, <2>2
  <1> DEFINE wrong == {num \in 0 .. 23 : visited[num] # Path[num + 1]}
  <1>7. wrong = {}
    <2> SUFFICES ASSUME wrong # {}
                 PROVE  FALSE
      OBVIOUS
    <2>1. wrong \subseteq Nat
      OBVIOUS
    <2> HIDE DEF wrong
    <2>2. PICK num \in wrong : \A other \in wrong : ~(other < num)
      BY <2>1, LeastExists
    <2> USE DEF wrong
    <2>3. num # 0 /\ num - 1 \in 0 .. 22 /\ num - 1 \notin wrong /\ num - 1 + 1 = num
      BY <1>5, <2>2
    <2> QED
      BY <1>6, <2>2, <2>3
  <1> QED
    BY <1>1, <1>7


\* When rho visits lane l, for l from 1.
VisitOf == <<0, 18, 6, 12, 7, 23, 2, 9, 22, 1, 3, 17, 16, 20, 13, 8, 4, 5, 15, 19, 10, 21, 14, 11>>

LEMMA OffsetIs ==
  ASSUME NEW x \in 0 .. 4, NEW row \in 0 .. 4
  PROVE  /\ Permutation!Offsets[x + 5 * row + 1] \in 0 .. 63
         /\ Permutation!RhoOffset(x, row) = Permutation!Offsets[x + 5 * row + 1]
  <1>1. \A num \in 0 .. 23 : VisitOf[Path[num + 1][1] + 5 * Path[num + 1][2]] = num
    BY SMTT(60) DEF Path, VisitOf
  <1>2. \A a \in 0 .. 4, b \in 0 .. 4 : a # 0 \/ b # 0 =>
          VisitOf[a + 5 * b] \in 0 .. 23 /\ Path[VisitOf[a + 5 * b] + 1] = <<a, b>>
    BY SMTT(60) DEF Path, VisitOf
  <1>3. \A a \in 0 .. 4, b \in 0 .. 4 : a # 0 \/ b # 0 =>
          Permutation!Offsets[a + 5 * b + 1]
            = (((VisitOf[a + 5 * b] + 1) * (VisitOf[a + 5 * b] + 2)) \div 2) % 64
    BY SMTT(60) DEF Permutation!Offsets, VisitOf
  <1>4. \A l \in 0 .. 24 : Permutation!Offsets[l + 1] \in 0 .. 63
    BY SMTT(60) DEF Permutation!Offsets
  <1>5. x + 5 * row \in 0 .. 24
    BY LaneIs
  <1>6. CASE x = 0 /\ row = 0
    BY <1>6, <1>4, <1>5 DEF Permutation!RhoOffset, Permutation!Offsets
  <1>7. CASE x # 0 \/ row # 0
    <2> DEFINE visit == CHOOSE num \in 0 .. 23 : Permutation!Visited[num] = <<x, row>>
    <2>1. VisitOf[x + 5 * row] \in 0 .. 23 /\ Permutation!Visited[VisitOf[x + 5 * row]] = <<x, row>>
      BY <1>2, <1>7, VisitedIs
    <2>2. visit \in 0 .. 23 /\ Permutation!Visited[visit] = <<x, row>>
      BY <2>1, Zenon
    <2>3. Permutation!RhoOffset(x, row) = (((visit + 1) * (visit + 2)) \div 2) % 64
      BY <1>7, Zenon DEF Permutation!RhoOffset
    <2> HIDE DEF visit
    <2>4. Path[visit + 1] = <<x, row>>
      BY <2>2, VisitedIs
    <2>5. visit = VisitOf[x + 5 * row]
      BY <1>1, <2>2, <2>4
    <2> QED
      BY <1>3, <1>4, <1>5, <1>7, <2>3, <2>5
  <1> QED
    BY <1>6, <1>7

LEMMA RhoStandard ==
  ASSUME KeccakTyped, step = "rho", s' = Permutation!keccak_rho(s)
  PROVE  Permutation!StepsFollowStandard /\ s' \in [Lanes -> SUBSET LaneBits]
  <1>1. s \in [Lanes -> SUBSET LaneBits] /\ Lanes = 0 .. 24 /\ LaneBits = 0 .. 63
    BY DEF KeccakTyped, Permutation!TypeOK, Lanes, LaneBits, Permutation!Lanes, Permutation!Bits
  <1>2. s' = [l \in Lanes |-> IF l = 0 THEN s[0] ELSE Permutation!rotl64(s[l], Permutation!Offsets[l + 1])]
    BY DEF Permutation!keccak_rho, Lanes
  <1>3. \A l \in 0 .. 24 : Permutation!Offsets[l + 1] \in 0 .. 63
    BY SMTT(60) DEF Permutation!Offsets
  <1>4. s' \in [Lanes -> SUBSET LaneBits]
    <2>1. \A l \in Lanes : Permutation!rotl64(s[l], Permutation!Offsets[l + 1]) \in SUBSET LaneBits
      BY <1>1, <1>3, RotatedIs
    <2> QED
      BY <1>1, <1>2, <2>1
  <1>5. ASSUME NEW x \in 0 .. 4, NEW row \in 0 .. 4, NEW z \in LaneBits
        PROVE  (z \in s'[x + 5 * row]) = Permutation!StandardBit(x, row, z)
    <2> DEFINE lane == x + 5 * row
    <2>1. lane \in Lanes /\ (lane = 0 <=> x = 0 /\ row = 0)
      BY <1>1, SMT
    <2>2. PICK off \in 0 .. 63 : off = Permutation!Offsets[lane + 1] /\ off = Permutation!RhoOffset(x, row)
      BY OffsetIs
    <2>3. Permutation!StandardBit(x, row, z) = ((z + 64 - off) % 64 \in s[lane])
      BY <2>2, BitIs DEF Permutation!StandardBit, BitAt
    <2>4. CASE lane = 0
      <3>1. off = 0
        BY <2>1, <2>2, <2>4 DEF Permutation!RhoOffset
      <3>2. (z + 64 - 0) % 64 = z
        BY <1>1
      <3> QED
        BY <1>2, <2>1, <2>3, <2>4, <3>1, <3>2
    <2>5. CASE lane # 0
      <3>1. s'[lane] = Permutation!rotl64(s[lane], off) /\ s[lane] \in SUBSET LaneBits
        BY <1>1, <1>2, <2>1, <2>2, <2>5
      <3> HIDE DEF lane
      <3>2. (z \in s'[lane]) = ((z + 64 - off) % 64 \in s[lane])
        BY <3>1, RotatedIs
      <3> QED
        BY <2>3, <3>2 DEF lane
    <2> QED
      BY <2>4, <2>5
  <1> QED
    BY <1>4, <1>5 DEF Permutation!StepsFollowStandard, LaneBits

\* The place of lane l in the chain of pi, for l from 1.
RankOf == <<1, 7, 19, 13, 18, 2, 23, 16, 3, 24, 22, 8, 9, 5, 12, 17, 21, 20, 10, 6, 15, 4, 11, 14>>

LEMMA ChainIs ==
  /\ \A num \in 1 .. 24 : Permutation!Chain[num] \in 1 .. 24 /\ RankOf[Permutation!Chain[num]] = num
  /\ \A l \in 1 .. 24 : RankOf[l] \in 1 .. 24 /\ Permutation!Chain[RankOf[l]] = l
  BY SMTT(60) DEF Permutation!Chain, RankOf

\* The lanes after num moves: those moved already hold the next of the chain.
MovedTo(lanes, num) ==
  [l \in Lanes |-> IF l # 0 /\ RankOf[l] <= num THEN lanes[Permutation!Chain[RankOf[l] + 1]] ELSE lanes[l]]

MoveStep(lanes, num, before) ==
  IF num = 0 THEN lanes
  ELSE [before EXCEPT ![Permutation!Chain[num]] = before[Permutation!Chain[num + 1]]]

LEMMA MovesFollow ==
  ASSUME NEW lanes \in [Lanes -> SUBSET LaneBits]
  PROVE  /\ MovedTo(lanes, 0) = lanes
         /\ \A num \in 1 .. 23 : MovedTo(lanes, num) = MoveStep(lanes, num, MovedTo(lanes, num - 1))
  <1>1. Lanes = 0 .. 24
    BY DEF Lanes, Permutation!Lanes
  <1>2. MovedTo(lanes, 0) = lanes
    <2>1. \A l \in Lanes : l # 0 => ~(RankOf[l] <= 0)
      BY <1>1, ChainIs
    <2> QED
      BY <2>1 DEF MovedTo
  <1>3. ASSUME NEW num \in 1 .. 23
        PROVE  MovedTo(lanes, num) = MoveStep(lanes, num, MovedTo(lanes, num - 1))
    <2> DEFINE before == MovedTo(lanes, num - 1)
               here == Permutation!Chain[num]
               next == Permutation!Chain[num + 1]
    <2>1. here \in 1 .. 24 /\ next \in 1 .. 24 /\ RankOf[here] = num /\ RankOf[next] = num + 1
      BY ChainIs
    <2>2. before[next] = lanes[next]
      BY <1>1, <2>1 DEF MovedTo
    <2>3. ASSUME NEW l \in Lanes
          PROVE  MovedTo(lanes, num)[l] = [before EXCEPT ![here] = before[next]][l]
      <3>1. CASE l = here
        <4>1. here # 0 /\ RankOf[here] <= num /\ here \in Lanes /\ here \in DOMAIN before
          BY <1>1, <2>1 DEF MovedTo
        <4>2. MovedTo(lanes, num)[here] = lanes[Permutation!Chain[num + 1]]
          BY <2>1, <4>1 DEF MovedTo
        <4> HIDE DEF before
        <4> QED
          BY <2>2, <3>1, <4>1, <4>2
      <3>2. CASE l # here
        <4>1. l # 0 => RankOf[l] \in 1 .. 24 /\ RankOf[l] # num
          BY <1>1, <3>2, ChainIs
        <4>2. l # 0 => (RankOf[l] <= num <=> RankOf[l] <= num - 1)
          BY <4>1
        <4> QED
          BY <3>2, <4>2 DEF MovedTo
      <3> QED
        BY <3>1, <3>2
    <2>4. MovedTo(lanes, num) = [l \in Lanes |-> MovedTo(lanes, num)[l]] /\ before = [l \in Lanes |-> before[l]]
      BY DEF MovedTo
    <2> HIDE DEF before, here, next
    <2>5. MovedTo(lanes, num) = [before EXCEPT ![here] = before[next]]
      BY <2>3, <2>4
    <2> QED
      BY <2>5 DEF MoveStep, before, here, next
  <1> QED
    BY <1>2, <1>3

LEMMA PiIs ==
  ASSUME NEW lanes \in [Lanes -> SUBSET LaneBits]
  PROVE  Permutation!keccak_pi(lanes) = [MovedTo(lanes, 23) EXCEPT ![Permutation!Chain[24]] = lanes[1]]
  <1> DEFINE rec(g) == [num \in 0 .. 23 |-> MoveStep(lanes, num, g[num - 1])]
             moves == [num \in 0 .. 23 |-> MovedTo(lanes, num)]
             moved == CHOOSE g : g = rec(g)
  <1>1. Permutation!keccak_pi(lanes) = [moved[23] EXCEPT ![Permutation!Chain[24]] = lanes[1]]
    BY DEF Permutation!keccak_pi, Permutation!LastMoved, MoveStep
  <1>2. moves = rec(moves)
    <2>1. ASSUME NEW num \in 0 .. 23
          PROVE  moves[num] = MoveStep(lanes, num, moves[num - 1])
      <3>1. CASE num = 0
        BY <3>1, MovesFollow DEF MoveStep
      <3>2. CASE num \in 1 .. 23
        <4>1. num - 1 \in 0 .. 23
          BY <3>2
        <4> QED
          BY <3>2, <4>1, MovesFollow
      <3> QED
        BY <3>1, <3>2
    <2> QED
      BY <2>1
  <1>3. moved = rec(moved)
    BY <1>2
  <1> HIDE DEF moved
  <1>4. moved[0] = lanes /\ \A num \in 1 .. 23 : moved[num] = MoveStep(lanes, num, moved[num - 1])
    <2>1. \A num \in 0 .. 23 : moved[num] = MoveStep(lanes, num, moved[num - 1])
      BY <1>3
    <2> QED
      BY <2>1 DEF MoveStep
  <1> DEFINE wrong == {num \in 0 .. 23 : moved[num] # MovedTo(lanes, num)}
  <1>5. wrong = {}
    <2> SUFFICES ASSUME wrong # {}
                 PROVE  FALSE
      OBVIOUS
    <2>1. wrong \subseteq Nat
      OBVIOUS
    <2> HIDE DEF wrong
    <2>2. PICK num \in wrong : \A other \in wrong : ~(other < num)
      BY <2>1, LeastExists
    <2> USE DEF wrong
    <2>3. num # 0 /\ num \in 1 .. 23 /\ moved[num - 1] = MovedTo(lanes, num - 1)
      <3>1. num # 0
        BY <1>4, <2>2, MovesFollow
      <3>2. num - 1 \in 0 .. 23 /\ num - 1 < num
        BY <2>2, <3>1
      <3> QED
        BY <2>2, <3>1, <3>2
    <2> QED
      BY <1>4, <2>2, <2>3, MovesFollow
  <1>6. moved[23] = MovedTo(lanes, 23)
    BY <1>5
  <1> QED
    BY <1>1, <1>6

LEMMA PiStandard ==
  ASSUME KeccakTyped, step = "pi", s' = Permutation!keccak_pi(s)
  PROVE  Permutation!StepsFollowStandard /\ s' \in [Lanes -> SUBSET LaneBits]
  <1> DEFINE source(l) == IF l = 0 THEN 0 ELSE IF RankOf[l] <= 23 THEN Permutation!Chain[RankOf[l] + 1] ELSE 1
  <1>1. s \in [Lanes -> SUBSET LaneBits] /\ Lanes = 0 .. 24
    BY DEF KeccakTyped, Permutation!TypeOK, Lanes, LaneBits, Permutation!Lanes
  <1>2. s' = [MovedTo(s, 23) EXCEPT ![Permutation!Chain[24]] = s[1]]
    BY <1>1, PiIs
  <1>3. Permutation!Chain[24] \in 1 .. 24 /\ RankOf[Permutation!Chain[24]] = 24
    BY ChainIs
  <1>4. \A l \in 1 .. 24 : RankOf[l] \in 1 .. 24 /\ (RankOf[l] = 24 <=> l = Permutation!Chain[24])
    BY <1>3, ChainIs
  <1>5. s' = [l \in Lanes |-> s[source(l)]]
    <2> DEFINE last == Permutation!Chain[24]
               before == MovedTo(s, 23)
    <2>1. DOMAIN before = Lanes /\ last \in Lanes /\ last # 0
      BY <1>1, <1>3 DEF MovedTo
    <2>2. \A l \in Lanes :
            before[l] = IF l # 0 /\ RankOf[l] <= 23 THEN s[Permutation!Chain[RankOf[l] + 1]] ELSE s[l]
      BY DEF MovedTo
    <2>3. s' = [before EXCEPT ![last] = s[1]]
      BY <1>2
    <2>4. \A l \in 1 .. 24 : RankOf[l] <= 23 <=> l # last
      BY <1>4
    <2> HIDE DEF last, before
    <2>5. s' = [l \in Lanes |-> IF l = last THEN s[1] ELSE before[l]]
      BY <2>1, <2>3
    <2>6. ASSUME NEW l \in Lanes
          PROVE  s'[l] = s[source(l)]
      <3>1. CASE l = 0
        BY <2>1, <2>2, <2>5, <3>1
      <3>2. CASE l # 0 /\ l = last
        <4>1. source(l) = 1
          BY <1>1, <2>4, <3>2
        <4> QED
          BY <2>5, <3>2, <4>1
      <3>3. CASE l # 0 /\ l # last
        <4>1. source(l) = Permutation!Chain[RankOf[l] + 1]
          BY <1>1, <2>4, <3>3
        <4>2. before[l] = s[Permutation!Chain[RankOf[l] + 1]]
          BY <1>1, <2>2, <2>4, <3>3
        <4> QED
          BY <2>5, <3>3, <4>1, <4>2
      <3> QED
        BY <3>1, <3>2, <3>3
    <2> QED
      BY <2>5, <2>6
  <1>6. \A x \in 0 .. 4, row \in 0 .. 4 : source(x + 5 * row) = ((x + 3 * row) % 5) + 5 * x
    BY SMTT(60) DEF Permutation!Chain, RankOf
  <1>7. ASSUME NEW l \in Lanes
        PROVE  source(l) \in Lanes
    <2>1. CASE l = 0
      BY <1>1, <2>1
    <2>2. CASE l # 0
      <3>1. RankOf[l] \in 1 .. 24 /\ (RankOf[l] <= 23 => RankOf[l] + 1 \in 1 .. 24)
        BY <1>1, <1>4, <2>2
      <3>2. RankOf[l] <= 23 => Permutation!Chain[RankOf[l] + 1] \in 1 .. 24
        BY <3>1, ChainIs
      <3> QED
        BY <1>1, <2>2, <3>2
    <2> QED
      BY <2>1, <2>2
  <1> HIDE DEF source
  <1>8. s' \in [Lanes -> SUBSET LaneBits]
    BY <1>1, <1>5, <1>7
  <1>9. ASSUME NEW x \in 0 .. 4, NEW row \in 0 .. 4, NEW z \in LaneBits
        PROVE  (z \in s'[x + 5 * row]) = Permutation!StandardBit(x, row, z)
    <2>1. x + 5 * row \in Lanes
      BY <1>1, LaneIs
    <2>2. Permutation!StandardBit(x, row, z) = (z \in s[((x + 3 * row) % 5) + 5 * x])
      BY BitIs DEF Permutation!StandardBit, BitAt
    <2> QED
      BY <1>5, <1>6, <2>1, <2>2
  <1> QED
    BY <1>8, <1>9 DEF Permutation!StepsFollowStandard, LaneBits

\* When bit 0 of the register is one; before 0 it is continued backwards.
Ones == {
  -6, -5, -4, 0, 8, 10, 11, 15, 16, 17, 18, 20, 25, 26, 27, 28, 29, 30, 31, 32, 35,
  40, 42, 45, 46, 47, 48, 49, 51, 53, 55, 57, 58, 59, 65, 66, 70, 72, 74, 75, 78, 79,
  82, 84, 85, 86, 87, 88, 89, 91, 92, 93, 94, 97, 98, 100, 101, 102, 104, 105, 106,
  109, 111, 113, 116, 118, 122, 125, 127, 128, 130, 134, 135, 138, 139, 140, 143, 144,
  145, 146, 150, 151, 153, 154, 159, 163, 165, 166, 167}

Low(num) == num \in Ones

LEMMA LowNext ==
  ASSUME NEW num \in 0 .. 167
  PROVE  Low(num + 1) = (((Low(num - 7) # Low(num - 3)) # Low(num - 2)) # Low(num - 1))
  BY SMTT(60) DEF Low, Ones

\* Bit b of the register is the bit 0 of earlier, turned over at bits 4, 5 and 6.
RegisterBit(num, b) ==
  \/ b \in 0 .. 3 /\ Low(num - b)
  \/ b = 4 /\ (Low(num - 4) # Low(num))
  \/ b = 5 /\ ((Low(num - 5) # Low(num - 1)) # Low(num))
  \/ b = 6 /\ (((Low(num - 6) # Low(num - 2)) # Low(num - 1)) # Low(num))
  \/ b = 7 /\ (((Low(num - 7) # Low(num - 3)) # Low(num - 2)) # Low(num - 1))

RegisterAt(num) == {b \in 0 .. 7 : RegisterBit(num, b)}

RegisterStep(num, before) ==
  IF num = 0 THEN {0}
  ELSE Xor({b + 1 : b \in before \ {7}}, IF 7 \in before THEN {0, 4, 5, 6} ELSE {})

LEMMA RegisterFollows ==
  /\ RegisterAt(0) = {0}
  /\ \A num \in 0 .. 167 : RegisterAt(num + 1) = RegisterStep(num + 1, RegisterAt(num))
  <1>1. RegisterAt(0) = {0}
    <2>1. /\ Low(0) /\ ~Low(-1) /\ ~Low(-2) /\ ~Low(-3) /\ Low(-4) /\ Low(-5) /\ Low(-6) /\ ~Low(-7)
      BY SMTT(60) DEF Low, Ones
    <2>2. /\ RegisterBit(0, 0) /\ ~RegisterBit(0, 1) /\ ~RegisterBit(0, 2) /\ ~RegisterBit(0, 3)
          /\ ~RegisterBit(0, 4) /\ ~RegisterBit(0, 5) /\ ~RegisterBit(0, 6) /\ ~RegisterBit(0, 7)
      <3>1. /\ 0 - 0 = 0 /\ 0 - 1 = -1 /\ 0 - 2 = -2 /\ 0 - 3 = -3 /\ 0 - 4 = -4 /\ 0 - 5 = -5 /\ 0 - 6 = -6
            /\ 0 - 7 = -7
        OBVIOUS
      <3> QED
        BY <2>1, <3>1 DEF RegisterBit, Low
    <2>3. \A b \in 0 .. 7 : RegisterBit(0, b) <=> b = 0
      BY <2>2
    <2> QED
      BY <2>3 DEF RegisterAt
  <1>2. ASSUME NEW num \in 0 .. 167
        PROVE  RegisterAt(num + 1) = RegisterStep(num + 1, RegisterAt(num))
    <2> DEFINE before == RegisterAt(num)
               after == RegisterStep(num + 1, before)
    <2>1. after = Xor({b + 1 : b \in before \ {7}}, IF 7 \in before THEN {0, 4, 5, 6} ELSE {})
      BY DEF RegisterStep
    <2>2. \A b \in 0 .. 7 : b \in before <=> RegisterBit(num, b)
      BY DEF RegisterAt, RegisterBit
    <2>3. before \subseteq 0 .. 7
      BY DEF RegisterAt
    <2> HIDE DEF before, after
    <2>4. /\ (0 \in after) = (7 \in before)
          /\ (1 \in after) = (0 \in before)
          /\ (2 \in after) = (1 \in before)
          /\ (3 \in after) = (2 \in before)
          /\ (4 \in after) = ((3 \in before) # (7 \in before))
          /\ (5 \in after) = ((4 \in before) # (7 \in before))
          /\ (6 \in after) = ((5 \in before) # (7 \in before))
          /\ (7 \in after) = (6 \in before)
          /\ after \subseteq 0 .. 7
      <3> DEFINE up == {b + 1 : b \in before \ {7}}
                 back == IF 7 \in before THEN {0, 4, 5, 6} ELSE {}
      <3>1. \A b \in Int : b \in up <=> b - 1 \in before /\ b - 1 # 7
        <4>1. \A b \in Int, e \in 0 .. 7 : b = e + 1 <=> b - 1 = e
          OBVIOUS
        <4> QED
          BY <2>3, <4>1
      <3>2. up \subseteq 0 .. 7 /\ back \subseteq 0 .. 7
        BY <2>3
      <3>3. \A b \in Int : b \in back <=> 7 \in before /\ (b = 0 \/ b = 4 \/ b = 5 \/ b = 6)
        OBVIOUS
      <3> HIDE DEF up, back
      <3>4. \A b : b \in after <=> ((b \in up) # (b \in back))
        BY <2>1, InXor DEF up, back
      <3>5. /\ 0 - 1 = -1 /\ 1 - 1 = 0 /\ 2 - 1 = 1 /\ 3 - 1 = 2 /\ 4 - 1 = 3 /\ 5 - 1 = 4 /\ 6 - 1 = 5
            /\ 7 - 1 = 6 /\ -1 \notin 0 .. 7
        OBVIOUS
      <3>6. /\ 0 \notin up /\ (1 \in up <=> 0 \in before) /\ (2 \in up <=> 1 \in before)
            /\ (3 \in up <=> 2 \in before) /\ (4 \in up <=> 3 \in before) /\ (5 \in up <=> 4 \in before)
            /\ (6 \in up <=> 5 \in before) /\ (7 \in up <=> 6 \in before)
        BY <2>3, <3>1, <3>5
      <3>7. /\ (0 \in back <=> 7 \in before) /\ (4 \in back <=> 7 \in before) /\ (5 \in back <=> 7 \in before)
            /\ (6 \in back <=> 7 \in before) /\ 1 \notin back /\ 2 \notin back /\ 3 \notin back /\ 7 \notin back
        BY <3>3
      <3>8. after \subseteq 0 .. 7
        <4>1. \A b : b \in after => b \in up \/ b \in back
          BY <3>4
        <4> QED
          BY <3>2, <4>1
      <3> QED
        BY <3>4, <3>6, <3>7, <3>8
    <2>5. /\ num + 1 - 0 = num + 1 /\ num + 1 - 1 = num /\ num + 1 - 2 = num - 1 /\ num + 1 - 3 = num - 2
          /\ num + 1 - 4 = num - 3 /\ num + 1 - 5 = num - 4 /\ num + 1 - 6 = num - 5 /\ num + 1 - 7 = num - 6
          /\ num - 0 = num
      OBVIOUS
    <2>6. /\ (RegisterBit(num, 0) <=> Low(num)) /\ (RegisterBit(num, 1) <=> Low(num - 1))
          /\ (RegisterBit(num, 2) <=> Low(num - 2)) /\ (RegisterBit(num, 3) <=> Low(num - 3))
          /\ (RegisterBit(num, 4) <=> (Low(num - 4) # Low(num)))
          /\ (RegisterBit(num, 5) <=> ((Low(num - 5) # Low(num - 1)) # Low(num)))
          /\ (RegisterBit(num, 6) <=> (((Low(num - 6) # Low(num - 2)) # Low(num - 1)) # Low(num)))
          /\ (RegisterBit(num, 7) <=> (((Low(num - 7) # Low(num - 3)) # Low(num - 2)) # Low(num - 1)))
      BY <2>5 DEF RegisterBit
    <2>7. /\ (RegisterBit(num + 1, 0) <=> Low(num + 1)) /\ (RegisterBit(num + 1, 1) <=> Low(num))
          /\ (RegisterBit(num + 1, 2) <=> Low(num - 1)) /\ (RegisterBit(num + 1, 3) <=> Low(num - 2))
          /\ (RegisterBit(num + 1, 4) <=> (Low(num - 3) # Low(num + 1)))
          /\ (RegisterBit(num + 1, 5) <=> ((Low(num - 4) # Low(num)) # Low(num + 1)))
          /\ (RegisterBit(num + 1, 6) <=> (((Low(num - 5) # Low(num - 1)) # Low(num)) # Low(num + 1)))
          /\ (RegisterBit(num + 1, 7) <=> (((Low(num - 6) # Low(num - 2)) # Low(num - 1)) # Low(num)))
      BY <2>5 DEF RegisterBit
    <2>8. \A e : Low(e) \in BOOLEAN
      BY DEF Low
    <2>9. \A b \in 0 .. 7 : b \in after <=> RegisterBit(num + 1, b)
      <3>1. Low(num + 1) = (((Low(num - 7) # Low(num - 3)) # Low(num - 2)) # Low(num - 1))
        BY LowNext
      <3>2. /\ (0 \in after <=> RegisterBit(num + 1, 0)) /\ (1 \in after <=> RegisterBit(num + 1, 1))
            /\ (2 \in after <=> RegisterBit(num + 1, 2)) /\ (3 \in after <=> RegisterBit(num + 1, 3))
            /\ (4 \in after <=> RegisterBit(num + 1, 4)) /\ (5 \in after <=> RegisterBit(num + 1, 5))
            /\ (6 \in after <=> RegisterBit(num + 1, 6)) /\ (7 \in after <=> RegisterBit(num + 1, 7))
        BY <2>2, <2>4, <2>6, <2>7, <2>8, <3>1
      <3> QED
        BY <3>2
    <2> QED
      BY <2>4, <2>9 DEF RegisterAt, after, before
  <1> QED
    BY <1>1, <1>2

LEMMA RegisterIs == \A num \in 0 .. 168 : Permutation!Register[num] = RegisterAt(num)
  <1> DEFINE rec(g) == [num \in 0 .. 168 |-> RegisterStep(num, g[num - 1])]
             table == [num \in 0 .. 168 |-> RegisterAt(num)]
             register == CHOOSE g : g = rec(g)
  <1>1. Permutation!Register = register
    BY DEF Permutation!Register, RegisterStep, Xor
  <1>2. \A num \in 1 .. 168 : RegisterAt(num) = RegisterStep(num, RegisterAt(num - 1))
    <2>1. ASSUME NEW num \in 1 .. 168
          PROVE  RegisterAt(num) = RegisterStep(num, RegisterAt(num - 1))
      <3>1. PICK low \in 0 .. 167 : low = num - 1 /\ num = low + 1
        OBVIOUS
      <3> QED
        BY <3>1, RegisterFollows
    <2> QED
      BY <2>1
  <1>3. \A num \in 0 .. 168 : table[num] = RegisterStep(num, table[num - 1])
    <2>1. ASSUME NEW num \in 0 .. 168
          PROVE  table[num] = RegisterStep(num, table[num - 1])
      <3>1. CASE num = 0
        BY <3>1, RegisterFollows DEF RegisterStep
      <3>2. CASE num \in 1 .. 168
        <4>1. num - 1 \in 0 .. 168
          BY <3>2
        <4> QED
          BY <1>2, <3>2, <4>1
      <3> QED
        BY <3>1, <3>2
    <2> QED
      BY <2>1
  <1>4. table = rec(table)
    BY <1>3
  <1>5. register = rec(register)
    BY <1>4
  <1> HIDE DEF register
  <1>6. register[0] = {0} /\ \A num \in 1 .. 168 : register[num] = RegisterStep(num, register[num - 1])
    <2>1. \A num \in 0 .. 168 : register[num] = RegisterStep(num, register[num - 1])
      BY <1>5
    <2> QED
      BY <2>1 DEF RegisterStep
  <1> DEFINE wrong == {num \in 0 .. 168 : register[num] # RegisterAt(num)}
  <1>7. wrong = {}
    <2> SUFFICES ASSUME wrong # {}
                 PROVE  FALSE
      OBVIOUS
    <2>1. wrong \subseteq Nat
      OBVIOUS
    <2> HIDE DEF wrong
    <2>2. PICK num \in wrong : \A other \in wrong : ~(other < num)
      BY <2>1, LeastExists
    <2> USE DEF wrong
    <2>3. num \in 1 .. 168 /\ register[num - 1] = RegisterAt(num - 1)
      <3>1. num # 0
        BY <1>6, <2>2, RegisterFollows
      <3>2. num - 1 \in 0 .. 168 /\ num - 1 < num
        BY <2>2, <3>1
      <3> QED
        BY <2>2, <3>1, <3>2
    <2> QED
      BY <1>2, <1>6, <2>2, <2>3
  <1> QED
    BY <1>1, <1>7

\* The constants of all rounds, as the register gives them.
LEMMA ConstantsAre ==
  ASSUME NEW num \in 0 .. 23, NEW z
  PROVE  (z \in Permutation!keccak_rc[num + 1]) = (z \in Permutation!StandardConstant(num))
  <1>1. \A j \in 0 .. 6 : (0 \in Permutation!Register[j + 7 * num]) = Low(j + 7 * num)
    <2>1. \A j \in 0 .. 6 : j + 7 * num \in 0 .. 168
      OBVIOUS
    <2>2. \A e \in 0 .. 168 : e - 0 = e /\ (0 \in RegisterAt(e)) = Low(e)
      BY DEF RegisterAt, RegisterBit, Low
    <2> QED
      BY <2>1, <2>2, RegisterIs
  <1>2. 2^0 = 1 /\ 2^1 = 2 /\ 2^2 = 4 /\ 2^3 = 8 /\ 2^4 = 16 /\ 2^5 = 32 /\ 2^6 = 64
    OBVIOUS
  <1> DEFINE turn == 7 * num
             given == \/ (z = 0 /\ Low(0 + turn)) \/ (z = 1 /\ Low(1 + turn)) \/ (z = 3 /\ Low(2 + turn))
                      \/ (z = 7 /\ Low(3 + turn)) \/ (z = 15 /\ Low(4 + turn)) \/ (z = 31 /\ Low(5 + turn))
                      \/ (z = 63 /\ Low(6 + turn))
  <1>3. z \in Permutation!StandardConstant(num) <=> given
    <2>1. z \in Permutation!StandardConstant(num) <=>
            \E j \in {e \in 0 .. 6 : 0 \in Permutation!Register[e + 7 * num]} : z = 2^j - 1
      BY Zenon DEF Permutation!StandardConstant
    <2>2. z \in Permutation!StandardConstant(num) <=> \E j \in 0 .. 6 : Low(j + turn) /\ z = 2^j - 1
      BY <1>1, <2>1, Zenon
    <2> HIDE DEF turn
    <2>3. 0 .. 6 = {0, 1, 2, 3, 4, 5, 6}
      OBVIOUS
    <2> DEFINE Given(j) == Low(j + turn) /\ z = 2^j - 1
    <2>4. (\E j \in 0 .. 6 : Given(j)) <=>
            Given(0) \/ Given(1) \/ Given(2) \/ Given(3) \/ Given(4) \/ Given(5) \/ Given(6)
      BY <2>3, Zenon
    <2> QED
      BY <1>2, <2>2, <2>4
  <1>4. z \in Permutation!keccak_rc[num + 1] <=> given
    BY SMTT(120) DEF Low, Ones, Permutation!keccak_rc
  <1> QED
    BY <1>3, <1>4

LEMMA IotaStandard ==
  ASSUME KeccakTyped, step = "iota", round < 24, s' = Permutation!keccak_iota(s, round)
  PROVE  Permutation!StepsFollowStandard /\ s' \in [Lanes -> SUBSET LaneBits]
  <1>1. s \in [Lanes -> SUBSET LaneBits] /\ Lanes = 0 .. 24 /\ LaneBits = 0 .. 63 /\ round \in 0 .. 23
    BY DEF KeccakTyped, Permutation!TypeOK, Lanes, LaneBits, Permutation!Lanes, Permutation!Bits
  <1>2. PICK const : const = Permutation!keccak_rc[round + 1]
    OBVIOUS
  <1>3. s' = [s EXCEPT ![0] = Xor(s[0], const)]
    BY <1>2 DEF Permutation!keccak_iota, Permutation!RoundConstant, Xor
  <1>4. const \in SUBSET LaneBits
    <2>1. \A num \in 0 .. 23 : Permutation!keccak_rc[num + 1] \in SUBSET (0 .. 63)
      BY SMTT(60) DEF Permutation!keccak_rc
    <2> QED
      BY <1>1, <1>2, <2>1
  <1>5. \A z : (z \in const) = (z \in Permutation!StandardConstant(round))
    BY <1>1, <1>2, ConstantsAre
  <1>6. 0 \in Lanes /\ Xor(s[0], const) \in SUBSET LaneBits
    BY <1>1, <1>4, XorInLane
  <1>7. s' \in [Lanes -> SUBSET LaneBits]
    BY <1>1, <1>3, <1>6
  <1>8. ASSUME NEW x \in 0 .. 4, NEW row \in 0 .. 4, NEW z \in LaneBits
        PROVE  (z \in s'[x + 5 * row]) = Permutation!StandardBit(x, row, z)
    <2> DEFINE lane == x + 5 * row
    <2>1. lane \in Lanes /\ (lane = 0 <=> x = 0 /\ row = 0)
      BY <1>1, SMT
    <2>2. Permutation!StandardBit(x, row, z) =
            ((z \in s[lane]) # (x = 0 /\ row = 0 /\ z \in Permutation!StandardConstant(round)))
      BY BitIs DEF Permutation!StandardBit, BitAt
    <2>3. CASE lane = 0
      <3>1. s'[lane] = Xor(s[lane], const)
        BY <1>1, <1>3, <2>1, <2>3
      <3>2. (z \in s'[lane]) = ((z \in s[lane]) # (z \in const))
        BY <3>1, InXor
      <3> HIDE DEF lane
      <3> QED
        BY <1>5, <2>1, <2>2, <2>3, <3>2 DEF lane
    <2>4. CASE lane # 0
      <3>1. s'[lane] = s[lane]
        BY <1>1, <1>3, <2>1, <2>4
      <3> QED
        BY <2>1, <2>2, <2>4, <3>1
    <2> QED
      BY <2>3, <2>4
  <1> QED
    BY <1>7, <1>8 DEF Permutation!StepsFollowStandard, LaneBits

\* Each step mapping of the code is that of the standard for every state of the
\* lanes: theta by the parities of the columns, rho by offsets written out, pi
\* although it overwrites the lanes it moves, chi on copies of the rows, iota by
\* constants written out, which the register of the standard gives for all rounds
\* (keccak_1600.c).
THEOREM MappingsAreStandard ==
  ASSUME Permutation!TypeOK, Permutation!Next
  PROVE  Permutation!StepsFollowStandard /\ Permutation!TypeOK'
  <1> DEFINE Done == Permutation!StepsFollowStandard /\ s' \in [Lanes -> SUBSET LaneBits]
  <1>1. CASE Permutation!Map("theta", Permutation!keccak_theta(s), "rho")
    <2>1. Done
      BY <1>1, ThetaStandard DEF Permutation!Map, KeccakTyped
    <2> HIDE DEF Done
    <2> QED
      BY <1>1, <2>1 DEF Done, Permutation!Map, Permutation!TypeOK, Lanes, LaneBits
  <1>2. CASE Permutation!Map("rho", Permutation!keccak_rho(s), "pi")
    <2>1. Done
      BY <1>2, RhoStandard DEF Permutation!Map, KeccakTyped
    <2> HIDE DEF Done
    <2> QED
      BY <1>2, <2>1 DEF Done, Permutation!Map, Permutation!TypeOK, Lanes, LaneBits
  <1>3. CASE Permutation!Map("pi", Permutation!keccak_pi(s), "chi")
    <2>1. Done
      BY <1>3, PiStandard DEF Permutation!Map, KeccakTyped
    <2> HIDE DEF Done
    <2> QED
      BY <1>3, <2>1 DEF Done, Permutation!Map, Permutation!TypeOK, Lanes, LaneBits
  <1>4. CASE Permutation!Map("chi", Permutation!keccak_chi(s), "iota")
    <2>1. Done
      BY <1>4, ChiStandard DEF Permutation!Map, KeccakTyped
    <2> HIDE DEF Done
    <2> QED
      BY <1>4, <2>1 DEF Done, Permutation!Map, Permutation!TypeOK, Lanes, LaneBits
  <1>5. CASE Permutation!Map("iota", Permutation!keccak_iota(s, round), "theta")
    <2>1. Done
      BY <1>5, IotaStandard DEF Permutation!Map, KeccakTyped
    <2> HIDE DEF Done
    <2>2. round \in 0 .. 24 /\ round < 24 /\ round' = round + 1 /\ step' = "theta"
      BY <1>5 DEF Permutation!Map, Permutation!TypeOK
    <2> QED
      BY <2>1, <2>2 DEF Done, Permutation!TypeOK, Lanes, LaneBits
  <1> QED
    BY <1>1, <1>2, <1>3, <1>4, <1>5 DEF Permutation!Next

LEMMA KeccakStarts ==
  ASSUME Permutation!Init
  PROVE  Permutation!TypeOK
  <1>1. s \in [Lanes -> SUBSET LaneBits]
    <2>1. CASE s = [l \in Lanes |-> {}]
      BY <2>1
    <2>2. CASE \E l \in {0, 6, 24}, b \in {0, 63} : s = [[x \in Lanes |-> {}] EXCEPT ![l] = {b}]
      <3>1. PICK l \in {0, 6, 24}, b \in {0, 63} : s = [[x \in Lanes |-> {}] EXCEPT ![l] = {b}]
        BY <2>2
      <3>2. l \in Lanes /\ {b} \in SUBSET LaneBits /\ {} \in SUBSET LaneBits
        BY DEF Lanes, LaneBits, Permutation!Lanes, Permutation!Bits
      <3> QED
        BY <3>1, <3>2
    <2>3. CASE \E mod \in {3, 7} : s = [l \in Lanes |-> {b \in LaneBits : (b * (l + 1)) % mod = 1}]
      BY <2>3
    <2> QED
      BY <2>1, <2>2, <2>3 DEF Permutation!Init, Lanes, LaneBits
  <1>2. round = 0 /\ step = "theta"
    BY DEF Permutation!Init
  <1> QED
    BY <1>1, <1>2 DEF Permutation!TypeOK, Lanes, LaneBits

\* The same of the running system: every step of the permutation is that of the
\* standard, bit by bit, and no bit leaves its lane (keccak_1600.c).
THEOREM PermutationIsStandard == PrimitivesSpec => PermutationIsKeccak
  <1> DEFINE Kept == part = "keccak" => Permutation!TypeOK
             Follows == part = "keccak" => Permutation!StepsFollowStandard
  <1>1. PrimitivesInit => Kept
    BY KeccakStarts DEF PrimitivesInit
  <1>2. Kept /\ [PrimitivesNext]_primitiveVars => Kept' /\ [Follows]_keccakVars
    <2> SUFFICES ASSUME Kept, [PrimitivesNext]_primitiveVars
                 PROVE  Kept' /\ [Follows]_keccakVars
      OBVIOUS
    <2>1. CASE RunKeccak(Permutation!Next)
      BY <2>1, MappingsAreStandard DEF RunKeccak
    <2>2. CASE UNCHANGED <<part, keccakVars>>
      BY <2>2 DEF Permutation!TypeOK, keccakVars
    <2>3. CASE RunResidues(Next) \/ RunNtt(Transforming!Next) \/ RunCbd(Noise!Next)
               \/ RunScheme(Scheme!Next)
      BY <2>3 DEF RunResidues, RunNtt, RunCbd, RunScheme, keccakVars
    <2>4. CASE UNCHANGED primitiveVars
      BY <2>2, <2>4 DEF primitiveVars
    <2> QED
      BY <2>1, <2>3, <2>4 DEF PrimitivesNext
  <1> QED
    BY <1>1, <1>2, PTL DEF PrimitivesSpec, PermutationIsKeccak
=============================================================================
