-------------------------------- MODULE Cbd --------------------------------
(***************************************************************************)
(* The centered binomial distribution: cbd2 and cbd3 count the bits of      *)
(* eight or four coefficients at once, by masked additions of one word.     *)
(* A word is a function from its bit numbers, 32 of them, to 0 and 1.       *)
(***************************************************************************)
EXTENDS ModArith, FiniteSets

CONSTANTS ML_KEM_N,   \* coefficients of a polynomial
          Levels      \* the values of k

VARIABLES
  eta,
  stream,    \* the bytes the XOF was asked for, bit by bit, the lowest first
  i,         \* the iteration of the loop
  poly

vars == <<eta, stream, i, poly>>

WordBits == 0 .. 31

Unset == -1

\* The distribution of s, e and y, and the bytes squeezed for it, of a level;
\* 256 coefficients scaled to ML_KEM_N.
Eta(k) == IF k = 2 THEN 3 ELSE 2
SqueezedBytes(k) == ((IF k = 2 THEN 192 ELSE 128) * ML_KEM_N) \div 256

\* Slip used to test the properties: nothing is masked.
MaskAll(e) == WordBits

\* 0x55555555 and 0x00249249.
Mask(e) == IF e = 2 THEN {b \in WordBits : b % 2 = 0} ELSE {b \in 0 .. 23 : b % 3 = 0}

\* How far the field of b lies above that of a.
Offset(e) == e

\* Bytes and coefficients of one iteration, and the number of iterations.
WordBytes(e) == IF e = 2 THEN 4 ELSE 3
PerWord(e) == IF e = 2 THEN 8 ELSE 4
Iterations(e) == ML_KEM_N \div PerWord(e)

\* load24_littleendian, load32_littleendian.
Load(at, e) ==
  [b \in WordBits |-> IF b < 8 * WordBytes(e) /\ 8 * at + b \in DOMAIN stream
                      THEN stream[8 * at + b] ELSE 0]

AndMask(w, mask) == [b \in WordBits |-> IF b \in mask THEN w[b] ELSE 0]

ShiftRight(w, n) == [b \in WordBits |-> IF b + n \in WordBits THEN w[b + n] ELSE 0]

\* 32-bit addition, with its carries.
Plus(w, x) ==
  LET carry[b \in 0 .. 32] ==
        IF b = 0 THEN 0 ELSE (w[b - 1] + x[b - 1] + carry[b - 1]) \div 2
  IN  [b \in WordBits |-> (w[b] + x[b] + carry[b]) % 2]

\* The word d of the code: in each field of eta bits, how many of them are set.
Counted(w, e) ==
  LET part(n) == AndMask(ShiftRight(w, n), Mask(e))
  IN  IF e = 2 THEN Plus(part(0), part(1)) ELSE Plus(Plus(part(0), part(1)), part(2))

\* (w >> from) & (2^width - 1) for a field of two or three bits.
Field(w, from, width) ==
  w[from] + 2 * w[from + 1] + (IF width = 3 THEN 4 * w[from + 2] ELSE 0)

Init ==
  /\ \E k \in Levels :
       /\ eta = Eta(k)
       /\ \E c \in 0 .. ML_KEM_N - 1, bits \in [0 .. 2 * Eta(k) - 1 -> {0, 1}], rest \in {0, 1} :
            stream = [n \in 0 .. 8 * SqueezedBytes(k) - 1 |->
                        IF n \div (2 * Eta(k)) = c THEN bits[n % (2 * Eta(k))] ELSE rest]
  /\ i = 0
  /\ poly = [c \in 0 .. ML_KEM_N - 1 |-> Unset]

\* One iteration of cbd2 or cbd3, as ml_kem_gen_polynomial_for_cbd chooses.
Iterate ==
  /\ i < Iterations(eta)
  /\ LET d == Counted(Load(WordBytes(eta) * i, eta), eta)
         coefficient(j) == ml_kem_sub_mod(Field(d, 2 * eta * j, eta),
                                          Field(d, 2 * eta * j + Offset(eta), eta))
     IN  poly' = [c \in DOMAIN poly |->
            IF c \div PerWord(eta) = i THEN coefficient(c % PerWord(eta)) ELSE poly[c]]
  /\ i' = i + 1
  /\ UNCHANGED <<eta, stream>>

Next == Iterate

Spec == Init /\ [][Next]_vars
----------------------------------------------------------------------------
\* Type invariant: the coefficients of the iterations so far are small, those of
\* the others unset.
TypeOK ==
  /\ eta \in {2, 3} /\ i \in 0 .. Iterations(eta)
  /\ \A c \in DOMAIN poly :
       IF c < PerWord(eta) * i THEN \E x \in -eta .. eta : poly[c] = x % ML_KEM_Q
                               ELSE poly[c] = Unset

BitCount(from, n) == Cardinality({b \in from .. from + n - 1 : stream[b] = 1})

\* Each coefficient is the number of ones in its first eta bits of the stream
\* less that in its next eta bits: no count carries into its neighbour's field.
DifferenceOfCounts ==
  \A c \in 0 .. PerWord(eta) * i - 1 :
    LET first == 2 * eta * c
    IN  poly[c] = (BitCount(first, eta) - BitCount(first + eta, eta)) % ML_KEM_Q

\* The loop uses every byte the XOF was asked for and none behind them, in each
\* pairing of a distribution with a length: the rest of the buffer holds bytes
\* of an earlier polynomial.
UsesWhatWasSqueezed ==
  /\ WordBytes(eta) * i * 8 <= Cardinality(DOMAIN stream)
  /\ i = Iterations(eta) => WordBytes(eta) * i * 8 = Cardinality(DOMAIN stream)

\* The noise is what the stream says, to its last bit: all of the above.
NoiseFromStream == TypeOK /\ DifferenceOfCounts /\ UsesWhatWasSqueezed
=============================================================================
