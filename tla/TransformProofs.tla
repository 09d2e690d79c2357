-------------------------- MODULE TransformProofs ---------------------------
(***************************************************************************)
(* The modular arithmetic is exact on all inputs its callers produce, not  *)
(* only on those of the sweep: sums and differences of residues, 12-bit    *)
(* fields, and products of two 12-bit numbers (an unpacked public key may  *)
(* hold fields that are not below q). The transform keeps every            *)
(* coefficient reduced, meets each block with its own twiddle factor,      *)
(* every entry of its tables is the power of 17 it should be, every step   *)
(* of it is linear in the buffer, and for every pair of monomials          *)
(* transform, product and inverse give the product modulo X^256 + 1.       *)
(***************************************************************************)
EXTENDS Primitives, FiniteSetTheorems, Sequences, TLAPS

-----------------------------------------------------------------------------
(* Induction: a set of numbers that is not empty has a least element *)

LEMMA LeastExists ==
  ASSUME NEW T, T \subseteq Nat, T # {}
  PROVE  \E num \in T : \A other \in T : ~(other < num)
  <1>1. IsWellFoundedOn(OpToRel(<, Nat), Nat)
    BY NatLessThanWellFounded
  <1>2. \E num \in T : \A other \in T : ~(<<other, num>> \in OpToRel(<, Nat))
    BY <1>1, WFMin
  <1> QED
    BY <1>2 DEF OpToRel

-----------------------------------------------------------------------------
(* The modular arithmetic *)

\* The quotient is the product shifted right by 26 bits.
LEMMA QuotientBounds ==
  ASSUME NEW x \in Nat
  PROVE  /\ Quotient(x) \in Nat
         /\ Quotient(x) * 67108864 <= x * 20159
         /\ x * 20159 < (Quotient(x) + 1) * 67108864
  BY SMTT(60) DEF Quotient, BARRETT_MU

\* A quotient that close to x / q leaves a remainder that one correction in
\* each direction makes right.
LEMMA RemainderBounds ==
  ASSUME NEW x \in Nat, x <= 16777216, NEW quot \in Nat,
         quot * 67108864 <= x * 20159, x * 20159 < (quot + 1) * 67108864
  PROVE  x - quot * 3329 \in -3329 .. 3328
  BY SMTT(60)

LEMMA U16Fits ==
  ASSUME NEW x \in Int, 0 <= x, x < 65536
  PROVE  U16(x) = x
  BY SMT DEF U16

\* The conditional subtraction is the remainder below 2q.
THEOREM SubIfGeCorrect ==
  ASSUME NEW x \in 0 .. 2 * ML_KEM_Q - 1
  PROVE  ml_kem_ct_sub_if_ge(x) = x % ML_KEM_Q
  BY SMT DEF ml_kem_ct_sub_if_ge, U16, And, Borrow, ML_KEM_Q

\* So the reduction is exact wherever the remainder it starts from lies there.
LEMMA ReduceFromRemainder ==
  ASSUME NEW x \in Nat, NEW quot \in Nat, Quotient(x) = quot, x - quot * 3329 \in -3329 .. 3328
  PROVE  /\ Remainder(x) \in -ML_KEM_Q .. ML_KEM_Q - 1
         /\ ml_kem_barrett_reduce(x) = x % ML_KEM_Q
  <1>1. Remainder(x) = x - quot * 3329
    BY DEF Remainder, ML_KEM_Q
  <1>2. x % 3329 = IF x - quot * 3329 < 0 THEN x - quot * 3329 + 3329 ELSE x - quot * 3329
    BY SMTT(60)
  <1> DEFINE r == Remainder(x)
             low == r + IfNegative(r) - ML_KEM_Q
  <1>3. r \in -3329 .. 3328 /\ x % 3329 = IF r < 0 THEN r + 3329 ELSE r
    BY <1>1, <1>2
  <1>4. ml_kem_barrett_reduce(x) = U16(low + IfNegative(low))
    BY Zenon DEF ml_kem_barrett_reduce
  <1> HIDE DEF r
  <1>5. U16(low + IfNegative(low)) = IF r < 0 THEN r + 3329 ELSE r
    <2>1. r \in Int /\ -3329 <= r /\ r <= 3328
      BY <1>3
    <2>2. CASE r < 0
      <3>1. low = r
        BY <2>1, <2>2 DEF IfNegative, ML_KEM_Q
      <3>2. low + IfNegative(low) = r + 3329
        BY <2>1, <2>2, <3>1 DEF IfNegative, ML_KEM_Q
      <3>3. QED
        BY <2>1, <2>2, <3>2 DEF U16
    <2>3. CASE r >= 0
      <3>1. low = r - 3329
        BY <2>1, <2>3 DEF IfNegative, ML_KEM_Q
      <3>2. low + IfNegative(low) = r
        BY <2>1, <2>3, <3>1 DEF IfNegative, ML_KEM_Q
      <3>3. QED
        BY <2>1, <2>3, <3>2 DEF U16
    <2>4. QED
      BY <2>1, <2>2, <2>3
  <1>6. ml_kem_barrett_reduce(x) = x % ML_KEM_Q
    BY <1>3, <1>4, <1>5, SMT DEF ML_KEM_Q
  <1>7. r \in -ML_KEM_Q .. ML_KEM_Q - 1
    BY <1>3, SMT DEF ML_KEM_Q
  <1>8. QED
    BY <1>6, <1>7 DEF r

\* The Barrett reduction is the remainder on every product of two 12-bit
\* numbers.
THEOREM ReduceCorrect ==
  ASSUME NEW x \in Nat, x <= 16777216
  PROVE  /\ Remainder(x) \in -ML_KEM_Q .. ML_KEM_Q - 1
         /\ ml_kem_barrett_reduce(x) = x % ML_KEM_Q
  <1> DEFINE quot == Quotient(x)
  <1>1. quot \in Nat /\ quot * 67108864 <= x * 20159 /\ x * 20159 < (quot + 1) * 67108864
    BY QuotientBounds, SMT
  <1>2. Quotient(x) = quot
    OBVIOUS
  <1> HIDE DEF quot
  <1>3. x - quot * 3329 \in -3329 .. 3328
    BY <1>1, RemainderBounds, SMT
  <1>4. QED
    BY <1>1, <1>2, <1>3, ReduceFromRemainder, SMT

\* So sums, differences and products of residues are the residues they should
\* be, and so are products with a field of an unpacked public key, which is
\* only known to have 12 bits.
THEOREM AddCorrect ==
  ASSUME NEW a \in Residues, NEW b \in Residues
  PROVE  ml_kem_add_mod(a, b) = (a + b) % ML_KEM_Q
  <1>1. a + b \in 0 .. 2 * ML_KEM_Q - 1 /\ U16(a + b) = a + b
    BY SMT DEF Residues, U16, ML_KEM_Q
  <1>2. QED
    BY <1>1, SubIfGeCorrect DEF ml_kem_add_mod

\* A difference of residues (ml_kem_sub_mod).
THEOREM SubCorrect ==
  ASSUME NEW a \in Residues, NEW b \in Residues
  PROVE  ml_kem_sub_mod(a, b) = (a - b) % ML_KEM_Q
  <1>1. Lift(a, b) \in 0 .. 2 * ML_KEM_Q - 1
    BY SMT DEF Residues, ML_KEM_Q, Lift
  <1>2. U16(Lift(a, b)) = Lift(a, b)
    <2>1. Lift(a, b) \in Int /\ 0 <= Lift(a, b) /\ Lift(a, b) < 65536
      BY SMT DEF Residues, ML_KEM_Q, Lift
    <2>2. QED
      BY <2>1, U16Fits, SMT
  <1>3. Lift(a, b) % ML_KEM_Q = (a - b) % ML_KEM_Q
    BY SMT DEF Residues, ML_KEM_Q, Lift
  <1>4. QED
    BY <1>1, <1>2, <1>3, SubIfGeCorrect DEF ml_kem_sub_mod

\* A product of two 12-bit numbers (ml_kem_multipl_mod).
THEOREM MulCorrect ==
  ASSUME NEW a \in 0 .. 4095, NEW b \in 0 .. 4095
  PROVE  ml_kem_multipl_mod(a, b) = (a * b) % ML_KEM_Q
  <1>1. a * b \in Nat
    BY SMT
  <1>2. a * b <= 16777216
    <2>1. a * b <= a * 4095
      BY SMTT(30)
    <2>2. a * 4095 <= 4095 * 4095
      BY SMT
    <2>3. a * 4095 \in Nat
      BY SMT
    <2> DEFINE p == a * b
               w == a * 4095
    <2> HIDE DEF p, w
    <2>4. p \in Nat /\ w \in Nat /\ p <= w /\ w <= 16769025
      BY <1>1, <2>1, <2>2, <2>3, SMT DEF p, w
    <2>5. p <= 16777216
      BY <2>4, SMT
    <2>6. QED
      BY <2>5, SMT DEF p
  <1>3. QED
    BY <1>1, <1>2, ReduceCorrect, SMT DEF ml_kem_multipl_mod

-----------------------------------------------------------------------------
(* What the sweep checks residue by residue holds of every residue. *)

Typed == v \in Residues

LEMMA SweepTyped == PrimitivesSpec => []Typed
  <1>1. PrimitivesInit => Typed
    BY SMT DEF PrimitivesInit, Init, Typed, Residues, ML_KEM_Q
  <1>2. Typed /\ [PrimitivesNext]_primitiveVars => Typed'
    <2>1. CASE RunResidues(Next)
      <3>1. Typed => v \in 0 .. 3328
        BY SMT DEF Typed, Residues, ML_KEM_Q
      <3>2. v \in 0 .. 3328 => (v + 1) % 3329 \in 0 .. 3328
        BY SMT
      <3> QED
        BY <2>1, <3>1, <3>2, SMT DEF RunResidues, Next, Typed, Residues, ML_KEM_Q
    <2>2. CASE \/ RunNtt(Transforming!Next) \/ RunCbd(Noise!Next) \/ RunKeccak(Permutation!Next)
               \/ RunScheme(Scheme!Next) \/ UNCHANGED primitiveVars
      BY <2>2 DEF Typed, RunNtt, RunCbd, RunKeccak, RunScheme, primitiveVars
    <2> QED
      BY <2>1, <2>2 DEF PrimitivesNext
  <1> QED
    BY <1>1, <1>2, PTL DEF PrimitivesSpec

\* The conditional subtraction is the remainder on every field and every sum
\* the sweep meets.
THEOREM SubIfGeSafe == PrimitivesSpec => []SubIfGeExact
  <1>1. Typed => SubIfGeExact
    <2> SUFFICES ASSUME v \in Residues
                 PROVE  SubIfGeExact
      BY DEF Typed
    <2>1. v \in 0 .. 2 * ML_KEM_Q - 1
      BY SMT DEF Residues, ML_KEM_Q
    <2>2. v + ML_KEM_Q \in 0 .. 2 * ML_KEM_Q - 1
      BY SMT DEF Residues, ML_KEM_Q
    <2>3. QED
      BY <2>1, <2>2, SubIfGeCorrect DEF SubIfGeExact
  <1>2. QED
    BY <1>1, SweepTyped, PTL

\* Addition and subtraction are exact for every choice of second operands.
THEOREM AddSubSafe == PrimitivesSpec => []AddSubExact
  <1>1. Typed => AddSubExact
    <2> SUFFICES ASSUME v \in Residues
                 PROVE  AddSubExact
      BY DEF Typed
    <2>1. Others \subseteq Residues
      BY ModArithAssumption DEF Residues
    <2>2. ML_KEM_Q - 1 - v \in Residues
      BY SMT DEF Residues, ML_KEM_Q
    <2>3. (ML_KEM_Q - v) % ML_KEM_Q \in Residues
      BY SMT DEF Residues, ML_KEM_Q
    <2>4. \A b \in Others \cup {v, ML_KEM_Q - 1 - v, (ML_KEM_Q - v) % ML_KEM_Q} :
            b \in Residues
      BY <2>1, <2>2, <2>3, Zenon
    <2>5. QED
      BY <2>4, AddCorrect, SubCorrect, Zenon DEF AddSubExact
  <1>2. QED
    BY <1>1, SweepTyped, PTL

\* The operands of ReduceCorrect.
Reducible(x) == x \in Nat /\ x <= 16777216

LEMMA ProductReducible ==
  ASSUME NEW a \in Residues, NEW b \in Residues
  PROVE  Reducible(a * b)
  <1>1. a \in Nat /\ b \in Nat /\ a <= 3328 /\ b <= 3328
    BY SMT DEF Residues, ML_KEM_Q
  <1>2. a * b \in Nat /\ a * 3328 \in Nat
    BY <1>1, SMT
  <1>2a. a * b <= a * 3328
    BY <1>1, SMTT(30)
  <1>3. a * 3328 <= 11075584
    BY <1>1, SMT
  <1> DEFINE p == a * b
             w == a * 3328
  <1>4. p \in Nat /\ w \in Nat /\ p <= w /\ w <= 11075584
    BY <1>2, <1>2a, <1>3, SMT DEF p, w
  <1> HIDE DEF p, w
  <1>5. Reducible(p)
    BY <1>4, SMT DEF Reducible
  <1>6. QED
    BY <1>5, SMT DEF p

\* The reduction is exact at the multiples of q that a product of residues can
\* reach, at their neighbours, and at every wide product below 2^24.
THEOREM ReduceSafe == PrimitivesSpec => []ReduceExact
  <1>1. Typed => ReduceExact
    <2> SUFFICES ASSUME v \in Residues
                 PROVE  ReduceExact
      BY DEF Typed
    <2>1. ASSUME NEW e \in {0, 1, ML_KEM_Q - 1}
          PROVE  Reducible(v * ML_KEM_Q + e)
      BY SMT DEF Reducible, Residues, ML_KEM_Q
    <2>2. ASSUME NEW b \in Others \cup {v}
          PROVE  Reducible(v * b)
      <3>1. b \in Residues
        BY ModArithAssumption, SMT DEF Residues
      <3>2. QED
        BY <3>1, ProductReducible, Zenon
    <2>3. ASSUME NEW w \in Wide
          PROVE  Reducible(w + v)
      <3>1. w \in Nat /\ w + ML_KEM_Q <= MaxProduct
        BY ModArithAssumption
      <3>2. w \in Nat /\ w <= 16773887
        BY <3>1, SMT DEF ML_KEM_Q, MaxProduct
      <3>3. v \in Nat /\ v <= 3328
        BY SMT DEF Residues, ML_KEM_Q
      <3>4. QED
        BY <3>2, <3>3, SMT DEF Reducible
    <2>4. ASSUME NEW x \in {v * ML_KEM_Q + e : e \in {0, 1, ML_KEM_Q - 1}}
                             \cup {v * b : b \in Others \cup {v}} \cup {w + v : w \in Wide}
          PROVE  Reducible(x)
      BY <2>1, <2>2, <2>3, Zenon
    <2>5. ASSUME NEW x, Reducible(x)
          PROVE  /\ Remainder(x) \in -ML_KEM_Q .. ML_KEM_Q - 1
                 /\ ml_kem_barrett_reduce(x) = x % ML_KEM_Q
      BY <2>5, ReduceCorrect, SMT DEF Reducible
    <2>6. QED
      BY <2>4, <2>5, Zenon DEF ReduceExact
  <1>2. QED
    BY <1>1, SweepTyped, PTL

\* Every operation of ModArith is exact wherever the sweep meets it.
THEOREM ModularSafe == PrimitivesSpec => []ModularExact
  <1>1. SubIfGeExact /\ AddSubExact /\ ReduceExact => ModularExact
    BY DEF ModularExact
  <1>2. QED
    BY <1>1, SubIfGeSafe, AddSubSafe, ReduceSafe, PTL

-----------------------------------------------------------------------------
(* The number theoretic transform: the operations and tables it uses *)

LEMMA TransformAdd ==
  ASSUME NEW a \in Residues, NEW b \in Residues
  PROVE  Transforming!ml_kem_add_mod(a, b) \in Residues /\ Transforming!ml_kem_sub_mod(a, b) \in Residues
  <1>1. /\ Transforming!ml_kem_add_mod(a, b) = ml_kem_add_mod(a, b)
        /\ Transforming!ml_kem_sub_mod(a, b) = ml_kem_sub_mod(a, b)
    BY DEF Transforming!ml_kem_sub_mod, ml_kem_sub_mod, Transforming!ml_kem_ct_sub_if_ge,
           ml_kem_ct_sub_if_ge, Transforming!U16, U16, Transforming!And, And, Transforming!Borrow,
           Borrow, Transforming!Lift, Lift, Transforming!ML_KEM_Q, ML_KEM_Q,
           Transforming!ml_kem_add_mod, ml_kem_add_mod
  <1>2. \A x \in Int : x % ML_KEM_Q \in Residues
    BY DEF ML_KEM_Q, Residues
  <1>3. a + b \in Int /\ a - b \in Int
    BY DEF Residues, ML_KEM_Q
  <1>4. ml_kem_add_mod(a, b) = (a + b) % ML_KEM_Q /\ ml_kem_sub_mod(a, b) = (a - b) % ML_KEM_Q
    BY AddCorrect, SubCorrect
  <1> QED
    BY <1>1, <1>2, <1>3, <1>4

LEMMA TransformMul ==
  ASSUME NEW a \in Residues, NEW b \in Residues
  PROVE  Transforming!ml_kem_multipl_mod(a, b) \in Residues
  <1>1. Transforming!ml_kem_multipl_mod(a, b) = ml_kem_multipl_mod(a, b)
    BY DEF Transforming!ml_kem_multipl_mod, ml_kem_multipl_mod, Transforming!ml_kem_barrett_reduce,
           ml_kem_barrett_reduce, Transforming!Remainder, Remainder, Transforming!Quotient, Quotient,
           Transforming!BARRETT_MU, BARRETT_MU, Transforming!U16, U16,
           Transforming!IfNegative, IfNegative, Transforming!ML_KEM_Q, ML_KEM_Q
  <1>2. ASSUME NEW x, Reducible(x)
        PROVE  ml_kem_barrett_reduce(x) \in Residues
    <2>1. x \in Nat /\ ml_kem_barrett_reduce(x) = x % ML_KEM_Q
      BY <1>2, ReduceCorrect, SMT DEF Reducible
    <2> QED
      BY <2>1, SMT DEF ML_KEM_Q, Residues
  <1>3. Reducible(a * b)
    BY ProductReducible
  <1>4. ml_kem_multipl_mod(a, b) \in Residues
    BY <1>2, <1>3 DEF ml_kem_multipl_mod
  <1> QED
    BY <1>1, <1>4

LEMMA ZetasReduced ==
  ASSUME NEW e \in 0 .. 127
  PROVE  Transforming!ml_kem_zetas(e) \in Residues
  <1> DEFINE Places == 1 .. 128
  <1>1. ASSUME NEW d \in Places
        PROVE  Transforming!ZetaTable[d] \in Residues
    BY SMTT(60) DEF Transforming!ZetaTable, Residues, ML_KEM_Q
  <1>2. e + 1 \in Places
    OBVIOUS
  <1> HIDE DEF Places
  <1> QED
    BY <1>1, <1>2, Zenon DEF Transforming!ml_kem_zetas

LEMMA GammasReduced ==
  ASSUME NEW e \in 0 .. 127
  PROVE  Transforming!ml_kem_gammas(e) \in Residues
  <1> DEFINE Places == 1 .. 128
  <1>1. ASSUME NEW d \in Places
        PROVE  Transforming!GammaTable[d] \in Residues
    BY SMTT(60) DEF Transforming!GammaTable, Residues, ML_KEM_Q
  <1>2. e + 1 \in Places
    OBVIOUS
  <1> HIDE DEF Places
  <1> QED
    BY <1>1, <1>2, Zenon DEF Transforming!ml_kem_gammas

\* The recursion of the powers of 17.
PowerStep(e, half) ==
  IF e = 0 THEN 1
  ELSE (((half * half) % ML_KEM_Q) * (IF e % 2 = 0 THEN 1 ELSE 17)) % ML_KEM_Q

LEMMA OneReduced == 0 \in Residues /\ 1 \in Residues
  BY DEF Residues, ML_KEM_Q

LEMMA PowerStepReduced ==
  ASSUME NEW e \in Nat, NEW half \in Residues
  PROVE  PowerStep(e, half) \in Residues
  <1>1. half * half \in Int
    BY DEF Residues
  <1>2. PICK h \in Int : h = (half * half) % ML_KEM_Q
    BY <1>1 DEF ML_KEM_Q
  <1>3. h * (IF e % 2 = 0 THEN 1 ELSE 17) \in Int
    BY <1>2
  <1>4. \A x \in Int : x % ML_KEM_Q \in Residues
    BY DEF ML_KEM_Q, Residues
  <1>5. 1 \in Residues
    BY DEF ML_KEM_Q, Residues
  <1> QED
    BY <1>2, <1>3, <1>4, <1>5 DEF PowerStep

\* A table of the first l powers.
Tabled(l) ==
  \E g \in [0 .. l - 1 -> Residues] : \A e \in 0 .. l - 1 : g[e] = PowerStep(e, g[e \div 2])

LEMMA TabledTwice ==
  ASSUME NEW l \in Nat \ {0}, Tabled(l)
  PROVE  Tabled(2 * l)
  <1>1. PICK g \in [0 .. l - 1 -> Residues] : \A e \in 0 .. l - 1 : g[e] = PowerStep(e, g[e \div 2])
    BY DEF Tabled
  <1> DEFINE h == [e \in 0 .. 2 * l - 1 |-> PowerStep(e, g[e \div 2])]
  <1>2. ASSUME NEW e \in 0 .. 2 * l - 1
        PROVE  /\ e \in Nat /\ e \div 2 \in 0 .. l - 1 /\ e \div 2 \in 0 .. 2 * l - 1
               /\ g[e \div 2] \in Residues /\ h[e \div 2] = g[e \div 2]
    <2>1. e \in Nat /\ e \div 2 \in 0 .. l - 1 /\ e \div 2 \in 0 .. 2 * l - 1
      BY SMT
    <2>2. g[e \div 2] = PowerStep(e \div 2, g[(e \div 2) \div 2])
      BY <1>1, <2>1
    <2> QED
      BY <1>1, <2>1, <2>2
  <1>3. h \in [0 .. 2 * l - 1 -> Residues]
    BY <1>2, PowerStepReduced
  <1>4. \A e \in 0 .. 2 * l - 1 : h[e] = PowerStep(e, h[e \div 2])
    BY <1>2
  <1> HIDE DEF h
  <1> QED
    BY <1>3, <1>4 DEF Tabled

\* The powers are what their recursion says: there is a table that satisfies it.
LEMMA PowersFollow ==
  \A e \in 0 .. 255 : Transforming!Power[e] = PowerStep(e, Transforming!Power[e \div 2])
  <1>1. Tabled(1)
    <2> DEFINE g == [d \in 0 .. 1 - 1 |-> 1]
    <2>1. g \in [0 .. 1 - 1 -> Residues]
      BY DEF Residues, ML_KEM_Q
    <2>2. \A d \in 0 .. 1 - 1 : g[d] = PowerStep(d, g[d \div 2])
      BY DEF PowerStep
    <2> QED
      BY <2>1, <2>2 DEF Tabled
  <1>2. Tabled(2)
    <2>1. 2 * 1 = 2
      OBVIOUS
    <2> QED
      BY <1>1, <2>1, TabledTwice
  <1>3. Tabled(256)
    <2>1. 2 * 2 = 4 /\ 2 * 4 = 8 /\ 2 * 8 = 16 /\ 2 * 16 = 32 /\ 2 * 32 = 64 /\ 2 * 64 = 128 /\ 2 * 128 = 256
      OBVIOUS
    <2>2. Tabled(4)
      BY <1>2, <2>1, TabledTwice
    <2>3. Tabled(8)
      BY <2>1, <2>2, TabledTwice
    <2>4. Tabled(16)
      BY <2>1, <2>3, TabledTwice
    <2>5. Tabled(32)
      BY <2>1, <2>4, TabledTwice
    <2>6. Tabled(64)
      BY <2>1, <2>5, TabledTwice
    <2>7. Tabled(128)
      BY <2>1, <2>6, TabledTwice
    <2> QED
      BY <2>1, <2>7, TabledTwice
  <1> DEFINE rec(g) == [d \in 0 .. 255 |-> PowerStep(d, g[d \div 2])]
             power == CHOOSE g : g = rec(g)
  <1>4. PICK g \in [0 .. 255 -> Residues] : \A d \in 0 .. 255 : g[d] = PowerStep(d, g[d \div 2])
    <2>1. 0 .. 256 - 1 = 0 .. 255
      OBVIOUS
    <2>2. \E g \in [0 .. 256 - 1 -> Residues] : \A d \in 0 .. 256 - 1 : g[d] = PowerStep(d, g[d \div 2])
      BY <1>3, Zenon DEF Tabled
    <2> QED
      BY <2>1, <2>2, Zenon
  <1>5. g = rec(g)
    BY <1>4
  <1>6. power = rec(power)
    BY <1>5
  <1>7. Transforming!Power = power
    BY DEF Transforming!Power, PowerStep, Transforming!ML_KEM_Q, ML_KEM_Q
  <1> HIDE DEF power
  <1>8. \A d \in 0 .. 255 : power[d] = PowerStep(d, power[d \div 2])
    BY <1>6
  <1> QED
    BY <1>7, <1>8

LEMMA PowersReduced ==
  ASSUME NEW e \in 0 .. 255
  PROVE  Transforming!Power[e] \in Residues
  <1> DEFINE wrong == {d \in 0 .. 255 : Transforming!Power[d] \notin Residues}
  <1>1. wrong = {}
    <2> SUFFICES ASSUME wrong # {}
                 PROVE  FALSE
      OBVIOUS
    <2>1. wrong \subseteq Nat
      OBVIOUS
    <2> HIDE DEF wrong
    <2>2. PICK d \in wrong : \A other \in wrong : ~(other < d)
      BY <2>1, LeastExists
    <2> USE DEF wrong
    <2>3. d \in 0 .. 255 /\ Transforming!Power[d] \notin Residues
      BY <2>2
    <2>4. CASE d = 0
      <3>1. Transforming!Power[d] = 1
        BY <2>3, <2>4, PowersFollow DEF PowerStep
      <3> QED
        BY <2>3, <3>1, OneReduced
    <2>5. CASE d # 0
      <3>1. d \in Nat /\ d \div 2 \in 0 .. 255 /\ d \div 2 < d
        BY <2>3, <2>5
      <3>2. Transforming!Power[d \div 2] \in Residues
        BY <2>2, <3>1
      <3> QED
        BY <2>3, <3>1, <3>2, PowersFollow, PowerStepReduced
    <2> QED
      BY <2>4, <2>5
  <1> QED
    BY <1>1

-----------------------------------------------------------------------------
(* The number theoretic transform: its loops *)

Cells == 0 .. 255
Lens == {2, 4, 8, 16, 32, 64, 128}

NttInv ==
  /\ pc \in {"ntt", "multiply", "intt", "scale", "done"}
  /\ n \in Cells /\ f \in [Cells -> Residues]
  /\ len \in Lens /\ start \in Cells /\ start % (2 * len) = 0 /\ start + 2 * len <= 256
  /\ i \in 0 .. 128
  /\ pc = "ntt" => i = (128 \div len) + (start \div (2 * len))
  /\ pc = "multiply" => start = 0 /\ i <= 120 /\ i % 8 = 0
  /\ pc = "intt" => i = ((256 \div len) - 1) - (start \div (2 * len))

LEMMA TransformReduced ==
  ASSUME NEW e \in Cells
  PROVE  /\ DOMAIN Transforming!Transformed[e] = Cells
         /\ \A c \in Cells : Transforming!Transformed[e][c] \in Residues
  <1>1. ASSUME NEW x \in Int
        PROVE  x % 256 \in 0 .. 255
    BY SMT
  <1>2. ASSUME NEW c \in Cells
        PROVE  (2 * Transforming!Reversed(c \div 2) + 1) * (e \div 2) \in Int
    <2>1. e \div 2 \in Int /\ c \div 2 \in Int
      BY DEF Cells
    <2>2. Transforming!Reversed(c \div 2) \in Int
      <3>1. \A b \in Int : b % 2 \in Int
        BY SMT
      <3>2. 2^0 = 1 /\ 2^1 = 2 /\ 2^2 = 4 /\ 2^3 = 8 /\ 2^4 = 16 /\ 2^5 = 32 /\ 2^6 = 64
        BY SMT
      <3> QED
        BY <2>1, <3>1, <3>2 DEF Transforming!Reversed
    <2> QED
      BY <2>1, <2>2
  <1>3. Transforming!Transformed[e] = Transforming!Transform(e)
    BY DEF Transforming!Transformed, Transforming!Cells, Cells, Transforming!ML_KEM_N
  <1>4. DOMAIN Transforming!Transform(e) = Cells
    BY DEF Transforming!Transform, Transforming!Cells, Cells, Transforming!ML_KEM_N
  <1>5. ASSUME NEW c \in Cells
        PROVE  Transforming!Transform(e)[c] \in Residues
    <2>1. Transforming!Transform(e)[c] =
            IF c % 2 # e % 2 THEN 0
            ELSE Transforming!Power[((2 * Transforming!Reversed(c \div 2) + 1) * (e \div 2)) % 256]
      BY DEF Transforming!Transform, Transforming!Cells, Cells, Transforming!ML_KEM_N
    <2>2. Transforming!Power[((2 * Transforming!Reversed(c \div 2) + 1) * (e \div 2)) % 256] \in Residues
      BY <1>1, <1>2, PowersReduced
    <2> QED
      BY <2>1, <2>2, OneReduced
  <1> QED
    BY <1>3, <1>4, <1>5

\* A block of butterflies leaves every coefficient reduced.
LEMMA BlockReduced ==
  ASSUME NttInv, NEW wing,
         \A j \in Transforming!Wings : wing[j][1] \in Residues /\ wing[j][2] \in Residues
  PROVE  Transforming!Block(wing) \in [Cells -> Residues]
  <1>1. ASSUME NEW c \in Cells
        PROVE  (CASE c \in Transforming!Wings -> wing[c][1]
                  [] c - len \in Transforming!Wings -> wing[c - len][2]
                  [] OTHER -> f[c]) \in Residues
    <2>1. f[c] \in Residues
      BY DEF NttInv
    <2>2. ~(c \in Transforming!Wings /\ c - len \in Transforming!Wings)
      BY DEF NttInv, Transforming!Wings, Lens, Cells
    <2>3. CASE c \in Transforming!Wings
      BY <2>2, <2>3
    <2>4. CASE c - len \in Transforming!Wings
      BY <2>2, <2>4
    <2>5. CASE c \notin Transforming!Wings /\ c - len \notin Transforming!Wings
      BY <2>1, <2>5
    <2> QED
      BY <2>3, <2>4, <2>5
  <1> QED
    BY <1>1 DEF Transforming!Block, Transforming!Cells, Cells, Transforming!ML_KEM_N

LEMMA WingCells ==
  ASSUME NttInv, NEW j \in Transforming!Wings
  PROVE  f[j] \in Residues /\ f[j + len] \in Residues
  <1>1. j \in Cells /\ j + len \in Cells
    BY DEF NttInv, Transforming!Wings, Lens, Cells
  <1> QED
    BY <1>1 DEF NttInv

\* The next block of the transform has the next twiddle factor.
LEMMA ForwardTwiddle ==
  ASSUME NEW l \in Lens, NEW b \in Cells, b % (2 * l) = 0, b + 2 * l <= 256,
         NEW e, e = (128 \div l) + (b \div (2 * l))
  PROVE  /\ e \in 1 .. 127
         /\ b + 2 * l < 256 => /\ b + 2 * l \in Cells /\ (b + 2 * l) % (2 * l) = 0
                               /\ (b + 2 * l) + 2 * l <= 256
                               /\ e + 1 = (128 \div l) + ((b + 2 * l) \div (2 * l))
         /\ ~(b + 2 * l < 256) /\ l > 2 =>
              /\ l \div 2 \in Lens /\ e + 1 = (128 \div (l \div 2)) + (0 \div (2 * (l \div 2)))
  <1>1. CASE l = 2
    BY <1>1 DEF Cells, Lens
  <1>2. CASE l = 4
    BY <1>2 DEF Cells, Lens
  <1>3. CASE l = 8
    BY <1>3 DEF Cells, Lens
  <1>4. CASE l = 16
    BY <1>4 DEF Cells, Lens
  <1>5. CASE l = 32
    BY <1>5 DEF Cells, Lens
  <1>6. CASE l = 64
    BY <1>6 DEF Cells, Lens
  <1>7. CASE l = 128
    BY <1>7 DEF Cells, Lens
  <1> QED
    BY <1>1, <1>2, <1>3, <1>4, <1>5, <1>6, <1>7 DEF Lens

LEMMA BackwardTwiddle ==
  ASSUME NEW l \in Lens, NEW b \in Cells, b % (2 * l) = 0, b + 2 * l <= 256,
         NEW e, e = ((256 \div l) - 1) - (b \div (2 * l))
  PROVE  /\ e \in 1 .. 127
         /\ b + 2 * l < 256 => /\ b + 2 * l \in Cells /\ (b + 2 * l) % (2 * l) = 0
                               /\ (b + 2 * l) + 2 * l <= 256
                               /\ e - 1 = ((256 \div l) - 1) - ((b + 2 * l) \div (2 * l))
         /\ ~(b + 2 * l < 256) /\ l < 128 =>
              /\ 2 * l \in Lens /\ e - 1 = ((256 \div (2 * l)) - 1) - (0 \div (2 * (2 * l)))
  <1>1. CASE l = 2
    BY <1>1 DEF Cells, Lens
  <1>2. CASE l = 4
    BY <1>2 DEF Cells, Lens
  <1>3. CASE l = 8
    BY <1>3 DEF Cells, Lens
  <1>4. CASE l = 16
    BY <1>4 DEF Cells, Lens
  <1>5. CASE l = 32
    BY <1>5 DEF Cells, Lens
  <1>6. CASE l = 64
    BY <1>6 DEF Cells, Lens
  <1>7. CASE l = 128
    BY <1>7 DEF Cells, Lens
  <1> QED
    BY <1>1, <1>2, <1>3, <1>4, <1>5, <1>6, <1>7 DEF Lens


LEMMA NttStarts ==
  ASSUME Transforming!Init
  PROVE  NttInv
  <1>1. ASSUME NEW c \in Cells
        PROVE  (IF c # m % 256 THEN 0 ELSE IF m < 256 THEN 1 ELSE ML_KEM_Q - 1) \in Residues
    BY DEF Residues, ML_KEM_Q
  <1>2. f \in [Cells -> Residues]
    BY <1>1 DEF Transforming!Init, Transforming!Monomial, Transforming!Cells, Cells, Transforming!ML_KEM_N,
                Transforming!ML_KEM_Q, ML_KEM_Q
  <1>3. n \in Cells
    BY PrimitivesAssumption DEF Transforming!Init, Cells
  <1>4. pc = "ntt" /\ len = 128 /\ start = 0 /\ i = 1
    BY DEF Transforming!Init
  <1> QED
    BY <1>2, <1>3, <1>4 DEF NttInv, Cells, Lens

LEMMA ForwardKeeps ==
  ASSUME NttInv, Transforming!ml_kem_ntt_fips203
  PROVE  NttInv'
  <1> DEFINE zeta == Transforming!ml_kem_zetas(i)
             t0(j) == Transforming!ml_kem_multipl_mod(zeta, f[j + len])
             wing == [j \in Transforming!Wings |->
                        <<Transforming!Sum(f[j], t0(j)), Transforming!Diff(f[j], t0(j))>>]
  <1>0. /\ pc = "ntt" /\ f' = Transforming!Block(wing) /\ n' = n
        /\ IF start + 2 * len < 256
           THEN start' = start + 2 * len /\ i' = i + 1 /\ pc' = pc /\ len' = len
           ELSE /\ start' = 0
                /\ IF len > 2 THEN len' = len \div 2 /\ i' = i + 1 /\ pc' = pc
                              ELSE pc' = "multiply" /\ i' = 0 /\ len' = len
    BY DEF Transforming!ml_kem_ntt_fips203, Transforming!Stride, Transforming!ML_KEM_N
  <1>1. /\ len \in Lens /\ start \in Cells /\ start % (2 * len) = 0 /\ start + 2 * len <= 256
        /\ i = (128 \div len) + (start \div (2 * len)) /\ n \in Cells
    BY <1>0 DEF NttInv
  <1>2. /\ i \in 1 .. 127
        /\ start + 2 * len < 256 =>
             /\ start + 2 * len \in Cells /\ (start + 2 * len) % (2 * len) = 0
             /\ (start + 2 * len) + 2 * len <= 256
             /\ i + 1 = (128 \div len) + ((start + 2 * len) \div (2 * len))
        /\ ~(start + 2 * len < 256) /\ len > 2 =>
             /\ len \div 2 \in Lens /\ i + 1 = (128 \div (len \div 2)) + (0 \div (2 * (len \div 2)))
    BY <1>1, ForwardTwiddle
  <1>3. f' \in [Cells -> Residues]
    <2>1. zeta \in Residues
      BY <1>2, ZetasReduced
    <2>2. ASSUME NEW j \in Transforming!Wings
          PROVE  wing[j][1] \in Residues /\ wing[j][2] \in Residues
      <3>1. f[j] \in Residues /\ f[j + len] \in Residues
        BY WingCells
      <3>2. t0(j) \in Residues
        BY <2>1, <3>1, TransformMul
      <3>3. wing[j] = <<Transforming!Sum(f[j], t0(j)), Transforming!Diff(f[j], t0(j))>>
        OBVIOUS
      <3> HIDE DEF t0, wing
      <3> QED
        BY <3>1, <3>2, <3>3, TransformAdd DEF Transforming!Sum, Transforming!Diff
    <2> HIDE DEF wing
    <2> QED
      BY <1>0, <2>2, BlockReduced
  <1> HIDE DEF wing
  <1>4. ASSUME NEW l \in Lens
        PROVE  0 \in Cells /\ 0 % (2 * l) = 0 /\ 0 + 2 * l <= 256
    BY DEF Cells, Lens
  <1>5. CASE start + 2 * len < 256
    BY <1>0, <1>1, <1>2, <1>3, <1>5 DEF NttInv
  <1>6. CASE ~(start + 2 * len < 256) /\ len > 2
    <2>1. i + 1 \in 0 .. 128
      BY <1>2
    <2>2. len' = len \div 2 /\ i' = i + 1 /\ pc' = "ntt" /\ start' = 0 /\ len' \in Lens
      BY <1>0, <1>2, <1>6
    <2> QED
      BY <1>0, <1>1, <1>2, <1>3, <1>4, <1>6, <2>1, <2>2 DEF NttInv
  <1>7. CASE ~(start + 2 * len < 256) /\ ~(len > 2)
    <2>1. len' = len /\ i' = 0 /\ pc' = "multiply" /\ start' = 0
      BY <1>0, <1>7
    <2> QED
      BY <1>0, <1>1, <1>3, <1>4, <2>1 DEF NttInv
  <1> QED
    BY <1>5, <1>6, <1>7

LEMMA MultiplyKeeps ==
  ASSUME NttInv, Transforming!ml_kem_multiply
  PROVE  NttInv'
  <1> DEFINE second == Transforming!Transformed[n]
             p(c) == c - (c % 2)
             g(c) == Transforming!ml_kem_gammas(c \div 2)
  <1>0. /\ pc = "multiply" /\ n' = n
        /\ f' = [c \in Cells |->
                   IF c \div 2 \notin i .. i + 7 THEN f[c]
                   ELSE IF c % 2 = 0
                     THEN Transforming!Even(f[p(c)], f[p(c) + 1], second[p(c)], second[p(c) + 1], g(c))
                     ELSE Transforming!Odd(f[p(c)], f[p(c) + 1], second[p(c)], second[p(c) + 1], g(c))]
        /\ IF i + 8 < 128
           THEN i' = i + 8 /\ pc' = pc /\ len' = len /\ start' = start
           ELSE pc' = "intt" /\ i' = 127 /\ len' = 2 /\ start' = 0
    BY DEF Transforming!ml_kem_multiply, Transforming!Cells, Cells, Transforming!ML_KEM_N,
           Transforming!HALF_NUMB_COEF_TWIDDLES
  <1>1. /\ n \in Cells /\ f \in [Cells -> Residues] /\ len \in Lens /\ start = 0
        /\ i \in 0 .. 120 /\ i % 8 = 0
    BY <1>0 DEF NttInv
  <1>2. f' \in [Cells -> Residues]
    <2>1. ASSUME NEW a \in Residues, NEW b \in Residues, NEW c \in Residues, NEW d \in Residues,
                 NEW e \in Residues
          PROVE  Transforming!Even(a, b, c, d, e) \in Residues /\ Transforming!Odd(a, b, c, d, e) \in Residues
      BY TransformAdd, TransformMul DEF Transforming!Even, Transforming!Odd
    <2>2. ASSUME NEW c \in Cells
          PROVE  /\ f[c] \in Residues /\ f[p(c)] \in Residues /\ f[p(c) + 1] \in Residues
                 /\ second[p(c)] \in Residues /\ second[p(c) + 1] \in Residues /\ g(c) \in Residues
      <3>1. p(c) \in Cells /\ p(c) + 1 \in Cells /\ c \div 2 \in 0 .. 127
        BY DEF Cells
      <3>2. \A d \in Cells : f[d] \in Residues /\ second[d] \in Residues
        BY <1>1, TransformReduced
      <3> QED
        BY <3>1, <3>2, GammasReduced
    <2> HIDE DEF second, p, g
    <2> QED
      BY <1>0, <2>1, <2>2
  <1> HIDE DEF second, p, g
  <1>3. 0 \in Cells /\ 0 % (2 * 2) = 0 /\ 2 \in Lens
        /\ 127 = ((256 \div 2) - 1) - (0 \div (2 * 2))
    BY DEF Cells, Lens
  <1>4. CASE i + 8 < 128
    <2>1. i + 8 \in 0 .. 128 /\ i + 8 <= 120 /\ (i + 8) % 8 = 0
      BY <1>1, <1>4
    <2> QED
      BY <1>0, <1>2, <1>4, <2>1 DEF NttInv
  <1>5. CASE ~(i + 8 < 128)
    BY <1>0, <1>1, <1>2, <1>3, <1>5 DEF NttInv
  <1> QED
    BY <1>4, <1>5

LEMMA BackwardKeeps ==
  ASSUME NttInv, Transforming!ml_kem_intt_fips203
  PROVE  NttInv'
  <1> DEFINE zeta == Transforming!ml_kem_zetas(i)
             d0(j) == Transforming!InverseDiff(f[j], f[j + len])
             wing == [j \in Transforming!Wings |->
                        <<Transforming!Sum(f[j], f[j + len]), Transforming!ml_kem_multipl_mod(zeta, d0(j))>>]
  <1>0. /\ pc = "intt" /\ f' = Transforming!Block(wing) /\ n' = n
        /\ IF start + 2 * len < 256
           THEN start' = start + 2 * len /\ i' = i - 1 /\ pc' = pc /\ len' = len
           ELSE /\ start' = 0
                /\ IF len < 128 THEN len' = 2 * len /\ i' = i - 1 /\ pc' = pc
                                ELSE pc' = "scale" /\ len' = len /\ i' = i
    BY DEF Transforming!ml_kem_intt_fips203, Transforming!Stride, Transforming!ML_KEM_N,
           Transforming!HALF_NUMB_COEF_TWIDDLES
  <1>1. /\ len \in Lens /\ start \in Cells /\ start % (2 * len) = 0 /\ start + 2 * len <= 256
        /\ i = ((256 \div len) - 1) - (start \div (2 * len)) /\ n \in Cells
    BY <1>0 DEF NttInv
  <1>2. /\ i \in 1 .. 127
        /\ start + 2 * len < 256 =>
             /\ start + 2 * len \in Cells /\ (start + 2 * len) % (2 * len) = 0
             /\ (start + 2 * len) + 2 * len <= 256
             /\ i - 1 = ((256 \div len) - 1) - ((start + 2 * len) \div (2 * len))
        /\ ~(start + 2 * len < 256) /\ len < 128 =>
             /\ 2 * len \in Lens /\ i - 1 = ((256 \div (2 * len)) - 1) - (0 \div (2 * (2 * len)))
    BY <1>1, BackwardTwiddle
  <1>3. f' \in [Cells -> Residues]
    <2>1. zeta \in Residues
      BY <1>2, ZetasReduced
    <2>2. ASSUME NEW j \in Transforming!Wings
          PROVE  wing[j][1] \in Residues /\ wing[j][2] \in Residues
      <3>1. f[j] \in Residues /\ f[j + len] \in Residues
        BY WingCells
      <3>2. d0(j) \in Residues
        BY <3>1, TransformAdd DEF Transforming!InverseDiff
      <3>3. wing[j] = <<Transforming!Sum(f[j], f[j + len]), Transforming!ml_kem_multipl_mod(zeta, d0(j))>>
        OBVIOUS
      <3> HIDE DEF d0, wing, zeta
      <3> QED
        BY <2>1, <3>1, <3>2, <3>3, TransformAdd, TransformMul DEF Transforming!Sum
    <2> HIDE DEF wing
    <2> QED
      BY <1>0, <2>2, BlockReduced
  <1> HIDE DEF wing
  <1>4. ASSUME NEW l \in Lens
        PROVE  0 \in Cells /\ 0 % (2 * l) = 0 /\ 0 + 2 * l <= 256
    BY DEF Cells, Lens
  <1>5. CASE start + 2 * len < 256
    BY <1>0, <1>1, <1>2, <1>3, <1>5 DEF NttInv
  <1>6. CASE ~(start + 2 * len < 256) /\ len < 128
    <2>1. i - 1 \in 0 .. 128
      BY <1>2
    <2>2. len' = 2 * len /\ i' = i - 1 /\ pc' = "intt" /\ start' = 0 /\ len' \in Lens
      BY <1>0, <1>2, <1>6
    <2> QED
      BY <1>0, <1>1, <1>2, <1>3, <1>4, <1>6, <2>1, <2>2 DEF NttInv
  <1>7. CASE ~(start + 2 * len < 256) /\ ~(len < 128)
    <2>1. len' = len /\ i' = i /\ pc' = "scale" /\ start' = 0
      BY <1>0, <1>7
    <2> QED
      BY <1>0, <1>1, <1>2, <1>3, <1>4, <2>1 DEF NttInv
  <1> QED
    BY <1>5, <1>6, <1>7

LEMMA ScaleKeeps ==
  ASSUME NttInv, Transforming!Scale
  PROVE  NttInv'
  <1>1. /\ pc' = "done" /\ n' = n /\ len' = len /\ start' = start /\ i' = i
        /\ f' = [c \in Cells |-> Transforming!ml_kem_multipl_mod(f[c], 3303)]
    BY DEF Transforming!Scale, Transforming!Cells, Cells, Transforming!ML_KEM_N,
           Transforming!ML_KEM_COEFF_NORMALIZATION
  <1>2. 3303 \in Residues
    BY DEF Residues, ML_KEM_Q
  <1>3. f' \in [Cells -> Residues]
    BY <1>1, <1>2, TransformMul DEF NttInv
  <1> QED
    BY <1>1, <1>3 DEF NttInv

\* The transform, the product in its domain and the inverse never meet a
\* coefficient that is not reduced, never read outside the tables, and every
\* block has the twiddle factor that belongs to it, whatever polynomial X^n the
\* first is multiplied by (ml_kem_ntt_main.c).
THEOREM TransformStaysReduced ==
  PrimitivesSpec => [](part = "ntt" => Transforming!TypeOK /\ Transforming!TwiddleInOrder)
  <1> DEFINE Kept == part = "ntt" => NttInv
  <1>1. PrimitivesInit => Kept
    BY NttStarts DEF PrimitivesInit
  <1>2. Kept /\ [PrimitivesNext]_primitiveVars => Kept'
    <2> SUFFICES ASSUME Kept, [PrimitivesNext]_primitiveVars, part' = "ntt"
                 PROVE  NttInv'
      OBVIOUS
    <2>1. CASE RunNtt(Transforming!Next)
      <3>1. NttInv
        BY <2>1 DEF RunNtt
      <3>2. \/ Transforming!ml_kem_ntt_fips203 \/ Transforming!ml_kem_multiply
            \/ Transforming!ml_kem_intt_fips203 \/ Transforming!Scale
        BY <2>1 DEF RunNtt, Transforming!Next
      <3> QED
        BY <3>1, <3>2, ForwardKeeps, MultiplyKeeps, BackwardKeeps, ScaleKeeps
    <2>2. CASE ~RunNtt(Transforming!Next)
      <3>1. part = "ntt" /\ UNCHANGED nttVars
        BY <2>2 DEF PrimitivesNext, primitiveVars, RunResidues, RunCbd, RunKeccak, RunScheme
      <3> QED
        BY <3>1 DEF nttVars, NttInv
    <2> QED
      BY <2>1, <2>2
  <1>3. Kept => (part = "ntt" => Transforming!TypeOK /\ Transforming!TwiddleInOrder)
    <2> SUFFICES ASSUME NttInv
                 PROVE  Transforming!TypeOK /\ Transforming!TwiddleInOrder
      OBVIOUS
    <2>1. len \in 2 .. 128 /\ start \in 0 .. 255
      BY DEF NttInv, Lens, Cells
    <2>2. Transforming!TypeOK
      <3>1. Transforming!Cells = Cells /\ Transforming!Residues = Residues
        BY DEF Transforming!Cells, Cells, Transforming!ML_KEM_N, Transforming!Residues, Residues,
               Transforming!ML_KEM_Q, ML_KEM_Q
      <3> QED
        BY <2>1, <3>1 DEF NttInv, Transforming!TypeOK
    <2>3. Transforming!TwiddleInOrder
      BY DEF NttInv, Transforming!TwiddleInOrder
    <2> QED
      BY <2>2, <2>3
  <1> QED
    BY <1>1, <1>2, <1>3, PTL DEF PrimitivesSpec

-----------------------------------------------------------------------------
(* The number theoretic transform: residues and powers *)

AddQ(a, b) == (a + b) % 3329
SubQ(a, b) == (a - b) % 3329
MulQ(a, b) == (a * b) % 3329

LEMMA InResidues ==
  /\ Residues = 0 .. 3328
  /\ \A x \in Int : x % 3329 \in Residues
  BY DEF Residues, ML_KEM_Q

\* The operations of the code on residues.
LEMMA OperationsAre ==
  ASSUME NEW a \in Residues, NEW b \in Residues
  PROVE  /\ Transforming!ml_kem_add_mod(a, b) = AddQ(a, b)
         /\ Transforming!ml_kem_sub_mod(a, b) = SubQ(a, b)
         /\ Transforming!ml_kem_multipl_mod(a, b) = MulQ(a, b)
  <1>1. /\ Transforming!ml_kem_add_mod(a, b) = ml_kem_add_mod(a, b)
        /\ Transforming!ml_kem_sub_mod(a, b) = ml_kem_sub_mod(a, b)
    BY DEF Transforming!ml_kem_sub_mod, ml_kem_sub_mod, Transforming!ml_kem_ct_sub_if_ge,
           ml_kem_ct_sub_if_ge, Transforming!U16, U16, Transforming!And, And, Transforming!Borrow,
           Borrow, Transforming!Lift, Lift, Transforming!ML_KEM_Q, ML_KEM_Q,
           Transforming!ml_kem_add_mod, ml_kem_add_mod
  <1>2. Transforming!ml_kem_multipl_mod(a, b) = ml_kem_multipl_mod(a, b)
    BY DEF Transforming!ml_kem_multipl_mod, ml_kem_multipl_mod, Transforming!ml_kem_barrett_reduce,
           ml_kem_barrett_reduce, Transforming!Remainder, Remainder, Transforming!Quotient, Quotient,
           Transforming!BARRETT_MU, BARRETT_MU, Transforming!U16, U16,
           Transforming!IfNegative, IfNegative, Transforming!ML_KEM_Q, ML_KEM_Q
  <1>4. ml_kem_add_mod(a, b) = AddQ(a, b) /\ ml_kem_sub_mod(a, b) = SubQ(a, b)
    BY AddCorrect, SubCorrect DEF ML_KEM_Q, AddQ, SubQ
  <1>5. ml_kem_multipl_mod(a, b) = MulQ(a, b)
    <2>1. ASSUME NEW x, Reducible(x)
          PROVE  ml_kem_barrett_reduce(x) = x % ML_KEM_Q
      BY <2>1, ReduceCorrect, SMT DEF Reducible
    <2>2. Reducible(a * b)
      BY ProductReducible
    <2> QED
      BY <2>1, <2>2 DEF ml_kem_multipl_mod, MulQ, ML_KEM_Q
  <1> QED
    BY <1>1, <1>2, <1>4, <1>5

LEMMA ClosedQ ==
  ASSUME NEW a \in Residues, NEW b \in Residues
  PROVE  AddQ(a, b) \in Residues /\ SubQ(a, b) \in Residues /\ MulQ(a, b) \in Residues
  <1>1. a \in Int /\ b \in Int
    BY InResidues
  <1> QED
    BY <1>1, InResidues DEF AddQ, SubQ, MulQ

\* A reduction of a factor before a product changes nothing.
LEMMA ReducedFactor ==
  ASSUME NEW a \in Int, NEW b \in Int
  PROVE  ((a % 3329) * b) % 3329 = (a * b) % 3329
  <1>1. PICK d \in Int : a = 3329 * d + (a % 3329)
    <2>1. a = 3329 * (a \div 3329) + (a % 3329) /\ a \div 3329 \in Int
      OBVIOUS
    <2> QED
      BY <2>1
  <1>2. PICK r \in Int : r = a % 3329
    OBVIOUS
  <1>3. a * b = 3329 * (d * b) + r * b
    BY <1>1, <1>2, SMTT(30)
  <1>4. \A x \in Int, z0 \in Int : (3329 * x + z0) % 3329 = z0 % 3329
    BY SMT
  <1>5. d * b \in Int /\ r * b \in Int
    OBVIOUS
  <1> QED
    BY <1>2, <1>3, <1>4, <1>5

LEMMA SmallMod ==
  ASSUME NEW a \in Residues
  PROVE  a % 3329 = a /\ 0 % 3329 = 0
  <1>1. a \in 0 .. 3328
    BY InResidues
  <1> QED
    BY <1>1

LEMMA MulLaws ==
  ASSUME NEW a \in Residues, NEW b \in Residues, NEW c \in Residues
  PROVE  /\ MulQ(a, b) = MulQ(b, a)
         /\ MulQ(MulQ(a, b), c) = MulQ(a, MulQ(b, c))
         /\ MulQ(1, a) = a /\ MulQ(a, 1) = a /\ MulQ(0, a) = 0 /\ MulQ(a, 0) = 0
  <1>1. a \in 0 .. 3328 /\ a \in Int /\ b \in Int /\ c \in Int /\ a * b \in Int /\ b * c \in Int
    BY InResidues
  <1>2. a * b = b * a /\ (a * b) * c = (b * c) * a
    BY <1>1, SMTT(30)
  <1>3. MulQ(a, b) = MulQ(b, a)
    BY <1>2 DEF MulQ
  <1>4. MulQ(MulQ(a, b), c) = ((a * b) * c) % 3329
    BY <1>1, ReducedFactor DEF MulQ
  <1>5. MulQ(MulQ(b, c), a) = ((b * c) * a) % 3329
    BY <1>1, ReducedFactor DEF MulQ
  <1>6. MulQ(MulQ(b, c), a) = MulQ(a, MulQ(b, c))
    <2>1. \A x \in Int : x * a = a * x
      BY <1>1
    <2>2. MulQ(b, c) \in Int
      BY <1>1 DEF MulQ
    <2> QED
      BY <2>1, <2>2 DEF MulQ
  <1>7. 1 * a = a /\ a * 1 = a /\ 0 * a = 0 /\ a * 0 = 0
    BY <1>1
  <1>8. a % 3329 = a /\ 0 % 3329 = 0
    BY SmallMod
  <1>9. MulQ(MulQ(a, b), c) = MulQ(a, MulQ(b, c))
    BY <1>2, <1>4, <1>5, <1>6
  <1>10. MulQ(1, a) = a /\ MulQ(a, 1) = a
    BY <1>7, <1>8 DEF MulQ
  <1>11. MulQ(0, a) = 0 /\ MulQ(a, 0) = 0
    BY <1>7, <1>8 DEF MulQ
  <1> QED
    BY <1>3, <1>9, <1>10, <1>11

LEMMA AddLaws ==
  ASSUME NEW a \in Residues
  PROVE  /\ AddQ(a, 0) = a /\ AddQ(0, a) = a /\ SubQ(a, 0) = a
         /\ AddQ(a, MulQ(3328, a)) = 0 /\ SubQ(0, a) = MulQ(3328, a)
         /\ MulQ(2, a) = AddQ(a, a)
  <1>1. a \in 0 .. 3328
    BY InResidues
  <1>2. MulQ(3328, a) = IF a = 0 THEN 0 ELSE 3329 - a
    <2>1. 3328 * a = 3329 * a - a
      BY <1>1
    <2>2. (3329 * a - a) % 3329 = IF a = 0 THEN 0 ELSE 3329 - a
      BY <1>1
    <2> QED
      BY <2>1, <2>2 DEF MulQ
  <1> QED
    BY <1>1, <1>2 DEF AddQ, SubQ, MulQ

LEMMA Few == 0 \in Residues /\ 1 \in Residues /\ 2 \in Residues /\ 17 \in Residues
             /\ 3303 \in Residues /\ 3328 \in Residues
  BY InResidues

\* 3328 is -1.
LEMMA NegIs ==
  ASSUME NEW a \in Residues
  PROVE  MulQ(3328, a) = IF a = 0 THEN 0 ELSE 3329 - a
  <1>1. a \in 0 .. 3328
    BY InResidues
  <1>2. 3328 * a = 3329 * a - a
    BY <1>1
  <1>3. (3329 * a - a) % 3329 = IF a = 0 THEN 0 ELSE 3329 - a
    BY <1>1
  <1> QED
    BY <1>2, <1>3 DEF MulQ

\* -1 behaves like -1, in products and differences.
LEMMA SignLaws ==
  ASSUME NEW a \in Residues, NEW b \in Residues
  PROVE  /\ MulQ(3328, MulQ(3328, a)) = a
         /\ MulQ(b, MulQ(3328, a)) = MulQ(3328, MulQ(b, a))
         /\ SubQ(MulQ(3328, a), a) = MulQ(3328, MulQ(2, a))
         /\ SubQ(a, MulQ(3328, a)) = MulQ(2, a)
  <1>1. a \in 0 .. 3328
    BY InResidues
  <1>2. MulQ(3328, a) = IF a = 0 THEN 0 ELSE 3329 - a
    BY NegIs
  <1>3. MulQ(3328, MulQ(3328, a)) = a
    <2>1. MulQ(MulQ(3328, 3328), a) = MulQ(3328, MulQ(3328, a)) /\ MulQ(1, a) = a
      BY Few, MulLaws
    <2>2. MulQ(3328, 3328) = 1
      BY DEF MulQ
    <2> QED
      BY <2>1, <2>2
  <1>4. MulQ(b, MulQ(3328, a)) = MulQ(3328, MulQ(b, a))
    <2>1. /\ MulQ(b, MulQ(3328, a)) = MulQ(MulQ(b, 3328), a) /\ MulQ(b, 3328) = MulQ(3328, b)
          /\ MulQ(MulQ(3328, b), a) = MulQ(3328, MulQ(b, a))
      BY Few, MulLaws
    <2> QED
      BY <2>1
  <1>5. MulQ(2, a) = IF 2 * a < 3329 THEN 2 * a ELSE 2 * a - 3329
    BY <1>1 DEF MulQ
  <1>6. MulQ(2, a) \in Residues
    BY Few, ClosedQ
  <1>7. SubQ(MulQ(3328, a), a) = MulQ(3328, MulQ(2, a))
    <2>1. MulQ(3328, MulQ(2, a)) = IF MulQ(2, a) = 0 THEN 0 ELSE 3329 - MulQ(2, a)
      BY <1>6, NegIs
    <2>2. PICK twice : twice = MulQ(2, a)
      OBVIOUS
    <2>3. PICK minus : minus = MulQ(3328, a)
      OBVIOUS
    <2>4. twice = IF 2 * a < 3329 THEN 2 * a ELSE 2 * a - 3329
      BY <1>5, <2>2
    <2>5. minus = IF a = 0 THEN 0 ELSE 3329 - a
      BY <1>2, <2>3
    <2>6. (minus - a) % 3329 = IF twice = 0 THEN 0 ELSE 3329 - twice
      BY <1>1, <2>4, <2>5
    <2> QED
      BY <2>1, <2>2, <2>3, <2>6 DEF SubQ
  <1>8. SubQ(a, MulQ(3328, a)) = MulQ(2, a)
    <2>1. PICK minus : minus = MulQ(3328, a)
      OBVIOUS
    <2>2. minus = IF a = 0 THEN 0 ELSE 3329 - a
      BY <1>2, <2>1
    <2>3. (a - minus) % 3329 = IF 2 * a < 3329 THEN 2 * a ELSE 2 * a - 3329
      BY <1>1, <2>2
    <2> QED
      BY <1>5, <2>1, <2>3 DEF SubQ
  <1> QED
    BY <1>3, <1>4, <1>7, <1>8

\* 17^e, for any exponent.
Pow(e) == Transforming!Power[e % 256]

LEMMA PowIs ==
  ASSUME NEW e \in Nat
  PROVE  e % 256 \in 0 .. 255 /\ Pow(e) \in Residues
  <1>1. e % 256 \in 0 .. 255
    BY SMT
  <1> QED
    BY <1>1, PowersReduced DEF Pow

Squared(x) == MulQ(x, x)

LEMMA PowerHalves ==
  ASSUME NEW h \in 0 .. 127
  PROVE  /\ h # 0 => Transforming!Power[2 * h] = Squared(Transforming!Power[h])
         /\ Transforming!Power[2 * h + 1] = MulQ(Squared(Transforming!Power[h]), 17)
         /\ Transforming!Power[0] = 1
  <1>1. /\ 2 * h \in 0 .. 255 /\ 2 * h + 1 \in 0 .. 255 /\ h \in 0 .. 255 /\ 0 \in 0 .. 255
        /\ (2 * h) \div 2 = h /\ (2 * h + 1) \div 2 = h /\ (2 * h) % 2 = 0 /\ (2 * h + 1) % 2 = 1
        /\ 2 * h + 1 # 0 /\ (h # 0 => 2 * h # 0)
    OBVIOUS
  <1>2. PICK x \in Residues : x = Transforming!Power[h]
    BY <1>1, PowersReduced
  <1>3. Squared(x) \in Residues
    BY ClosedQ DEF Squared
  <1>4. /\ h # 0 => Transforming!Power[2 * h] = PowerStep(2 * h, x)
        /\ Transforming!Power[2 * h + 1] = PowerStep(2 * h + 1, x)
        /\ Transforming!Power[0] = 1
    BY <1>1, <1>2, PowersFollow DEF PowerStep
  <1>5. PowerStep(2 * h + 1, x) = MulQ(Squared(x), 17)
    BY <1>1 DEF PowerStep, MulQ, Squared, ML_KEM_Q
  <1>6. h # 0 => PowerStep(2 * h, x) = MulQ(Squared(x), 1)
    BY <1>1 DEF PowerStep, MulQ, Squared, ML_KEM_Q
  <1>7. MulQ(Squared(x), 1) = Squared(x)
    BY <1>3, MulLaws
  <1> QED
    BY <1>2, <1>4, <1>5, <1>6, <1>7

\* The next power is 17 times this one.
LEMMA PowerNext ==
  \A e \in 0 .. 254 : Transforming!Power[e + 1] = MulQ(Transforming!Power[e], 17)
  <1> DEFINE Good(e) == Transforming!Power[e + 1] = MulQ(Transforming!Power[e], 17)
             wrong == {e \in 0 .. 254 : ~Good(e)}
  <1>1. ASSUME NEW e \in 0 .. 254, \A other \in 0 .. 254 : other < e => Good(other)
        PROVE  Good(e)
    <2>1. PICK h \in 0 .. 127 : e = 2 * h \/ e = 2 * h + 1
      <3>1. e \div 2 \in 0 .. 127 /\ (e = 2 * (e \div 2) \/ e = 2 * (e \div 2) + 1)
        OBVIOUS
      <3> QED
        BY <3>1
    <2>2. PICK x \in Residues : x = Transforming!Power[h]
      BY PowersReduced
    <2>3. 17 \in Residues /\ 1 \in Residues /\ Squared(x) \in Residues
      BY ClosedQ, Few DEF Squared
    <2>4. CASE e = 2 * h /\ h = 0
      <3>1. /\ Transforming!Power[2 * 0 + 1] = MulQ(Squared(Transforming!Power[0]), 17)
            /\ Transforming!Power[0] = 1 /\ 2 * 0 + 1 = 0 + 1
        BY <2>1, PowerHalves
      <3>2. Squared(1) = 1
        BY <2>3, MulLaws DEF Squared
      <3> QED
        BY <2>4, <3>1, <3>2
    <2>5. CASE e = 2 * h /\ h # 0
      BY <2>2, <2>5, PowerHalves
    <2>6. CASE e = 2 * h + 1
      <3>1. h \in 0 .. 254 /\ h < e /\ h + 1 \in 0 .. 127 /\ h + 1 # 0 /\ e + 1 = 2 * (h + 1)
        BY <2>6
      <3>2. Transforming!Power[h + 1] = MulQ(x, 17)
        BY <1>1, <2>2, <3>1
      <3>3. Transforming!Power[e + 1] = MulQ(MulQ(x, 17), MulQ(x, 17))
        BY <3>1, <3>2, PowerHalves DEF Squared
      <3>4. MulQ(Transforming!Power[e], 17) = MulQ(MulQ(MulQ(x, x), 17), 17)
        BY <2>2, <2>6, PowerHalves DEF Squared
      <3>5. MulQ(x, 17) \in Residues /\ MulQ(x, x) \in Residues
        BY <2>3, ClosedQ
      <3>6. MulQ(MulQ(x, 17), MulQ(x, 17)) = MulQ(MulQ(MulQ(x, 17), x), 17)
        BY <2>3, <3>5, MulLaws
      <3>7. MulQ(MulQ(x, 17), x) = MulQ(MulQ(x, x), 17)
        <4>1. MulQ(MulQ(x, 17), x) = MulQ(x, MulQ(17, x)) /\ MulQ(17, x) = MulQ(x, 17)
              /\ MulQ(x, MulQ(x, 17)) = MulQ(MulQ(x, x), 17)
          BY <2>3, MulLaws
        <4> QED
          BY <4>1
      <3> QED
        BY <3>3, <3>4, <3>6, <3>7
    <2> QED
      BY <2>1, <2>4, <2>5, <2>6
  <1> HIDE DEF Good
  <1>2. wrong = {}
    <2> SUFFICES ASSUME wrong # {}
                 PROVE  FALSE
      OBVIOUS
    <2>1. wrong \subseteq Nat
      OBVIOUS
    <2> HIDE DEF wrong
    <2>2. PICK e \in wrong : \A other \in wrong : ~(other < e)
      BY <2>1, LeastExists
    <2> USE DEF wrong
    <2> QED
      BY <1>1, <2>2
  <1> QED
    BY <1>2 DEF Good

LEMMA KnownPowers ==
  /\ Transforming!Power[0] = 1 /\ Transforming!Power[1] = 17 /\ Transforming!Power[2] = 289
  /\ Transforming!Power[4] = 296 /\ Transforming!Power[8] = 1062 /\ Transforming!Power[16] = 2642
  /\ Transforming!Power[32] = 2580 /\ Transforming!Power[64] = 1729
  /\ Transforming!Power[128] = 3328 /\ Transforming!Power[255] = 1175
  <1>1. /\ \A h \in 1 .. 127 : Transforming!Power[2 * h] = Squared(Transforming!Power[h])
        /\ \A h \in 0 .. 127 : Transforming!Power[2 * h + 1] = MulQ(Squared(Transforming!Power[h]), 17)
        /\ Transforming!Power[0] = 1
    BY PowerHalves
  <1>2. /\ Squared(1) = 1 /\ MulQ(1, 17) = 17 /\ Squared(17) = 289 /\ Squared(289) = 296 /\ Squared(296) = 1062
        /\ Squared(1062) = 2642 /\ Squared(2642) = 2580 /\ Squared(2580) = 1729 /\ Squared(1729) = 3328
    BY DEF Squared, MulQ
  <1>3. Transforming!Power[1] = 17
    <2>1. Transforming!Power[2 * 0 + 1] = MulQ(Squared(Transforming!Power[0]), 17) /\ 2 * 0 + 1 = 1
      BY <1>1
    <2> QED
      BY <1>1, <1>2, <2>1
  <1>4. /\ Transforming!Power[2] = 289 /\ Transforming!Power[4] = 296 /\ Transforming!Power[8] = 1062
        /\ Transforming!Power[16] = 2642 /\ Transforming!Power[32] = 2580
        /\ Transforming!Power[64] = 1729 /\ Transforming!Power[128] = 3328
    <2>1. /\ 2 * 1 = 2 /\ 2 * 2 = 4 /\ 2 * 4 = 8 /\ 2 * 8 = 16 /\ 2 * 16 = 32 /\ 2 * 32 = 64 /\ 2 * 64 = 128
          /\ {1, 2, 4, 8, 16, 32, 64} \subseteq 1 .. 127
      OBVIOUS
    <2>2. /\ Transforming!Power[2] = Squared(Transforming!Power[1])
          /\ Transforming!Power[4] = Squared(Transforming!Power[2])
          /\ Transforming!Power[8] = Squared(Transforming!Power[4])
          /\ Transforming!Power[16] = Squared(Transforming!Power[8])
          /\ Transforming!Power[32] = Squared(Transforming!Power[16])
          /\ Transforming!Power[64] = Squared(Transforming!Power[32])
          /\ Transforming!Power[128] = Squared(Transforming!Power[64])
      BY <1>1, <2>1
    <2> QED
      BY <1>2, <1>3, <2>2, SMTT(60)
  <1>5. Transforming!Power[255] = 1175
    <2>1. /\ 2 * 1 + 1 = 3 /\ 2 * 3 + 1 = 7 /\ 2 * 7 + 1 = 15 /\ 2 * 15 + 1 = 31 /\ 2 * 31 + 1 = 63
          /\ 2 * 63 + 1 = 127 /\ 2 * 127 + 1 = 255 /\ {1, 3, 7, 15, 31, 63, 127} \subseteq 0 .. 127
      OBVIOUS
    <2>2. /\ Squared(1584) = 2319 /\ Squared(2804) = 2647 /\ Squared(1722) = 2474 /\ Squared(2110) = 1227
          /\ Squared(885) = 910 /\ Squared(2154) = 2419
          /\ MulQ(289, 17) = 1584 /\ MulQ(2319, 17) = 2804 /\ MulQ(2647, 17) = 1722
          /\ MulQ(2474, 17) = 2110 /\ MulQ(1227, 17) = 885 /\ MulQ(910, 17) = 2154 /\ MulQ(2419, 17) = 1175
      BY DEF Squared, MulQ
    <2>3. /\ Transforming!Power[3] = MulQ(Squared(Transforming!Power[1]), 17)
          /\ Transforming!Power[7] = MulQ(Squared(Transforming!Power[3]), 17)
          /\ Transforming!Power[15] = MulQ(Squared(Transforming!Power[7]), 17)
          /\ Transforming!Power[31] = MulQ(Squared(Transforming!Power[15]), 17)
          /\ Transforming!Power[63] = MulQ(Squared(Transforming!Power[31]), 17)
          /\ Transforming!Power[127] = MulQ(Squared(Transforming!Power[63]), 17)
          /\ Transforming!Power[255] = MulQ(Squared(Transforming!Power[127]), 17)
      BY <1>1, <2>1
    <2> QED
      BY <1>2, <1>3, <2>2, <2>3, SMTT(60)
  <1> QED
    BY <1>1, <1>3, <1>4, <1>5

\* The powers go round after 256 of them.
LEMMA PowerRound ==
  ASSUME NEW e \in 0 .. 255
  PROVE  Transforming!Power[(e + 1) % 256] = MulQ(Transforming!Power[e], 17)
  <1>1. CASE e = 255
    <2>1. (255 + 1) % 256 = 0 /\ MulQ(1175, 17) = 1
      BY DEF MulQ
    <2> QED
      BY <1>1, <2>1, KnownPowers
  <1>2. CASE e # 255
    <2>1. e \in 0 .. 254 /\ (e + 1) % 256 = e + 1
      BY <1>2
    <2> QED
      BY <2>1, PowerNext
  <1> QED
    BY <1>1, <1>2

LEMMA PowNext ==
  ASSUME NEW e \in Nat
  PROVE  Pow(e + 1) = MulQ(Pow(e), 17)
  <1>1. e % 256 \in 0 .. 255 /\ ((e % 256) + 1) % 256 = (e + 1) % 256
    BY SMT
  <1> QED
    BY <1>1, PowerRound DEF Pow

\* Exponents add.
LEMMA PowSum ==
  ASSUME NEW a \in Nat, NEW b \in Nat
  PROVE  Pow(a + b) = MulQ(Pow(a), Pow(b))
  <1> DEFINE Good(e) == Pow(a + e) = MulQ(Pow(a), Pow(e))
             wrong == {e \in Nat : ~Good(e)}
  <1>1. Good(0)
    <2>1. Pow(0) = 1
      <3>1. 0 % 256 = 0
        OBVIOUS
      <3> QED
        BY <3>1, KnownPowers DEF Pow
    <2>2. MulQ(Pow(a), 1) = Pow(a)
      BY PowIs, Few, MulLaws
    <2> QED
      BY <2>1, <2>2
  <1>2. ASSUME NEW e \in Nat, Good(e)
        PROVE  Good(e + 1)
    <2>1. Pow(a + (e + 1)) = MulQ(Pow(a + e), 17)
      <3>1. a + (e + 1) = (a + e) + 1 /\ a + e \in Nat
        OBVIOUS
      <3> QED
        BY <3>1, PowNext
    <2>2. Pow(e + 1) = MulQ(Pow(e), 17)
      BY PowNext
    <2>3. MulQ(MulQ(Pow(a), Pow(e)), 17) = MulQ(Pow(a), MulQ(Pow(e), 17))
      BY PowIs, Few, MulLaws
    <2> QED
      BY <1>2, <2>1, <2>2, <2>3
  <1> HIDE DEF Good
  <1>3. wrong = {}
    <2> SUFFICES ASSUME wrong # {}
                 PROVE  FALSE
      OBVIOUS
    <2>1. wrong \subseteq Nat
      OBVIOUS
    <2> HIDE DEF wrong
    <2>2. PICK e \in wrong : \A other \in wrong : ~(other < e)
      BY <2>1, LeastExists
    <2> USE DEF wrong
    <2>3. e # 0 /\ e \in Nat /\ ~Good(e)
      BY <1>1, <2>2
    <2>4. e - 1 \in Nat /\ e - 1 < e /\ (e - 1) + 1 = e
      BY <2>3
    <2>5. Good(e - 1)
      BY <2>2, <2>4
    <2> QED
      BY <1>2, <2>3, <2>4, <2>5
  <1> QED
    BY <1>3 DEF Good

\* Half a turn is -1, a whole one is 1.
LEMMA PowWhole ==
  ASSUME NEW e \in Nat, NEW turns \in Nat
  PROVE  Pow(e + 256 * turns) = Pow(e)
  <1>1. (e + 256 * turns) % 256 = e % 256
    OBVIOUS
  <1> QED
    BY <1>1 DEF Pow

LEMMA PowHalf ==
  Pow(0) = 1 /\ Pow(128) = 3328 /\ \A e \in Nat : Pow(e + 128) = MulQ(3328, Pow(e))
  <1>1. Pow(0) = 1 /\ Pow(128) = 3328
    <2>1. 0 % 256 = 0 /\ 128 % 256 = 128
      OBVIOUS
    <2> QED
      BY <2>1, KnownPowers DEF Pow
  <1>2. ASSUME NEW e \in Nat
        PROVE  Pow(e + 128) = MulQ(3328, Pow(e))
    <2>1. Pow(e + 128) = MulQ(Pow(e), Pow(128))
      BY PowSum
    <2>2. MulQ(Pow(e), 3328) = MulQ(3328, Pow(e))
      BY PowIs, Few, MulLaws
    <2> QED
      BY <1>1, <2>1, <2>2
  <1> QED
    BY <1>1, <1>2

-----------------------------------------------------------------------------
(* The number theoretic transform: the reversal of bits and the tables *)

Rev(b) == Transforming!Reversed(b)

LEMMA Digits ==
  ASSUME NEW b \in 0 .. 127
  PROVE  \E b0 \in 0 .. 1, b1 \in 0 .. 1, b2 \in 0 .. 1, b3 \in 0 .. 1, b4 \in 0 .. 1, b5 \in 0 .. 1,
            b6 \in 0 .. 1 :
           b = b0 + 2 * b1 + 4 * b2 + 8 * b3 + 16 * b4 + 32 * b5 + 64 * b6
  <1>1. \A x \in Int : x % 2 \in 0 .. 1 /\ x = 2 * (x \div 2) + (x % 2) /\ x \div 2 \in Int
    OBVIOUS
  <1>2. PICK d1 \in Int, b0 \in 0 .. 1 : b = 2 * d1 + b0
    <2>1. b \in Int
      OBVIOUS
    <2>2. b % 2 \in 0 .. 1 /\ b = 2 * (b \div 2) + (b % 2) /\ b \div 2 \in Int
      BY <1>1, <2>1
    <2> QED
      BY <2>2
  <1>3. PICK d2 \in Int, b1 \in 0 .. 1 : d1 = 2 * d2 + b1
    BY <1>1
  <1>4. PICK d3 \in Int, b2 \in 0 .. 1 : d2 = 2 * d3 + b2
    BY <1>1
  <1>5. PICK d4 \in Int, b3 \in 0 .. 1 : d3 = 2 * d4 + b3
    BY <1>1
  <1>6. PICK d5 \in Int, b4 \in 0 .. 1 : d4 = 2 * d5 + b4
    BY <1>1
  <1>7. PICK d6 \in Int, b5 \in 0 .. 1 : d5 = 2 * d6 + b5
    BY <1>1
  <1>8. /\ b = b0 + 2 * b1 + 4 * b2 + 8 * b3 + 16 * b4 + 32 * b5 + 64 * d6
        /\ d6 \in 0 .. 1
    BY <1>2, <1>3, <1>4, <1>5, <1>6, <1>7
  <1> QED
    BY <1>8

\* The reversal, digit by digit.
LEMMA RevDigits ==
  ASSUME NEW b0 \in 0 .. 1, NEW b1 \in 0 .. 1, NEW b2 \in 0 .. 1, NEW b3 \in 0 .. 1,
         NEW b4 \in 0 .. 1, NEW b5 \in 0 .. 1, NEW b6 \in 0 .. 1,
         NEW b, b = b0 + 2 * b1 + 4 * b2 + 8 * b3 + 16 * b4 + 32 * b5 + 64 * b6
  PROVE  Rev(b) = 64 * b0 + 32 * b1 + 16 * b2 + 8 * b3 + 4 * b4 + 2 * b5 + b6
  <1>1. 2^0 = 1 /\ 2^1 = 2 /\ 2^2 = 4 /\ 2^3 = 8 /\ 2^4 = 16 /\ 2^5 = 32 /\ 2^6 = 64
    BY SMT
  <1>2. Rev(b) = 64 * ((b \div 1) % 2) + 32 * ((b \div 2) % 2) + 16 * ((b \div 4) % 2)
                   + 8 * ((b \div 8) % 2) + 4 * ((b \div 16) % 2) + 2 * ((b \div 32) % 2)
                   + ((b \div 64) % 2)
    BY <1>1 DEF Rev, Transforming!Reversed
  <1>3. \A x \in Int, d \in 0 .. 1 : (2 * x + d) % 2 = d
    OBVIOUS
  <1>4. (b \div 1) % 2 = b0
    OBVIOUS
  <1>5. b \div 2 = b1 + 2 * b2 + 4 * b3 + 8 * b4 + 16 * b5 + 32 * b6
    OBVIOUS
  <1>6. b \div 4 = b2 + 2 * b3 + 4 * b4 + 8 * b5 + 16 * b6
    OBVIOUS
  <1>7. b \div 8 = b3 + 2 * b4 + 4 * b5 + 8 * b6
    OBVIOUS
  <1>8. b \div 16 = b4 + 2 * b5 + 4 * b6
    OBVIOUS
  <1>9. b \div 32 = b5 + 2 * b6
    OBVIOUS
  <1>10. b \div 64 = b6
    OBVIOUS
  <1>11. (b1 + 2 * b2 + 4 * b3 + 8 * b4 + 16 * b5 + 32 * b6) % 2 = b1
    OBVIOUS
  <1>12. (b2 + 2 * b3 + 4 * b4 + 8 * b5 + 16 * b6) % 2 = b2
    OBVIOUS
  <1>13. (b3 + 2 * b4 + 4 * b5 + 8 * b6) % 2 = b3 /\ (b4 + 2 * b5 + 4 * b6) % 2 = b4
    OBVIOUS
  <1>14. (b5 + 2 * b6) % 2 = b5 /\ b6 % 2 = b6
    OBVIOUS
  <1> QED
    BY <1>2, <1>4, <1>5, <1>6, <1>7, <1>8, <1>9, <1>10, <1>11, <1>12, <1>13, <1>14

LEMMA RevBounds ==
  ASSUME NEW b \in 0 .. 127
  PROVE  Rev(b) \in 0 .. 127
  <1>1. PICK b0 \in 0 .. 1, b1 \in 0 .. 1, b2 \in 0 .. 1, b3 \in 0 .. 1, b4 \in 0 .. 1,
             b5 \in 0 .. 1, b6 \in 0 .. 1 :
               b = b0 + 2 * b1 + 4 * b2 + 8 * b3 + 16 * b4 + 32 * b5 + 64 * b6
    BY Digits
  <1>2. Rev(b) = 64 * b0 + 32 * b1 + 16 * b2 + 8 * b3 + 4 * b4 + 2 * b5 + b6
    BY <1>1, RevDigits
  <1> QED
    BY <1>2

\* A digit in front reverses to one at the end, and the other way round.
LEMMA RevShift ==
  ASSUME NEW b \in 0 .. 63
  PROVE  Rev(b) = 2 * Rev(2 * b) /\ Rev(2 * b + 1) = Rev(2 * b) + 64
  <1>1. PICK b0 \in 0 .. 1, b1 \in 0 .. 1, b2 \in 0 .. 1, b3 \in 0 .. 1, b4 \in 0 .. 1,
             b5 \in 0 .. 1, b6 \in 0 .. 1 :
               b = b0 + 2 * b1 + 4 * b2 + 8 * b3 + 16 * b4 + 32 * b5 + 64 * b6
    BY Digits
  <1>2. b6 = 0
    BY <1>1
  <1>3. Rev(b) = 64 * b0 + 32 * b1 + 16 * b2 + 8 * b3 + 4 * b4 + 2 * b5 + b6
    BY <1>1, RevDigits
  <1>4. 0 \in 0 .. 1 /\ 1 \in 0 .. 1
    OBVIOUS
  <1>5. /\ 2 * b = 0 + 2 * b0 + 4 * b1 + 8 * b2 + 16 * b3 + 32 * b4 + 64 * b5
        /\ 2 * b + 1 = 1 + 2 * b0 + 4 * b1 + 8 * b2 + 16 * b3 + 32 * b4 + 64 * b5
    BY <1>1, <1>2
  <1>6. Rev(2 * b) = 64 * 0 + 32 * b0 + 16 * b1 + 8 * b2 + 4 * b3 + 2 * b4 + b5
    BY <1>4, <1>5, RevDigits
  <1>7. Rev(2 * b + 1) = 64 * 1 + 32 * b0 + 16 * b1 + 8 * b2 + 4 * b3 + 2 * b4 + b5
    BY <1>4, <1>5, RevDigits
  <1> QED
    BY <1>2, <1>3, <1>6, <1>7

\* The numbers of the twiddle factors of a level, forwards and backwards.
LEMMA RevTwiddle ==
  ASSUME NEW l \in Lens, NEW b \in Nat, b < 128 \div l
  PROVE  /\ b \in 0 .. 127 /\ (128 \div l) + b \in 0 .. 127 /\ ((256 \div l) - 1) - b \in 0 .. 127
         /\ Rev((128 \div l) + b) = Rev(b) + (l \div 2)
         /\ Rev(((256 \div l) - 1) - b) = (128 - (l \div 2)) - Rev(b)
  <1>1. b \in 0 .. 127 /\ (128 \div l) + b \in 0 .. 127 /\ ((256 \div l) - 1) - b \in 0 .. 127
    BY DEF Lens
  <1>2. PICK b0 \in 0 .. 1, b1 \in 0 .. 1, b2 \in 0 .. 1, b3 \in 0 .. 1, b4 \in 0 .. 1,
             b5 \in 0 .. 1, b6 \in 0 .. 1 :
               b = b0 + 2 * b1 + 4 * b2 + 8 * b3 + 16 * b4 + 32 * b5 + 64 * b6
    BY <1>1, Digits
  <1>3. Rev(b) = 64 * b0 + 32 * b1 + 16 * b2 + 8 * b3 + 4 * b4 + 2 * b5 + b6
    BY <1>2, RevDigits
  <1>4. 0 \in 0 .. 1 /\ 1 \in 0 .. 1 /\ \A d \in 0 .. 1 : 1 - d \in 0 .. 1
    OBVIOUS
  <1>5. CASE l = 2
    <2>1. b6 = 0
      BY <1>2, <1>5
    <2>2. (128 \div l) + b = 64 + b /\ ((256 \div l) - 1) - b = 127 - b /\ l \div 2 = 1
      BY <1>5
    <2>3. /\ 64 + b = b0 + 2 * b1 + 4 * b2 + 8 * b3 + 16 * b4 + 32 * b5 + 64 * 1
          /\ 127 - b = (1 - b0) + 2 * (1 - b1) + 4 * (1 - b2) + 8 * (1 - b3) + 16 * (1 - b4) + 32 * (1 - b5) + 64 * 1
      BY <1>2, <2>1
    <2>4. Rev(64 + b) = 64 * b0 + 32 * b1 + 16 * b2 + 8 * b3 + 4 * b4 + 2 * b5 + 1
      BY <1>4, <2>3, RevDigits
    <2>5. Rev(127 - b) = 64 * (1 - b0) + 32 * (1 - b1) + 16 * (1 - b2) + 8 * (1 - b3) + 4 * (1 - b4) + 2 * (1 - b5) + 1
      BY <1>4, <2>3, RevDigits
    <2> QED
      BY <1>1, <1>3, <2>1, <2>2, <2>4, <2>5
  <1>6. CASE l = 4
    <2>1. b5 = 0 /\ b6 = 0
      BY <1>2, <1>6
    <2>2. (128 \div l) + b = 32 + b /\ ((256 \div l) - 1) - b = 63 - b /\ l \div 2 = 2
      BY <1>6
    <2>3. /\ 32 + b = b0 + 2 * b1 + 4 * b2 + 8 * b3 + 16 * b4 + 32 * 1 + 64 * 0
          /\ 63 - b = (1 - b0) + 2 * (1 - b1) + 4 * (1 - b2) + 8 * (1 - b3) + 16 * (1 - b4) + 32 * 1 + 64 * 0
      BY <1>2, <2>1
    <2>4. Rev(32 + b) = 64 * b0 + 32 * b1 + 16 * b2 + 8 * b3 + 4 * b4 + 2 * 1 + 0
      BY <1>4, <2>3, RevDigits
    <2>5. Rev(63 - b) = 64 * (1 - b0) + 32 * (1 - b1) + 16 * (1 - b2) + 8 * (1 - b3) + 4 * (1 - b4) + 2 * 1 + 0
      BY <1>4, <2>3, RevDigits
    <2> QED
      BY <1>1, <1>3, <2>1, <2>2, <2>4, <2>5
  <1>7. CASE l = 8
    <2>1. b4 = 0 /\ b5 = 0 /\ b6 = 0
      BY <1>2, <1>7
    <2>2. (128 \div l) + b = 16 + b /\ ((256 \div l) - 1) - b = 31 - b /\ l \div 2 = 4
      BY <1>7
    <2>3. /\ 16 + b = b0 + 2 * b1 + 4 * b2 + 8 * b3 + 16 * 1 + 32 * 0 + 64 * 0
          /\ 31 - b = (1 - b0) + 2 * (1 - b1) + 4 * (1 - b2) + 8 * (1 - b3) + 16 * 1 + 32 * 0 + 64 * 0
      BY <1>2, <2>1
    <2>4. Rev(16 + b) = 64 * b0 + 32 * b1 + 16 * b2 + 8 * b3 + 4 * 1 + 2 * 0 + 0
      BY <1>4, <2>3, RevDigits
    <2>5. Rev(31 - b) = 64 * (1 - b0) + 32 * (1 - b1) + 16 * (1 - b2) + 8 * (1 - b3) + 4 * 1 + 2 * 0 + 0
      BY <1>4, <2>3, RevDigits
    <2> QED
      BY <1>1, <1>3, <2>1, <2>2, <2>4, <2>5
  <1>8. CASE l = 16
    <2>1. b3 = 0 /\ b4 = 0 /\ b5 = 0 /\ b6 = 0
      BY <1>2, <1>8
    <2>2. (128 \div l) + b = 8 + b /\ ((256 \div l) - 1) - b = 15 - b /\ l \div 2 = 8
      BY <1>8
    <2>3. /\ 8 + b = b0 + 2 * b1 + 4 * b2 + 8 * 1 + 16 * 0 + 32 * 0 + 64 * 0
          /\ 15 - b = (1 - b0) + 2 * (1 - b1) + 4 * (1 - b2) + 8 * 1 + 16 * 0 + 32 * 0 + 64 * 0
      BY <1>2, <2>1
    <2>4. Rev(8 + b) = 64 * b0 + 32 * b1 + 16 * b2 + 8 * 1 + 4 * 0 + 2 * 0 + 0
      BY <1>4, <2>3, RevDigits
    <2>5. Rev(15 - b) = 64 * (1 - b0) + 32 * (1 - b1) + 16 * (1 - b2) + 8 * 1 + 4 * 0 + 2 * 0 + 0
      BY <1>4, <2>3, RevDigits
    <2> QED
      BY <1>1, <1>3, <2>1, <2>2, <2>4, <2>5
  <1>9. CASE l = 32
    <2>1. b2 = 0 /\ b3 = 0 /\ b4 = 0 /\ b5 = 0 /\ b6 = 0
      BY <1>2, <1>9
    <2>2. (128 \div l) + b = 4 + b /\ ((256 \div l) - 1) - b = 7 - b /\ l \div 2 = 16
      BY <1>9
    <2>3. /\ 4 + b = b0 + 2 * b1 + 4 * 1 + 8 * 0 + 16 * 0 + 32 * 0 + 64 * 0
          /\ 7 - b = (1 - b0) + 2 * (1 - b1) + 4 * 1 + 8 * 0 + 16 * 0 + 32 * 0 + 64 * 0
      BY <1>2, <2>1
    <2>4. Rev(4 + b) = 64 * b0 + 32 * b1 + 16 * 1 + 8 * 0 + 4 * 0 + 2 * 0 + 0
      BY <1>4, <2>3, RevDigits
    <2>5. Rev(7 - b) = 64 * (1 - b0) + 32 * (1 - b1) + 16 * 1 + 8 * 0 + 4 * 0 + 2 * 0 + 0
      BY <1>4, <2>3, RevDigits
    <2> QED
      BY <1>1, <1>3, <2>1, <2>2, <2>4, <2>5
  <1>10. CASE l = 64
    <2>1. b1 = 0 /\ b2 = 0 /\ b3 = 0 /\ b4 = 0 /\ b5 = 0 /\ b6 = 0
      BY <1>2, <1>10
    <2>2. (128 \div l) + b = 2 + b /\ ((256 \div l) - 1) - b = 3 - b /\ l \div 2 = 32
      BY <1>10
    <2>3. /\ 2 + b = b0 + 2 * 1 + 4 * 0 + 8 * 0 + 16 * 0 + 32 * 0 + 64 * 0
          /\ 3 - b = (1 - b0) + 2 * 1 + 4 * 0 + 8 * 0 + 16 * 0 + 32 * 0 + 64 * 0
      BY <1>2, <2>1
    <2>4. Rev(2 + b) = 64 * b0 + 32 * 1 + 16 * 0 + 8 * 0 + 4 * 0 + 2 * 0 + 0
      BY <1>4, <2>3, RevDigits
    <2>5. Rev(3 - b) = 64 * (1 - b0) + 32 * 1 + 16 * 0 + 8 * 0 + 4 * 0 + 2 * 0 + 0
      BY <1>4, <2>3, RevDigits
    <2> QED
      BY <1>1, <1>3, <2>1, <2>2, <2>4, <2>5
  <1>11. CASE l = 128
    <2>1. b0 = 0 /\ b1 = 0 /\ b2 = 0 /\ b3 = 0 /\ b4 = 0 /\ b5 = 0 /\ b6 = 0
      BY <1>2, <1>11
    <2>2. (128 \div l) + b = 1 + b /\ ((256 \div l) - 1) - b = 1 - b /\ l \div 2 = 64
      BY <1>11
    <2>3. /\ 1 + b = 1 + 2 * 0 + 4 * 0 + 8 * 0 + 16 * 0 + 32 * 0 + 64 * 0
          /\ 1 - b = 1 + 2 * 0 + 4 * 0 + 8 * 0 + 16 * 0 + 32 * 0 + 64 * 0
      BY <1>2, <2>1
    <2>4. Rev(1 + b) = 64 * 1 + 32 * 0 + 16 * 0 + 8 * 0 + 4 * 0 + 2 * 0 + 0
      BY <1>4, <2>3, RevDigits
    <2>5. Rev(1 - b) = 64 * 1 + 32 * 0 + 16 * 0 + 8 * 0 + 4 * 0 + 2 * 0 + 0
      BY <1>4, <2>3, RevDigits
    <2> QED
      BY <1>1, <1>3, <2>1, <2>2, <2>4, <2>5
  <1> QED
    BY <1>5, <1>6, <1>7, <1>8, <1>9, <1>10, <1>11 DEF Lens

\* The tables, entry by entry: a level of twiddle factors from the level before it.
LEMMA ZetaLevels ==
  /\ Transforming!ZetaTable[1] = 1 /\ Transforming!ZetaTable[2] = 1729
  /\ \A e \in 0 .. 1 : Transforming!ZetaTable[2 + e + 1] = MulQ(Transforming!ZetaTable[e + 1], 2580)
  /\ \A e \in 0 .. 3 : Transforming!ZetaTable[4 + e + 1] = MulQ(Transforming!ZetaTable[e + 1], 2642)
  /\ \A e \in 0 .. 7 : Transforming!ZetaTable[8 + e + 1] = MulQ(Transforming!ZetaTable[e + 1], 1062)
  /\ \A e \in 0 .. 15 : Transforming!ZetaTable[16 + e + 1] = MulQ(Transforming!ZetaTable[e + 1], 296)
  /\ \A e \in 0 .. 31 : Transforming!ZetaTable[32 + e + 1] = MulQ(Transforming!ZetaTable[e + 1], 289)
  /\ \A e \in 0 .. 63 : Transforming!ZetaTable[64 + e + 1] = MulQ(Transforming!ZetaTable[e + 1], 17)
  <1>1. Transforming!ZetaTable[1] = 1 /\ Transforming!ZetaTable[2] = 1729
    BY DEF Transforming!ZetaTable
  <1>2. \A e \in 0 .. 1 : Transforming!ZetaTable[2 + e + 1] = MulQ(Transforming!ZetaTable[e + 1], 2580)
    BY SMTT(60) DEF Transforming!ZetaTable, MulQ
  <1>3. \A e \in 0 .. 3 : Transforming!ZetaTable[4 + e + 1] = MulQ(Transforming!ZetaTable[e + 1], 2642)
    BY SMTT(60) DEF Transforming!ZetaTable, MulQ
  <1>4. \A e \in 0 .. 7 : Transforming!ZetaTable[8 + e + 1] = MulQ(Transforming!ZetaTable[e + 1], 1062)
    BY SMTT(60) DEF Transforming!ZetaTable, MulQ
  <1>5. \A e \in 0 .. 15 : Transforming!ZetaTable[16 + e + 1] = MulQ(Transforming!ZetaTable[e + 1], 296)
    BY SMTT(60) DEF Transforming!ZetaTable, MulQ
  <1>6. \A e \in 0 .. 31 : Transforming!ZetaTable[32 + e + 1] = MulQ(Transforming!ZetaTable[e + 1], 289)
    BY SMTT(60) DEF Transforming!ZetaTable, MulQ
  <1>7. \A e \in 0 .. 63 : Transforming!ZetaTable[64 + e + 1] = MulQ(Transforming!ZetaTable[e + 1], 17)
    BY SMTT(60) DEF Transforming!ZetaTable, MulQ
  <1> QED
    BY <1>1, <1>2, <1>3, <1>4, <1>5, <1>6, <1>7

LEMMA GammaEntries ==
  \A e \in 0 .. 127 : Transforming!GammaTable[e + 1] = MulQ(Squared(Transforming!ZetaTable[e + 1]), 17)
  BY SMTT(120) DEF Transforming!GammaTable, Transforming!ZetaTable, MulQ, Squared

\* The first entries of the table are powers.
Powered(h) == \A e \in 0 .. h - 1 : Transforming!ZetaTable[e + 1] = Pow(Rev(e))

LEMMA PoweredTwice ==
  ASSUME NEW l \in Lens \ {128}, Powered(128 \div l),
         \A e \in 0 .. (128 \div l) - 1 :
           Transforming!ZetaTable[((128 \div l) + e) + 1] = MulQ(Transforming!ZetaTable[e + 1], Pow(l \div 2))
  PROVE  Powered(2 * (128 \div l))
  <1>1. PICK h \in 2 .. 64 : h = 128 \div l
    BY DEF Lens
  <1>2. ASSUME NEW e \in 0 .. 2 * h - 1
        PROVE  Transforming!ZetaTable[e + 1] = Pow(Rev(e))
    <2>1. CASE e < h
      <3>1. e \in 0 .. h - 1
        BY <2>1
      <3> QED
        BY <1>1, <3>1 DEF Powered
    <2>2. CASE ~(e < h)
      <3>1. PICK b \in 0 .. h - 1 : e = h + b
        <4>1. e - h \in 0 .. h - 1 /\ e = h + (e - h)
          BY <2>2
        <4> QED
          BY <4>1
      <3>2. b \in Nat /\ b < 128 \div l /\ l \in Lens
        BY <1>1
      <3>3. b \in 0 .. 127 /\ Rev(h + b) = Rev(b) + (l \div 2)
        BY <1>1, <3>2, RevTwiddle
      <3>4. Transforming!ZetaTable[(h + b) + 1] = MulQ(Transforming!ZetaTable[b + 1], Pow(l \div 2))
        BY <1>1
      <3>5. Transforming!ZetaTable[b + 1] = Pow(Rev(b))
        BY <1>1 DEF Powered
      <3>6. Rev(b) \in Nat /\ l \div 2 \in Nat
        <4>1. Rev(b) \in 0 .. 127
          BY <3>3, RevBounds
        <4> QED
          BY <4>1 DEF Lens
      <3>7. Pow(Rev(b) + (l \div 2)) = MulQ(Pow(Rev(b)), Pow(l \div 2))
        BY <3>6, PowSum
      <3> QED
        BY <3>1, <3>3, <3>4, <3>5, <3>7
    <2> QED
      BY <2>1, <2>2
  <1> QED
    BY <1>1, <1>2 DEF Powered

\* Each entry of the two tables is the power of 17 it should be: those of the
\* butterflies by the reversal of their index, those of the multiplication by the
\* odd number after twice that (ml_kem_zetas, ml_kem_gammas of ml_kem_ntt_main.c).
THEOREM TablesArePowers ==
  ASSUME NEW e \in 0 .. 127
  PROVE  /\ Transforming!ml_kem_zetas(e) = Pow(Rev(e))
         /\ Transforming!ml_kem_gammas(e) = Pow(2 * Rev(e) + 1)
  <1>1. Powered(2)
    <2>1. Rev(0) = 0 /\ Rev(1) = 64
      <3>1. 0 \in 0 .. 1 /\ 1 \in 0 .. 1
        OBVIOUS
      <3>2. /\ 0 = 0 + 2 * 0 + 4 * 0 + 8 * 0 + 16 * 0 + 32 * 0 + 64 * 0
            /\ 1 = 1 + 2 * 0 + 4 * 0 + 8 * 0 + 16 * 0 + 32 * 0 + 64 * 0
        OBVIOUS
      <3>3. Rev(0) = 64 * 0 + 32 * 0 + 16 * 0 + 8 * 0 + 4 * 0 + 2 * 0 + 0
        BY <3>1, <3>2, RevDigits
      <3>4. Rev(1) = 64 * 1 + 32 * 0 + 16 * 0 + 8 * 0 + 4 * 0 + 2 * 0 + 0
        BY <3>1, <3>2, RevDigits
      <3> QED
        BY <3>3, <3>4
    <2>2. Pow(0) = 1 /\ Pow(64) = 1729
      <3>1. 0 % 256 = 0 /\ 64 % 256 = 64
        OBVIOUS
      <3> QED
        BY <3>1, KnownPowers DEF Pow
    <2>3. \A d \in 0 .. 2 - 1 : d = 0 \/ d = 1
      OBVIOUS
    <2>4. 0 + 1 = 1 /\ 1 + 1 = 2
      OBVIOUS
    <2>5. ASSUME NEW d \in 0 .. 2 - 1
          PROVE  Transforming!ZetaTable[d + 1] = Pow(Rev(d))
      BY <2>1, <2>2, <2>3, <2>4, ZetaLevels
    <2> QED
      BY <2>5 DEF Powered
  <1>2. /\ Pow(1) = 17 /\ Pow(2) = 289 /\ Pow(4) = 296 /\ Pow(8) = 1062 /\ Pow(16) = 2642 /\ Pow(32) = 2580
    <2>1. 1 % 256 = 1 /\ 2 % 256 = 2 /\ 4 % 256 = 4 /\ 8 % 256 = 8 /\ 16 % 256 = 16 /\ 32 % 256 = 32
      OBVIOUS
    <2> QED
      BY <2>1, KnownPowers DEF Pow
  <1>3. Powered(4)
    <2>1. 128 \div 64 = 2 /\ 64 \div 2 = 32 /\ 2 * 2 = 4 /\ 2 - 1 = 1 /\ 64 \in Lens \ {128}
      BY DEF Lens
    <2>2. \A d \in 0 .. 2 - 1 :
            Transforming!ZetaTable[(2 + d) + 1] = MulQ(Transforming!ZetaTable[d + 1], Pow(32))
      BY <1>2, <2>1, ZetaLevels
    <2> QED
      BY <1>1, <2>1, <2>2, PoweredTwice
  <1>4. Powered(8)
    <2>1. 128 \div 32 = 4 /\ 32 \div 2 = 16 /\ 2 * 4 = 8 /\ 4 - 1 = 3 /\ 32 \in Lens \ {128}
      BY DEF Lens
    <2>2. \A d \in 0 .. 4 - 1 :
            Transforming!ZetaTable[(4 + d) + 1] = MulQ(Transforming!ZetaTable[d + 1], Pow(16))
      BY <1>2, <2>1, ZetaLevels
    <2> QED
      BY <1>3, <2>1, <2>2, PoweredTwice
  <1>5. Powered(16)
    <2>1. 128 \div 16 = 8 /\ 16 \div 2 = 8 /\ 2 * 8 = 16 /\ 8 - 1 = 7 /\ 16 \in Lens \ {128}
      BY DEF Lens
    <2>2. \A d \in 0 .. 8 - 1 :
            Transforming!ZetaTable[(8 + d) + 1] = MulQ(Transforming!ZetaTable[d + 1], Pow(8))
      BY <1>2, <2>1, ZetaLevels
    <2> QED
      BY <1>4, <2>1, <2>2, PoweredTwice
  <1>6. Powered(32)
    <2>1. 128 \div 8 = 16 /\ 8 \div 2 = 4 /\ 2 * 16 = 32 /\ 16 - 1 = 15 /\ 8 \in Lens \ {128}
      BY DEF Lens
    <2>2. \A d \in 0 .. 16 - 1 :
            Transforming!ZetaTable[(16 + d) + 1] = MulQ(Transforming!ZetaTable[d + 1], Pow(4))
      BY <1>2, <2>1, ZetaLevels
    <2> QED
      BY <1>5, <2>1, <2>2, PoweredTwice
  <1>7. Powered(64)
    <2>1. 128 \div 4 = 32 /\ 4 \div 2 = 2 /\ 2 * 32 = 64 /\ 32 - 1 = 31 /\ 4 \in Lens \ {128}
      BY DEF Lens
    <2>2. \A d \in 0 .. 32 - 1 :
            Transforming!ZetaTable[(32 + d) + 1] = MulQ(Transforming!ZetaTable[d + 1], Pow(2))
      BY <1>2, <2>1, ZetaLevels
    <2> QED
      BY <1>6, <2>1, <2>2, PoweredTwice
  <1>8. Powered(128)
    <2>1. 128 \div 2 = 64 /\ 2 \div 2 = 1 /\ 2 * 64 = 128 /\ 64 - 1 = 63 /\ 2 \in Lens \ {128}
      BY DEF Lens
    <2>2. \A d \in 0 .. 64 - 1 :
            Transforming!ZetaTable[(64 + d) + 1] = MulQ(Transforming!ZetaTable[d + 1], Pow(1))
      BY <1>2, <2>1, ZetaLevels
    <2> QED
      BY <1>7, <2>1, <2>2, PoweredTwice
  <1>9. Transforming!ZetaTable[e + 1] = Pow(Rev(e))
    BY <1>8 DEF Powered
  <1>10. Transforming!GammaTable[e + 1] = Pow(2 * Rev(e) + 1)
    <2>1. Rev(e) \in Nat /\ Rev(e) + Rev(e) = 2 * Rev(e) /\ 2 * Rev(e) \in Nat
      <3>1. Rev(e) \in 0 .. 127
        BY RevBounds
      <3> QED
        BY <3>1
    <2>2. Pow(Rev(e) + Rev(e)) = MulQ(Pow(Rev(e)), Pow(Rev(e)))
      BY <2>1, PowSum
    <2>3. Pow(2 * Rev(e) + 1) = MulQ(Pow(2 * Rev(e)), 17)
      BY <2>1, PowNext
    <2> QED
      BY <1>9, <2>1, <2>2, <2>3, GammaEntries DEF Squared
  <1> QED
    BY <1>9, <1>10 DEF Transforming!ml_kem_zetas, Transforming!ml_kem_gammas

-----------------------------------------------------------------------------
(* The number theoretic transform: the coefficients at every level *)

\* At the level of len = l the blocks have 2l coefficients, and block b holds the
\* residue of X^e modulo X^(2l) - 17^Root(l, b).
Root(l, b) == 2 * Rev(b) + l

Value(l, e, c) ==
  IF c % (2 * l) # e % (2 * l) THEN 0 ELSE Pow(Root(l, c \div (2 * l)) * (e \div (2 * l)))

Block0(l, b) == 2 * l * b

\* The two coefficients of a butterfly, in the blocks of this level and of the next.
LEMMA WingPlace ==
  ASSUME NEW l \in Lens, NEW b \in Nat, b < 128 \div l, NEW r \in 0 .. l - 1,
         NEW c, c = Block0(l, b) + r
  PROVE  /\ b \in 0 .. 63 /\ 2 * b \in 0 .. 127 /\ 2 * b + 1 \in 0 .. 127
         /\ c \in Cells /\ c + l \in Cells
         /\ c % (2 * l) = r /\ c \div (2 * l) = b /\ (c + l) % (2 * l) = r + l /\ (c + l) \div (2 * l) = b
         /\ c % l = r /\ c \div l = 2 * b /\ (c + l) % l = r /\ (c + l) \div l = 2 * b + 1
         /\ 2 * (l \div 2) = l /\ l \div 2 \in Nat
  <1>1. CASE l = 2
    BY <1>1 DEF Cells, Block0
  <1>2. CASE l = 4
    BY <1>2 DEF Cells, Block0
  <1>3. CASE l = 8
    BY <1>3 DEF Cells, Block0
  <1>4. CASE l = 16
    BY <1>4 DEF Cells, Block0
  <1>5. CASE l = 32
    BY <1>5 DEF Cells, Block0
  <1>6. CASE l = 64
    BY <1>6 DEF Cells, Block0
  <1>7. CASE l = 128
    BY <1>7 DEF Cells, Block0
  <1> QED
    BY <1>1, <1>2, <1>3, <1>4, <1>5, <1>6, <1>7 DEF Lens

\* An exponent at this level and at the next.
LEMMA ExponentPlace ==
  ASSUME NEW l \in Lens, NEW e \in Nat
  PROVE  /\ e % (2 * l) \in 0 .. 2 * l - 1 /\ e \div (2 * l) \in Nat
         /\ e % (2 * l) < l => e % l = e % (2 * l) /\ e \div l = 2 * (e \div (2 * l))
         /\ ~(e % (2 * l) < l) => e % l = (e % (2 * l)) - l /\ e \div l = 2 * (e \div (2 * l)) + 1
  <1>1. CASE l = 2
    BY <1>1
  <1>2. CASE l = 4
    BY <1>2
  <1>3. CASE l = 8
    BY <1>3
  <1>4. CASE l = 16
    BY <1>4
  <1>5. CASE l = 32
    BY <1>5
  <1>6. CASE l = 64
    BY <1>6
  <1>7. CASE l = 128
    BY <1>7
  <1> QED
    BY <1>1, <1>2, <1>3, <1>4, <1>5, <1>6, <1>7 DEF Lens

LEMMA Exponents ==
  ASSUME NEW x \in Nat, NEW q0 \in Nat
  PROVE  /\ x * q0 \in Nat
         /\ x * (2 * q0) = (2 * x) * q0
         /\ x * (2 * q0 + 1) = (2 * x) * q0 + x
         /\ (x + 128) * (2 * q0) = (2 * x) * q0 + 256 * q0
         /\ (x + 128) * (2 * q0 + 1) = (((2 * x) * q0 + x) + 128) + 256 * q0
  <1>1. x * q0 \in Nat
    BY SMTT(30)
  <1>2. /\ x * (2 * q0) = 2 * (x * q0) /\ (2 * x) * q0 = 2 * (x * q0)
        /\ x * (2 * q0 + 1) = 2 * (x * q0) + x
        /\ (x + 128) * (2 * q0) = 2 * (x * q0) + 256 * q0
        /\ (x + 128) * (2 * q0 + 1) = ((2 * (x * q0) + x) + 128) + 256 * q0
    BY SMTT(30)
  <1> QED
    BY <1>1, <1>2

LEMMA RootIs ==
  ASSUME NEW l \in Lens, NEW b \in 0 .. 63
  PROVE  /\ Root(l \div 2, 2 * b) \in Nat /\ 2 * Root(l \div 2, 2 * b) = Root(l, b)
         /\ Root(l \div 2, 2 * b + 1) = Root(l \div 2, 2 * b) + 128
         /\ Root(l \div 2, 2 * b) = Rev(b) + (l \div 2)
  <1>1. /\ Rev(b) = 2 * Rev(2 * b) /\ Rev(2 * b + 1) = Rev(2 * b) + 64
    BY RevShift
  <1>2. 2 * b \in 0 .. 127
    OBVIOUS
  <1>3. Rev(2 * b) \in 0 .. 127
    BY <1>2, RevBounds
  <1>4. l \div 2 \in Nat /\ 2 * (l \div 2) = l
    BY DEF Lens
  <1> QED
    BY <1>1, <1>3, <1>4 DEF Root

\* The values of the two coefficients before and after the butterfly: either
\* both are the power of the block, or the exponent falls in the upper half.
LEMMA WingValues ==
  ASSUME NEW l \in Lens, NEW b \in Nat, b < 128 \div l, NEW r \in 0 .. l - 1,
         NEW c, c = Block0(l, b) + r, NEW e \in Nat,
         NEW zeta, zeta = Pow(Root(l \div 2, 2 * b))
  PROVE  \E power \in Residues :
           \/ /\ Value(l, e, c) = power /\ Value(l, e, c + l) = 0
              /\ Value(l \div 2, e, c) = power /\ Value(l \div 2, e, c + l) = power
           \/ /\ Value(l, e, c) = 0 /\ Value(l, e, c + l) = power
              /\ Value(l \div 2, e, c) = MulQ(zeta, power)
              /\ Value(l \div 2, e, c + l) = MulQ(3328, MulQ(zeta, power))
  <1>1. /\ b \in 0 .. 63 /\ 2 * b \in 0 .. 127 /\ 2 * b + 1 \in 0 .. 127
        /\ c % (2 * l) = r /\ c \div (2 * l) = b /\ (c + l) % (2 * l) = r + l /\ (c + l) \div (2 * l) = b
        /\ c % l = r /\ c \div l = 2 * b /\ (c + l) % l = r /\ (c + l) \div l = 2 * b + 1
        /\ 2 * (l \div 2) = l /\ l \div 2 \in Nat
    BY WingPlace
  <1>2. /\ e % (2 * l) \in 0 .. 2 * l - 1 /\ e \div (2 * l) \in Nat
        /\ e % (2 * l) < l => e % l = e % (2 * l) /\ e \div l = 2 * (e \div (2 * l))
        /\ ~(e % (2 * l) < l) => e % l = (e % (2 * l)) - l /\ e \div l = 2 * (e \div (2 * l)) + 1
    BY ExponentPlace
  <1>3. PICK rest \in 0 .. 2 * l - 1, q0 \in Nat : rest = e % (2 * l) /\ q0 = e \div (2 * l)
    BY <1>2
  <1>4. PICK x \in Nat : x = Root(l \div 2, 2 * b)
    BY <1>1, RootIs
  <1>5. Root(l, b) = 2 * x /\ Root(l \div 2, 2 * b + 1) = x + 128
    BY <1>1, <1>4, RootIs
  <1>6. /\ Value(l, e, c) = IF r # rest THEN 0 ELSE Pow((2 * x) * q0)
        /\ Value(l, e, c + l) = IF r + l # rest THEN 0 ELSE Pow((2 * x) * q0)
    BY <1>1, <1>3, <1>5 DEF Value
  <1>7. /\ Value(l \div 2, e, c) = IF r # e % l THEN 0 ELSE Pow(x * (e \div l))
        /\ Value(l \div 2, e, c + l) = IF r # e % l THEN 0 ELSE Pow((x + 128) * (e \div l))
    BY <1>1, <1>4, <1>5 DEF Value
  <1>8. PICK base \in Nat : base = (2 * x) * q0
    <2>1. 2 * x \in Nat
      OBVIOUS
    <2>2. (2 * x) * q0 \in Nat
      BY <2>1, Exponents
    <2> QED
      BY <2>2
  <1>9. /\ x * (2 * q0) = base /\ x * (2 * q0 + 1) = base + x
        /\ (x + 128) * (2 * q0) = base + 256 * q0
        /\ (x + 128) * (2 * q0 + 1) = ((base + x) + 128) + 256 * q0
    BY <1>8, Exponents
  <1>10. Pow(base) \in Residues
    BY PowIs
  <1>14. l \in 2 .. 128 /\ r \in 0 .. l - 1 /\ r # r + l
    BY DEF Lens
  <1>11. CASE rest = r
    <2>1. rest < l
      BY <1>11, <1>14
    <2>2. e % l = rest /\ e \div l = 2 * q0
      BY <1>2, <1>3, <2>1
    <2>3. Pow(base + 256 * q0) = Pow(base)
      BY PowWhole
    <2>4. Value(l, e, c) = Pow(base) /\ Value(l, e, c + l) = 0
      BY <1>6, <1>8, <1>11, <1>14
    <2>5. Value(l \div 2, e, c) = Pow(base) /\ Value(l \div 2, e, c + l) = Pow(base)
      BY <1>7, <1>9, <1>11, <2>2, <2>3
    <2> QED
      BY <1>10, <2>4, <2>5
  <1>12. CASE rest = r + l
    <2>1. ~(rest < l) /\ rest - l = r
      BY <1>12, <1>14
    <2>2. e % l = r /\ e \div l = 2 * q0 + 1
      BY <1>2, <1>3, <1>12, <2>1
    <2>3. base + x \in Nat
      OBVIOUS
    <2>4. Pow(((base + x) + 128) + 256 * q0) = MulQ(3328, Pow(base + x))
      <3>1. PICK odd \in Nat : odd = (base + x) + 128
        OBVIOUS
      <3>2. Pow(odd) = MulQ(3328, Pow(base + x))
        BY <2>3, <3>1, PowHalf
      <3>3. Pow(odd + 256 * q0) = Pow(odd)
        BY PowWhole
      <3> QED
        BY <3>1, <3>2, <3>3
    <2>5. Pow(base + x) = MulQ(Pow(base), Pow(x))
      BY PowSum
    <2>6. MulQ(Pow(base), Pow(x)) = MulQ(Pow(x), Pow(base))
      BY PowIs, MulLaws
    <2>7. Value(l, e, c) = 0 /\ Value(l, e, c + l) = Pow(base)
      BY <1>6, <1>8, <1>12, <1>14
    <2>8. Value(l \div 2, e, c) = MulQ(Pow(x), Pow(base))
      BY <1>7, <1>9, <2>2, <2>5, <2>6
    <2>9. Value(l \div 2, e, c + l) = MulQ(3328, MulQ(Pow(x), Pow(base)))
      BY <1>7, <1>9, <2>2, <2>4, <2>5, <2>6
    <2> QED
      BY <1>4, <1>10, <2>7, <2>8, <2>9
  <1>13. CASE rest # r /\ rest # r + l
    <2>1. e % l # r
      BY <1>2, <1>3, <1>13, <1>14
    <2>2. /\ Value(l, e, c) = 0 /\ Value(l, e, c + l) = 0
          /\ Value(l \div 2, e, c) = 0 /\ Value(l \div 2, e, c + l) = 0
      BY <1>6, <1>7, <1>13, <2>1
    <2> QED
      BY <2>2, Few
  <1> QED
    BY <1>11, <1>12, <1>13

LEMMA ValueReduced ==
  ASSUME NEW l \in Lens \cup {1}, NEW e \in Nat, NEW c \in Cells
  PROVE  Value(l, e, c) \in Residues
  <1>1. /\ c \div (2 * l) \in 0 .. 127 /\ e \div (2 * l) \in Nat /\ l \in Nat
    <2>1. CASE l = 1
      BY <2>1 DEF Cells
    <2>2. CASE l = 2
      BY <2>2 DEF Cells
    <2>3. CASE l = 4
      BY <2>3 DEF Cells
    <2>4. CASE l = 8
      BY <2>4 DEF Cells
    <2>5. CASE l = 16
      BY <2>5 DEF Cells
    <2>6. CASE l = 32
      BY <2>6 DEF Cells
    <2>7. CASE l = 64
      BY <2>7 DEF Cells
    <2>8. CASE l = 128
      BY <2>8 DEF Cells
    <2> QED
      BY <2>1, <2>2, <2>3, <2>4, <2>5, <2>6, <2>7, <2>8 DEF Lens
  <1>2. Rev(c \div (2 * l)) \in 0 .. 127
    BY <1>1, RevBounds
  <1>3. Root(l, c \div (2 * l)) \in Nat
    BY <1>1, <1>2 DEF Root
  <1>4. Root(l, c \div (2 * l)) * (e \div (2 * l)) \in Nat
    BY <1>1, <1>3, Exponents
  <1> QED
    BY <1>4, PowIs, Few DEF Value

\* A butterfly of the transform takes the values of a level to the values of the
\* next.
LEMMA ForwardWing ==
  ASSUME NEW l \in Lens, NEW b \in Nat, b < 128 \div l, NEW r \in 0 .. l - 1,
         NEW c, c = Block0(l, b) + r, NEW e \in Nat,
         NEW zeta, zeta = Pow(Root(l \div 2, 2 * b)),
         NEW mul, mul = Transforming!ml_kem_multipl_mod(zeta, Value(l, e, c + l))
  PROVE  /\ Transforming!Sum(Value(l, e, c), mul) = Value(l \div 2, e, c)
         /\ Transforming!Diff(Value(l, e, c), mul) = Value(l \div 2, e, c + l)
  <1>1. zeta \in Residues
    <2>1. b \in 0 .. 63
      BY WingPlace
    <2> QED
      BY <2>1, RootIs, PowIs
  <1>2. PICK power \in Residues :
           \/ /\ Value(l, e, c) = power /\ Value(l, e, c + l) = 0
              /\ Value(l \div 2, e, c) = power /\ Value(l \div 2, e, c + l) = power
           \/ /\ Value(l, e, c) = 0 /\ Value(l, e, c + l) = power
              /\ Value(l \div 2, e, c) = MulQ(zeta, power)
              /\ Value(l \div 2, e, c + l) = MulQ(3328, MulQ(zeta, power))
    BY WingValues
  <1>3. Value(l, e, c) \in Residues /\ Value(l, e, c + l) \in Residues
    BY <1>2, Few
  <1>4. mul = MulQ(zeta, Value(l, e, c + l)) /\ mul \in Residues
    BY <1>1, <1>3, OperationsAre, ClosedQ
  <1>5. /\ Transforming!Sum(Value(l, e, c), mul) = AddQ(Value(l, e, c), mul)
        /\ Transforming!Diff(Value(l, e, c), mul) = SubQ(Value(l, e, c), mul)
    BY <1>3, <1>4, OperationsAre DEF Transforming!Sum, Transforming!Diff
  <1>6. CASE /\ Value(l, e, c) = power /\ Value(l, e, c + l) = 0
             /\ Value(l \div 2, e, c) = power /\ Value(l \div 2, e, c + l) = power
    <2>1. mul = 0
      BY <1>1, <1>4, <1>6, MulLaws
    <2>2. AddQ(power, 0) = power /\ SubQ(power, 0) = power
      BY AddLaws
    <2> QED
      BY <1>5, <1>6, <2>1, <2>2
  <1>7. CASE /\ Value(l, e, c) = 0 /\ Value(l, e, c + l) = power
             /\ Value(l \div 2, e, c) = MulQ(zeta, power)
             /\ Value(l \div 2, e, c + l) = MulQ(3328, MulQ(zeta, power))
    <2>1. mul = MulQ(zeta, power)
      BY <1>4, <1>7
    <2>2. AddQ(0, mul) = mul /\ SubQ(0, mul) = MulQ(3328, mul)
      BY <1>4, AddLaws
    <2> QED
      BY <1>5, <1>7, <2>1, <2>2
  <1> QED
    BY <1>2, <1>6, <1>7

LEMMA LensReduced ==
  ASSUME NEW l \in Lens
  PROVE  l \in Residues /\ l \div 2 \in Residues /\ MulQ(2, l \div 2) = l
  <1>1. l \in Residues /\ l \div 2 \in Residues
    BY DEF Lens, Residues, ML_KEM_Q
  <1>2. 2 * (l \div 2) = l /\ l % 3329 = l
    BY DEF Lens
  <1> QED
    BY <1>1, <1>2 DEF MulQ

LEMMA SelfDifference ==
  ASSUME NEW a \in Residues
  PROVE  SubQ(a, a) = 0
  BY DEF SubQ, Residues, ML_KEM_Q

Scaled(l, e, c) == MulQ(l, Value(l, e, c))

\* A butterfly of the inverse takes the values of a level, scaled, to those of the
\* level before it, scaled twice as much.
LEMMA BackwardWing ==
  ASSUME NEW l \in Lens, NEW b \in Nat, b < 128 \div l, NEW r \in 0 .. l - 1,
         NEW c, c = Block0(l, b) + r, NEW e \in Nat,
         NEW zeta, zeta = Pow(Root(l \div 2, 2 * b)),
         NEW back \in Residues, MulQ(back, zeta) = 3328,
         NEW low, low = Scaled(l \div 2, e, c), NEW high, high = Scaled(l \div 2, e, c + l)
  PROVE  /\ Transforming!Sum(low, high) = Scaled(l, e, c)
         /\ Transforming!ml_kem_multipl_mod(back, Transforming!InverseDiff(low, high)) = Scaled(l, e, c + l)
  <1>1. zeta \in Residues
    <2>1. b \in 0 .. 63
      BY WingPlace
    <2> QED
      BY <2>1, RootIs, PowIs
  <1>2. PICK power \in Residues :
           \/ /\ Value(l, e, c) = power /\ Value(l, e, c + l) = 0
              /\ Value(l \div 2, e, c) = power /\ Value(l \div 2, e, c + l) = power
           \/ /\ Value(l, e, c) = 0 /\ Value(l, e, c + l) = power
              /\ Value(l \div 2, e, c) = MulQ(zeta, power)
              /\ Value(l \div 2, e, c + l) = MulQ(3328, MulQ(zeta, power))
    BY WingValues
  <1>3. PICK half \in Residues : half = l \div 2
    BY LensReduced
  <1>4. l \in Residues /\ l = MulQ(2, half)
    BY <1>3, LensReduced
  <1>5. MulQ(zeta, power) \in Residues /\ MulQ(3328, MulQ(zeta, power)) \in Residues
    BY <1>1, Few, ClosedQ
  <1>6. low \in Residues /\ high \in Residues
    <2>1. Value(l \div 2, e, c) \in Residues /\ Value(l \div 2, e, c + l) \in Residues
      BY <1>2, <1>5
    <2>2. low = MulQ(half, Value(l \div 2, e, c)) /\ high = MulQ(half, Value(l \div 2, e, c + l))
      BY <1>3, Zenon DEF Scaled
    <2> QED
      <3>1. /\ MulQ(half, Value(l \div 2, e, c)) \in Residues
            /\ MulQ(half, Value(l \div 2, e, c + l)) \in Residues
        BY <2>1, ClosedQ
      <3> QED
        BY <2>2, <3>1
  <1>7. SubQ(high, low) \in Residues
    BY <1>6, ClosedQ
  <1>8. /\ Transforming!Sum(low, high) = AddQ(low, high)
        /\ Transforming!ml_kem_multipl_mod(back, Transforming!InverseDiff(low, high))
             = MulQ(back, SubQ(high, low))
    BY <1>6, <1>7, OperationsAre DEF Transforming!Sum, Transforming!InverseDiff
  <1>9. \A x \in Residues : MulQ(2, MulQ(half, x)) = MulQ(l, x)
    BY <1>4, Few, MulLaws
  <1>10. CASE /\ Value(l, e, c) = power /\ Value(l, e, c + l) = 0
              /\ Value(l \div 2, e, c) = power /\ Value(l \div 2, e, c + l) = power
    <2>1. low = MulQ(half, power) /\ high = MulQ(half, power)
      BY <1>3, <1>10 DEF Scaled
    <2>2. AddQ(low, high) = MulQ(2, low)
      BY <1>6, <2>1, AddLaws
    <2>3. MulQ(2, low) = MulQ(l, power)
      BY <1>9, <2>1
    <2>4. SubQ(high, low) = 0
      BY <1>6, <2>1, SelfDifference
    <2>5. MulQ(back, 0) = 0 /\ MulQ(l, 0) = 0
      BY <1>4, MulLaws
    <2> QED
      BY <1>8, <1>10, <2>2, <2>3, <2>4, <2>5 DEF Scaled
  <1>11. CASE /\ Value(l, e, c) = 0 /\ Value(l, e, c + l) = power
              /\ Value(l \div 2, e, c) = MulQ(zeta, power)
              /\ Value(l \div 2, e, c + l) = MulQ(3328, MulQ(zeta, power))
    <2>1. low = MulQ(half, MulQ(zeta, power)) /\ high = MulQ(half, MulQ(3328, MulQ(zeta, power)))
      BY <1>3, <1>11 DEF Scaled
    <2>2. high = MulQ(3328, low)
      <3>1. PICK both \in Residues : both = MulQ(zeta, power)
        BY <1>5
      <3>2. MulQ(half, MulQ(3328, both)) = MulQ(3328, MulQ(half, both))
        BY SignLaws
      <3> QED
        BY <2>1, <3>1, <3>2
    <2>3. AddQ(low, high) = 0 /\ MulQ(l, 0) = 0
      BY <1>4, <1>6, <2>2, AddLaws, MulLaws
    <2>4. SubQ(high, low) = MulQ(3328, MulQ(2, low))
      BY <1>6, <2>2, SignLaws
    <2>5. MulQ(2, low) = MulQ(l, MulQ(zeta, power))
      BY <1>5, <1>9, <2>1
    <2>6. MulQ(back, MulQ(3328, MulQ(2, low))) = MulQ(3328, MulQ(back, MulQ(2, low)))
      BY <1>6, Few, ClosedQ, SignLaws
    <2>7. MulQ(back, MulQ(l, MulQ(zeta, power))) = MulQ(3328, MulQ(l, power))
      <3>1. MulQ(back, MulQ(l, MulQ(zeta, power))) = MulQ(MulQ(back, l), MulQ(zeta, power))
        BY <1>4, <1>5, MulLaws
      <3>2. MulQ(back, l) = MulQ(l, back) /\ MulQ(l, back) \in Residues
        BY <1>4, MulLaws, ClosedQ
      <3>3. MulQ(MulQ(l, back), MulQ(zeta, power)) = MulQ(l, MulQ(back, MulQ(zeta, power)))
        BY <1>4, <1>5, MulLaws
      <3>4. MulQ(back, MulQ(zeta, power)) = MulQ(MulQ(back, zeta), power)
        BY <1>1, MulLaws
      <3>5. MulQ(l, MulQ(3328, power)) = MulQ(3328, MulQ(l, power))
        BY <1>4, SignLaws
      <3> QED
        BY <3>1, <3>2, <3>3, <3>4, <3>5
    <2>8. MulQ(3328, MulQ(3328, MulQ(l, power))) = MulQ(l, power)
      BY <1>4, ClosedQ, SignLaws
    <2> QED
      BY <1>8, <1>11, <2>3, <2>4, <2>5, <2>6, <2>7, <2>8 DEF Scaled
  <1> QED
    BY <1>2, <1>10, <1>11

\* The operations of an iteration of the multiplication.
LEMMA IterationIs ==
  ASSUME NEW a0 \in Residues, NEW a1 \in Residues, NEW b0 \in Residues, NEW b1 \in Residues,
         NEW g \in Residues
  PROVE  /\ Transforming!Even(a0, a1, b0, b1, g) = AddQ(MulQ(a0, b0), MulQ(MulQ(a1, b1), g))
         /\ Transforming!Odd(a0, a1, b0, b1, g) = AddQ(MulQ(a0, b1), MulQ(a1, b0))
  <1>1. /\ MulQ(a0, b0) \in Residues /\ MulQ(a1, b1) \in Residues /\ MulQ(MulQ(a1, b1), g) \in Residues
        /\ MulQ(a0, b1) \in Residues /\ MulQ(a1, b0) \in Residues
    BY ClosedQ
  <1>2. /\ Transforming!ml_kem_multipl_mod(a0, b0) = MulQ(a0, b0)
        /\ Transforming!ml_kem_multipl_mod(a1, b1) = MulQ(a1, b1)
        /\ Transforming!ml_kem_multipl_mod(MulQ(a1, b1), g) = MulQ(MulQ(a1, b1), g)
        /\ Transforming!ml_kem_multipl_mod(a0, b1) = MulQ(a0, b1)
        /\ Transforming!ml_kem_multipl_mod(a1, b0) = MulQ(a1, b0)
    BY <1>1, OperationsAre
  <1>3. /\ Transforming!ml_kem_add_mod(MulQ(a0, b0), MulQ(MulQ(a1, b1), g))
             = AddQ(MulQ(a0, b0), MulQ(MulQ(a1, b1), g))
        /\ Transforming!ml_kem_add_mod(MulQ(a0, b1), MulQ(a1, b0)) = AddQ(MulQ(a0, b1), MulQ(a1, b0))
    BY <1>1, OperationsAre
  <1> QED
    BY <1>2, <1>3 DEF Transforming!Even, Transforming!Odd

LEMMA FactorExponents ==
  ASSUME NEW x \in Nat, NEW p0 \in Nat, NEW q0 \in Nat
  PROVE  /\ x * p0 \in Nat /\ x * q0 \in Nat
         /\ x * (p0 + q0) = x * p0 + x * q0
         /\ x * ((p0 + q0) + 1) = (x * p0 + x * q0) + x
  BY SMTT(30)

\* Powers of the root of a pair of coefficients.
LEMMA FactorPowers ==
  ASSUME NEW x \in Nat, NEW p0 \in Nat, NEW q0 \in Nat
  PROVE  /\ Pow(x * p0) \in Residues /\ Pow(x * q0) \in Residues /\ Pow(x) \in Residues
         /\ Pow(x * (p0 + q0)) = MulQ(Pow(x * p0), Pow(x * q0))
         /\ Pow(x * ((p0 + q0) + 1)) = MulQ(MulQ(Pow(x * p0), Pow(x * q0)), Pow(x))
  <1>1. PICK p1 \in Nat, q1 \in Nat : p1 = x * p0 /\ q1 = x * q0
    BY FactorExponents
  <1>2. x * (p0 + q0) = p1 + q1 /\ x * ((p0 + q0) + 1) = (p1 + q1) + x
    BY <1>1, FactorExponents
  <1>3. p1 + q1 \in Nat
    OBVIOUS
  <1>4. Pow((p1 + q1) + x) = MulQ(Pow(p1 + q1), Pow(x))
    BY <1>3, PowSum
  <1>5. Pow(p1 + q1) = MulQ(Pow(p1), Pow(q1))
    BY PowSum
  <1>6. Pow(p1) \in Residues /\ Pow(q1) \in Residues /\ Pow(x) \in Residues
    BY PowIs
  <1> QED
    BY <1>1, <1>2, <1>4, <1>5, <1>6

\* An iteration of the multiplication multiplies the powers: exponents add, and
\* two odd ones bring in the root itself.
Lower(b) == 2 * b
Upper(b) == 2 * b + 1

LEMMA ProductValues ==
  ASSUME NEW b \in 0 .. 127, NEW a \in Nat, NEW d \in Nat
  PROVE  /\ Transforming!Even(Value(1, a, Lower(b)), Value(1, a, Upper(b)), Value(1, d, Lower(b)),
                              Value(1, d, Upper(b)), Pow(Root(1, b))) = Value(1, a + d, Lower(b))
         /\ Transforming!Odd(Value(1, a, Lower(b)), Value(1, a, Upper(b)), Value(1, d, Lower(b)),
                             Value(1, d, Upper(b)), Pow(Root(1, b))) = Value(1, a + d, Upper(b))
  <1>0. PICK c, gamma : c = 2 * b /\ gamma = Pow(Root(1, b)) /\ Lower(b) = c /\ Upper(b) = c + 1
    BY DEF Lower, Upper
  <1> SUFFICES
        /\ Transforming!Even(Value(1, a, c), Value(1, a, c + 1), Value(1, d, c), Value(1, d, c + 1), gamma)
             = Value(1, a + d, c)
        /\ Transforming!Odd(Value(1, a, c), Value(1, a, c + 1), Value(1, d, c), Value(1, d, c + 1), gamma)
             = Value(1, a + d, c + 1)
    BY <1>0
  <1>1. PICK x \in Nat : x = Root(1, b) /\ gamma = Pow(x)
    <2>1. Rev(b) \in 0 .. 127
      BY RevBounds
    <2>2. 2 * Rev(b) + 1 \in Nat
      BY <2>1
    <2>3. Root(1, b) \in Nat
      BY <2>2 DEF Root
    <2> QED
      BY <1>0, <2>3
  <1>2. c % 2 = 0 /\ c \div 2 = b /\ (c + 1) % 2 = 1 /\ (c + 1) \div 2 = b /\ 2 * 1 = 2
    BY <1>0
  <1>3. ASSUME NEW e \in Nat
        PROVE  /\ Value(1, e, c) = IF e % 2 = 0 THEN Pow(x * (e \div 2)) ELSE 0
               /\ Value(1, e, c + 1) = IF e % 2 = 0 THEN 0 ELSE Pow(x * (e \div 2))
    <2>1. e % 2 = 0 \/ e % 2 = 1
      OBVIOUS
    <2> QED
      BY <1>1, <1>2, <2>1 DEF Value
  <1>4. PICK p0 \in Nat, q0 \in Nat : p0 = a \div 2 /\ q0 = d \div 2
    <2>1. a \div 2 \in Nat /\ d \div 2 \in Nat
      OBVIOUS
    <2> QED
      BY <2>1
  <1>5. PICK left \in Residues, right \in Residues :
          /\ left = Pow(x * p0) /\ right = Pow(x * q0) /\ gamma \in Residues
          /\ Pow(x * (p0 + q0)) = MulQ(left, right)
          /\ Pow(x * ((p0 + q0) + 1)) = MulQ(MulQ(left, right), gamma)
    BY <1>1, FactorPowers
  <1>6. a + d \in Nat
    OBVIOUS
  <1>7. MulQ(left, right) \in Residues /\ MulQ(MulQ(left, right), gamma) \in Residues
    BY <1>5, ClosedQ
  <1>8. \A z0 \in Residues : /\ MulQ(0, z0) = 0 /\ MulQ(z0, 0) = 0
                             /\ AddQ(0, z0) = z0 /\ AddQ(z0, 0) = z0
    BY MulLaws, AddLaws
  <1>9. CASE a % 2 = 0 /\ d % 2 = 0
    <2>1. (a + d) % 2 = 0 /\ (a + d) \div 2 = p0 + q0
      BY <1>4, <1>9
    <2>2. Value(1, a, c) = left /\ Value(1, a, c + 1) = 0 /\ Value(1, d, c) = right /\ Value(1, d, c + 1) = 0
      BY <1>3, <1>4, <1>5, <1>9
    <2>3. Value(1, a + d, c) = MulQ(left, right) /\ Value(1, a + d, c + 1) = 0
      BY <1>3, <1>5, <1>6, <2>1
    <2>4. /\ Transforming!Even(left, 0, right, 0, gamma) = AddQ(MulQ(left, right), MulQ(MulQ(0, 0), gamma))
          /\ Transforming!Odd(left, 0, right, 0, gamma) = AddQ(MulQ(left, 0), MulQ(0, right))
      BY <1>5, Few, IterationIs
    <2> QED
      BY <1>5, <1>7, <1>8, <2>2, <2>3, <2>4, Few
  <1>10. CASE a % 2 = 0 /\ ~(d % 2 = 0)
    <2>1. ~((a + d) % 2 = 0) /\ (a + d) \div 2 = p0 + q0
      BY <1>4, <1>10
    <2>2. Value(1, a, c) = left /\ Value(1, a, c + 1) = 0 /\ Value(1, d, c) = 0 /\ Value(1, d, c + 1) = right
      BY <1>3, <1>4, <1>5, <1>10
    <2>3. Value(1, a + d, c) = 0 /\ Value(1, a + d, c + 1) = MulQ(left, right)
      BY <1>3, <1>5, <1>6, <2>1
    <2>4. /\ Transforming!Even(left, 0, 0, right, gamma) = AddQ(MulQ(left, 0), MulQ(MulQ(0, right), gamma))
          /\ Transforming!Odd(left, 0, 0, right, gamma) = AddQ(MulQ(left, right), MulQ(0, 0))
      BY <1>5, Few, IterationIs
    <2> QED
      BY <1>5, <1>7, <1>8, <2>2, <2>3, <2>4, Few
  <1>11. CASE ~(a % 2 = 0) /\ d % 2 = 0
    <2>1. ~((a + d) % 2 = 0) /\ (a + d) \div 2 = p0 + q0
      BY <1>4, <1>11
    <2>2. Value(1, a, c) = 0 /\ Value(1, a, c + 1) = left /\ Value(1, d, c) = right /\ Value(1, d, c + 1) = 0
      BY <1>3, <1>4, <1>5, <1>11
    <2>3. Value(1, a + d, c) = 0 /\ Value(1, a + d, c + 1) = MulQ(left, right)
      BY <1>3, <1>5, <1>6, <2>1
    <2>4. /\ Transforming!Even(0, left, right, 0, gamma) = AddQ(MulQ(0, right), MulQ(MulQ(left, 0), gamma))
          /\ Transforming!Odd(0, left, right, 0, gamma) = AddQ(MulQ(0, 0), MulQ(left, right))
      BY <1>5, Few, IterationIs
    <2> QED
      BY <1>5, <1>7, <1>8, <2>2, <2>3, <2>4, Few
  <1>12. CASE ~(a % 2 = 0) /\ ~(d % 2 = 0)
    <2>1. (a + d) % 2 = 0 /\ (a + d) \div 2 = (p0 + q0) + 1
      BY <1>4, <1>12
    <2>2. Value(1, a, c) = 0 /\ Value(1, a, c + 1) = left /\ Value(1, d, c) = 0 /\ Value(1, d, c + 1) = right
      BY <1>3, <1>4, <1>5, <1>12
    <2>3. Value(1, a + d, c) = MulQ(MulQ(left, right), gamma) /\ Value(1, a + d, c + 1) = 0
      BY <1>3, <1>5, <1>6, <2>1
    <2>4. /\ Transforming!Even(0, left, 0, right, gamma) = AddQ(MulQ(0, 0), MulQ(MulQ(left, right), gamma))
          /\ Transforming!Odd(0, left, 0, right, gamma) = AddQ(MulQ(0, right), MulQ(left, 0))
      BY <1>5, Few, IterationIs
    <2> QED
      BY <1>5, <1>7, <1>8, <2>2, <2>3, <2>4, Few
  <1> QED
    BY <1>9, <1>10, <1>11, <1>12

-----------------------------------------------------------------------------
(* The number theoretic transform: its loops compute the product *)

\* What the buffer holds in every loop: behind the running block the values of the
\* level that is made, before it those of the level it is made from.
NttExact ==
  /\ m \in Cells
  /\ pc = "ntt" => \A c \in Cells : f[c] = Value(IF c < start THEN len \div 2 ELSE len, m, c)
  /\ pc = "multiply" => \A c \in Cells : f[c] = Value(1, IF c \div 2 < i THEN m + n ELSE m, c)
  /\ pc = "intt" => \A c \in Cells : f[c] = Scaled(IF c < start THEN len ELSE len \div 2, m + n, c)
  /\ pc = "scale" => \A c \in Cells : f[c] = Scaled(128, m + n, c)
  /\ pc = "done" => \A c \in Cells : f[c] = Value(128, m + n, c)

LEMMA BlockNumber ==
  ASSUME NEW l \in Lens, NEW from \in Cells, from % (2 * l) = 0, from + 2 * l <= 256
  PROVE  /\ from \div (2 * l) \in Nat /\ from \div (2 * l) < 128 \div l
         /\ from = Block0(l, from \div (2 * l))
  <1>1. CASE l = 2
    BY <1>1 DEF Cells, Block0
  <1>2. CASE l = 4
    BY <1>2 DEF Cells, Block0
  <1>3. CASE l = 8
    BY <1>3 DEF Cells, Block0
  <1>4. CASE l = 16
    BY <1>4 DEF Cells, Block0
  <1>5. CASE l = 32
    BY <1>5 DEF Cells, Block0
  <1>6. CASE l = 64
    BY <1>6 DEF Cells, Block0
  <1>7. CASE l = 128
    BY <1>7 DEF Cells, Block0
  <1> QED
    BY <1>1, <1>2, <1>3, <1>4, <1>5, <1>6, <1>7 DEF Lens

\* The twiddle factor of a block is the root of the lower half of it, forwards;
\* backwards it is minus its inverse.
LEMMA TwiddleIs ==
  ASSUME NEW l \in Lens, NEW b \in Nat, b < 128 \div l
  PROVE  /\ Transforming!ml_kem_zetas((128 \div l) + b) = Pow(Root(l \div 2, 2 * b))
         /\ Transforming!ml_kem_zetas(((256 \div l) - 1) - b) \in Residues
         /\ MulQ(Transforming!ml_kem_zetas(((256 \div l) - 1) - b), Pow(Root(l \div 2, 2 * b))) = 3328
  <1>1. /\ b \in 0 .. 127 /\ (128 \div l) + b \in 0 .. 127 /\ ((256 \div l) - 1) - b \in 0 .. 127
        /\ Rev((128 \div l) + b) = Rev(b) + (l \div 2)
        /\ Rev(((256 \div l) - 1) - b) = (128 - (l \div 2)) - Rev(b)
    BY RevTwiddle
  <1>2. b \in 0 .. 63
    BY <1>1 DEF Lens
  <1>3. PICK x \in Nat : x = Root(l \div 2, 2 * b) /\ x = Rev(b) + (l \div 2)
    BY <1>2, RootIs
  <1>4. PICK z0 \in Nat : z0 = Rev(((256 \div l) - 1) - b)
    <2>1. Rev(((256 \div l) - 1) - b) \in 0 .. 127
      BY <1>1, RevBounds
    <2> QED
      BY <2>1
  <1>5. z0 + x = 128
    <2>1. Rev(b) \in 0 .. 127
      BY <1>1, RevBounds
    <2>2. l \div 2 \in Nat
      BY DEF Lens
    <2> QED
      BY <1>1, <1>3, <1>4, <2>1, <2>2
  <1>6. Transforming!ml_kem_zetas(((256 \div l) - 1) - b) = Pow(z0)
    BY <1>1, <1>4, TablesArePowers
  <1>7. Pow(z0 + x) = MulQ(Pow(z0), Pow(x)) /\ Pow(z0) \in Residues
    BY PowSum, PowIs
  <1>8. Transforming!ml_kem_zetas((128 \div l) + b) = Pow(x)
    BY <1>1, <1>3, TablesArePowers
  <1> QED
    BY <1>3, <1>5, <1>6, <1>7, <1>8, PowHalf

\* What a block of butterflies makes of each coefficient.
LEMMA BlockIs ==
  ASSUME NttInv, NEW wing, NEW c \in Cells
  PROVE  /\ c < start \/ start + 2 * len <= c => Transforming!Block(wing)[c] = f[c]
         /\ start <= c /\ c < start + len => Transforming!Block(wing)[c] = wing[c][1]
         /\ start + len <= c /\ c < start + 2 * len => Transforming!Block(wing)[c] = wing[c - len][2]
  <1>1. len \in 2 .. 128 /\ start \in 0 .. 255 /\ c \in 0 .. 255
    BY DEF NttInv, Lens, Cells
  <1>2. Transforming!Block(wing)[c] =
          CASE c \in Transforming!Wings -> wing[c][1]
            [] c - len \in Transforming!Wings -> wing[c - len][2]
            [] OTHER -> f[c]
    BY DEF Transforming!Block, Transforming!Cells, Cells, Transforming!ML_KEM_N
  <1>3. /\ c \in Transforming!Wings <=> start <= c /\ c < start + len
        /\ c - len \in Transforming!Wings <=> start + len <= c /\ c < start + 2 * len
    BY <1>1 DEF Transforming!Wings
  <1>4. CASE c < start \/ start + 2 * len <= c
    <2>1. c \notin Transforming!Wings /\ c - len \notin Transforming!Wings
      BY <1>1, <1>3, <1>4
    <2>2. ~(start <= c /\ c < start + len) /\ ~(start + len <= c /\ c < start + 2 * len)
      BY <1>1, <1>4
    <2> QED
      BY <1>2, <2>1, <2>2
  <1>5. CASE start <= c /\ c < start + len
    <2>1. c \in Transforming!Wings /\ c - len \notin Transforming!Wings
      BY <1>1, <1>3, <1>5
    <2>2. ~(c < start \/ start + 2 * len <= c) /\ ~(start + len <= c /\ c < start + 2 * len)
      BY <1>1, <1>5
    <2> QED
      BY <1>2, <2>1, <2>2
  <1>6. CASE start + len <= c /\ c < start + 2 * len
    <2>1. c \notin Transforming!Wings /\ c - len \in Transforming!Wings
      BY <1>1, <1>3, <1>6
    <2>2. ~(c < start \/ start + 2 * len <= c) /\ ~(start <= c /\ c < start + len)
      BY <1>1, <1>6
    <2> QED
      BY <1>2, <2>1, <2>2
  <1>7. \/ c < start \/ start + 2 * len <= c
        \/ start <= c /\ c < start + len
        \/ start + len <= c /\ c < start + 2 * len
    BY <1>1
  <1> QED
    BY <1>4, <1>5, <1>6, <1>7

\* Where a coefficient lies in the running block.
LEMMA BlockOffset ==
  ASSUME NttInv
  PROVE  \E b \in Nat : /\ b = start \div (2 * len) /\ b < 128 \div len
                        /\ \A c \in Cells : start <= c /\ c < start + len =>
                             /\ c - start \in 0 .. len - 1 /\ c = Block0(len, b) + (c - start)
                             /\ c + len \in Cells /\ ~(c < start) /\ ~(c + len < start)
  <1>1. PICK b \in Nat : b = start \div (2 * len) /\ b < 128 \div len /\ start = Block0(len, b)
    BY BlockNumber DEF NttInv
  <1>2. ASSUME NEW c \in Cells, start <= c, c < start + len
        PROVE  /\ c - start \in 0 .. len - 1 /\ c = start + (c - start)
               /\ c + len \in Cells /\ ~(c < start) /\ ~(c + len < start)
    BY <1>2 DEF NttInv, Lens, Cells
  <1> QED
    BY <1>1, <1>2

\* One block of the transform.
LEMMA ForwardValues ==
  ASSUME NttInv, NttExact, Transforming!ml_kem_ntt_fips203
  PROVE  \A c \in Cells : f'[c] = Value(IF c < start + 2 * len THEN len \div 2 ELSE len, m, c)
  <1> DEFINE zeta == Transforming!ml_kem_zetas(i)
             t0(j) == Transforming!ml_kem_multipl_mod(zeta, f[j + len])
             wing == [j \in Transforming!Wings |->
                        <<Transforming!Sum(f[j], t0(j)), Transforming!Diff(f[j], t0(j))>>]
  <1>0. pc = "ntt" /\ f' = Transforming!Block(wing)
    BY DEF Transforming!ml_kem_ntt_fips203
  <1>1. /\ len \in Lens /\ start \in Cells /\ m \in Nat
        /\ i = (128 \div len) + (start \div (2 * len))
        /\ \A c \in Cells : f[c] = Value(IF c < start THEN len \div 2 ELSE len, m, c)
    <2>1. \A c \in Cells : f[c] = Value(IF c < start THEN len \div 2 ELSE len, m, c)
      BY <1>0 DEF NttExact
    <2>2. /\ len \in Lens /\ start \in Cells
          /\ i = (128 \div len) + (start \div (2 * len))
      BY <1>0 DEF NttInv
    <2>3. m \in Nat
      BY DEF NttExact, Cells
    <2> QED
      BY <2>1, <2>2, <2>3
  <1>2. PICK b \in Nat : /\ b = start \div (2 * len) /\ b < 128 \div len
                         /\ \A c \in Cells : start <= c /\ c < start + len =>
                              /\ c - start \in 0 .. len - 1 /\ c = Block0(len, b) + (c - start)
                              /\ c + len \in Cells /\ ~(c < start) /\ ~(c + len < start)
    BY BlockOffset
  <1>3. zeta = Pow(Root(len \div 2, 2 * b))
    BY <1>1, <1>2, TwiddleIs
  <1>4. ASSUME NEW c \in Cells, start <= c, c < start + len
        PROVE  wing[c][1] = Value(len \div 2, m, c) /\ wing[c][2] = Value(len \div 2, m, c + len)
    <2>1. /\ c - start \in 0 .. len - 1 /\ c = Block0(len, b) + (c - start)
          /\ c + len \in Cells /\ ~(c < start) /\ ~(c + len < start)
      BY <1>2, <1>4
    <2>2. f[c] = Value(len, m, c) /\ f[c + len] = Value(len, m, c + len)
      BY <1>1, <2>1
    <2>3. c \in Transforming!Wings
      BY <1>1, <1>4 DEF Transforming!Wings, Cells, Lens
    <2>4. wing[c] = <<Transforming!Sum(f[c], t0(c)), Transforming!Diff(f[c], t0(c))>>
      BY <2>3
    <2>5. t0(c) = Transforming!ml_kem_multipl_mod(zeta, Value(len, m, c + len))
      BY <2>2
    <2> HIDE DEF t0, zeta, wing
    <2>6. /\ Transforming!Sum(Value(len, m, c), t0(c)) = Value(len \div 2, m, c)
          /\ Transforming!Diff(Value(len, m, c), t0(c)) = Value(len \div 2, m, c + len)
      BY <1>1, <1>2, <1>3, <2>1, <2>5, ForwardWing
    <2> QED
      BY <2>2, <2>4, <2>6
  <1> HIDE DEF wing, zeta
  <1> SUFFICES ASSUME NEW c \in Cells
               PROVE  f'[c] = Value(IF c < start + 2 * len THEN len \div 2 ELSE len, m, c)
    OBVIOUS
  <1>5. len \in 2 .. 128 /\ start \in 0 .. 255 /\ c \in 0 .. 255
    BY <1>1 DEF Lens, Cells
  <1>6. CASE c < start
    <2>1. c < start + 2 * len
      BY <1>5, <1>6
    <2> QED
      BY <1>0, <1>1, <1>6, <2>1, BlockIs
  <1>7. CASE start + 2 * len <= c
    <2>1. ~(c < start + 2 * len) /\ ~(c < start)
      BY <1>5, <1>7
    <2> QED
      BY <1>0, <1>1, <1>7, <2>1, BlockIs
  <1>8. CASE start <= c /\ c < start + len
    <2>1. c < start + 2 * len
      BY <1>5, <1>8
    <2> QED
      BY <1>0, <1>4, <1>8, <2>1, BlockIs
  <1>9. CASE start + len <= c /\ c < start + 2 * len
    <2>1. c - len \in Cells /\ start <= c - len /\ c - len < start + len /\ (c - len) + len = c
      BY <1>5, <1>9 DEF Cells
    <2>2. f'[c] = wing[c - len][2]
      BY <1>0, <1>9, BlockIs
    <2> QED
      BY <1>4, <1>9, <2>1, <2>2
  <1> QED
    BY <1>5, <1>6, <1>7, <1>8, <1>9

\* One block of the inverse.
LEMMA BackwardValues ==
  ASSUME NttInv, NttExact, Transforming!ml_kem_intt_fips203
  PROVE  \A c \in Cells : f'[c] = Scaled(IF c < start + 2 * len THEN len ELSE len \div 2, m + n, c)
  <1> DEFINE zeta == Transforming!ml_kem_zetas(i)
             d0(j) == Transforming!InverseDiff(f[j], f[j + len])
             wing == [j \in Transforming!Wings |->
                        <<Transforming!Sum(f[j], f[j + len]), Transforming!ml_kem_multipl_mod(zeta, d0(j))>>]
  <1>0. pc = "intt" /\ f' = Transforming!Block(wing)
    BY DEF Transforming!ml_kem_intt_fips203
  <1>1. /\ len \in Lens /\ start \in Cells /\ m + n \in Nat
        /\ i = ((256 \div len) - 1) - (start \div (2 * len))
        /\ \A c \in Cells : f[c] = Scaled(IF c < start THEN len ELSE len \div 2, m + n, c)
    <2>1. \A c \in Cells : f[c] = Scaled(IF c < start THEN len ELSE len \div 2, m + n, c)
      BY <1>0 DEF NttExact
    <2>2. /\ len \in Lens /\ start \in Cells
          /\ i = ((256 \div len) - 1) - (start \div (2 * len))
      BY <1>0 DEF NttInv
    <2>3. m \in Cells /\ n \in Cells
      BY DEF NttExact, NttInv
    <2>4. m + n \in Nat
      BY <2>3 DEF Cells
    <2> QED
      BY <2>1, <2>2, <2>4
  <1>2. PICK b \in Nat : /\ b = start \div (2 * len) /\ b < 128 \div len
                         /\ \A c \in Cells : start <= c /\ c < start + len =>
                              /\ c - start \in 0 .. len - 1 /\ c = Block0(len, b) + (c - start)
                              /\ c + len \in Cells /\ ~(c < start) /\ ~(c + len < start)
    BY BlockOffset
  <1>3. zeta \in Residues /\ MulQ(zeta, Pow(Root(len \div 2, 2 * b))) = 3328
    BY <1>1, <1>2, TwiddleIs
  <1>4. ASSUME NEW c \in Cells, start <= c, c < start + len
        PROVE  wing[c][1] = Scaled(len, m + n, c) /\ wing[c][2] = Scaled(len, m + n, c + len)
    <2>1. /\ c - start \in 0 .. len - 1 /\ c = Block0(len, b) + (c - start)
          /\ c + len \in Cells /\ ~(c < start) /\ ~(c + len < start)
      BY <1>2, <1>4
    <2>2. f[c] = Scaled(len \div 2, m + n, c) /\ f[c + len] = Scaled(len \div 2, m + n, c + len)
      BY <1>1, <2>1
    <2>3. c \in Transforming!Wings
      BY <1>1, <1>4 DEF Transforming!Wings, Cells, Lens
    <2>4. wing[c] = <<Transforming!Sum(f[c], f[c + len]), Transforming!ml_kem_multipl_mod(zeta, d0(c))>>
      BY <2>3
    <2>5. d0(c) = Transforming!InverseDiff(f[c], f[c + len])
      OBVIOUS
    <2> HIDE DEF d0, zeta, wing
    <2>6. /\ Transforming!Sum(f[c], f[c + len]) = Scaled(len, m + n, c)
          /\ Transforming!ml_kem_multipl_mod(zeta, Transforming!InverseDiff(f[c], f[c + len]))
               = Scaled(len, m + n, c + len)
      BY <1>1, <1>2, <1>3, <2>1, <2>2, BackwardWing
    <2> QED
      BY <2>4, <2>5, <2>6
  <1> HIDE DEF wing, zeta
  <1> SUFFICES ASSUME NEW c \in Cells
               PROVE  f'[c] = Scaled(IF c < start + 2 * len THEN len ELSE len \div 2, m + n, c)
    OBVIOUS
  <1>5. len \in 2 .. 128 /\ start \in 0 .. 255 /\ c \in 0 .. 255
    BY <1>1 DEF Lens, Cells
  <1>6. CASE c < start
    <2>1. c < start + 2 * len
      BY <1>5, <1>6
    <2> QED
      BY <1>0, <1>1, <1>6, <2>1, BlockIs
  <1>7. CASE start + 2 * len <= c
    <2>1. ~(c < start + 2 * len) /\ ~(c < start)
      BY <1>5, <1>7
    <2> QED
      BY <1>0, <1>1, <1>7, <2>1, BlockIs
  <1>8. CASE start <= c /\ c < start + len
    <2>1. c < start + 2 * len
      BY <1>5, <1>8
    <2> QED
      BY <1>0, <1>4, <1>8, <2>1, BlockIs
  <1>9. CASE start + len <= c /\ c < start + 2 * len
    <2>1. c - len \in Cells /\ start <= c - len /\ c - len < start + len /\ (c - len) + len = c
      BY <1>5, <1>9 DEF Cells
    <2>2. f'[c] = wing[c - len][2]
      BY <1>0, <1>9, BlockIs
    <2> QED
      BY <1>4, <1>9, <2>1, <2>2
  <1> QED
    BY <1>5, <1>6, <1>7, <1>8, <1>9

\* At the ends of the loops the values are those of monomials and transforms.
LEMMA ValuesAtEnds ==
  ASSUME NEW e \in 0 .. 510, NEW c \in Cells
  PROVE  /\ Value(128, e, c) = Transforming!Monomial(e)[c]
         /\ Value(1, e, c) = Transforming!Transform(e)[c]
  <1>1. Value(128, e, c) = Transforming!Monomial(e)[c]
    <2>1. Transforming!Monomial(e)[c] = IF c # e % 256 THEN 0 ELSE IF e < 256 THEN 1 ELSE 3328
      BY DEF Transforming!Monomial, Transforming!Cells, Cells, Transforming!ML_KEM_N,
             Transforming!ML_KEM_Q
    <2>2. c % (2 * 128) = c /\ c \div (2 * 128) = 0 /\ 2 * 128 = 256
      BY DEF Cells
    <2>3. Rev(0) = 0
      <3>1. 0 \in 0 .. 1 /\ 0 = 0 + 2 * 0 + 4 * 0 + 8 * 0 + 16 * 0 + 32 * 0 + 64 * 0
        OBVIOUS
      <3>2. Rev(0) = 64 * 0 + 32 * 0 + 16 * 0 + 8 * 0 + 4 * 0 + 2 * 0 + 0
        BY <3>1, RevDigits
      <3> QED
        BY <3>2
    <2>4. Root(128, 0) = 128
      BY <2>3 DEF Root
    <2>5. Value(128, e, c) = IF c # e % 256 THEN 0 ELSE Pow(128 * (e \div 256))
      BY <2>2, <2>4 DEF Value
    <2>6. CASE e < 256
      <3>1. 128 * (e \div 256) = 0
        BY <2>6
      <3> QED
        BY <2>1, <2>5, <2>6, <3>1, PowHalf
    <2>7. CASE ~(e < 256)
      <3>1. 128 * (e \div 256) = 128
        BY <2>7
      <3> QED
        BY <2>1, <2>5, <2>7, <3>1, PowHalf
    <2> QED
      BY <2>6, <2>7
  <1>2. Value(1, e, c) = Transforming!Transform(e)[c]
    <2>1. Transforming!Transform(e)[c] =
            IF c % 2 # e % 2 THEN 0
            ELSE Transforming!Power[((2 * Transforming!Reversed(c \div 2) + 1) * (e \div 2)) % 256]
      BY DEF Transforming!Transform, Transforming!Cells, Cells, Transforming!ML_KEM_N
    <2>2. 2 * 1 = 2
      OBVIOUS
    <2> QED
      BY <2>1, <2>2, Zenon DEF Value, Root, Rev, Pow
  <1> QED
    BY <1>1, <1>2

LEMMA ExactStarts ==
  ASSUME Transforming!Init
  PROVE  NttExact
  <1>1. /\ pc = "ntt" /\ len = 128 /\ start = 0 /\ m \in Cells /\ f = Transforming!Monomial(m)
    BY DEF Transforming!Init, Transforming!Cells, Cells, Transforming!ML_KEM_N
  <1>2. ASSUME NEW c \in Cells
        PROVE  f[c] = Value(IF c < start THEN len \div 2 ELSE len, m, c)
    <2>1. ~(c < 0) /\ m \in 0 .. 510
      BY <1>1 DEF Cells
    <2> QED
      BY <1>1, <2>1, ValuesAtEnds
  <1> QED
    BY <1>1, <1>2 DEF NttExact

LEMMA ForwardExact ==
  ASSUME NttInv, NttExact, Transforming!ml_kem_ntt_fips203
  PROVE  NttExact'
  <1>1. /\ pc = "ntt" /\ m' = m /\ n' = n
        /\ IF start + 2 * len < 256
           THEN start' = start + 2 * len /\ pc' = pc /\ len' = len
           ELSE /\ start' = 0
                /\ IF len > 2 THEN len' = len \div 2 /\ pc' = pc ELSE pc' = "multiply" /\ i' = 0
    BY DEF Transforming!ml_kem_ntt_fips203, Transforming!Stride, Transforming!ML_KEM_N
  <1>2. \A c \in Cells : f'[c] = Value(IF c < start + 2 * len THEN len \div 2 ELSE len, m, c)
    BY ForwardValues
  <1>3. m' \in Cells
    BY <1>1 DEF NttExact
  <1>4. start + 2 * len <= 256 /\ start \in Cells /\ len \in Lens
    BY DEF NttInv
  <1>5. CASE start + 2 * len < 256
    <2>1. \A c \in Cells : f'[c] = Value(IF c < start' THEN len' \div 2 ELSE len', m', c)
      BY <1>1, <1>2, <1>5
    <2> QED
      BY <1>1, <1>3, <1>5, <2>1 DEF NttExact
  <1>6. CASE ~(start + 2 * len < 256) /\ len > 2
    <2>1. ASSUME NEW c \in Cells
          PROVE  c < start + 2 * len /\ ~(c < 0)
      BY <1>4, <1>6 DEF Cells, Lens
    <2>2. \A c \in Cells : f'[c] = Value(IF c < start' THEN len' \div 2 ELSE len', m', c)
      BY <1>1, <1>2, <1>6, <2>1
    <2> QED
      BY <1>1, <1>3, <1>6, <2>2 DEF NttExact
  <1>7. CASE ~(start + 2 * len < 256) /\ ~(len > 2)
    <2>1. len \div 2 = 1
      BY <1>4, <1>7 DEF Lens
    <2>2. ASSUME NEW c \in Cells
          PROVE  c < start + 2 * len /\ ~(c \div 2 < 0)
      BY <1>4, <1>7 DEF Cells, Lens
    <2>3. \A c \in Cells : f'[c] = Value(1, IF c \div 2 < i' THEN m' + n' ELSE m', c)
      BY <1>1, <1>2, <1>7, <2>1, <2>2
    <2> QED
      BY <1>1, <1>3, <1>7, <2>3 DEF NttExact
  <1> QED
    BY <1>5, <1>6, <1>7

LEMMA MultiplyExact ==
  ASSUME NttInv, NttExact, Transforming!ml_kem_multiply
  PROVE  NttExact'
  <1> DEFINE second == Transforming!Transformed[n]
             p(c) == c - (c % 2)
             g(c) == Transforming!ml_kem_gammas(c \div 2)
  <1>0. /\ pc = "multiply" /\ m' = m /\ n' = n
        /\ f' = [c \in Cells |->
                   IF c \div 2 \notin i .. i + 7 THEN f[c]
                   ELSE IF c % 2 = 0
                     THEN Transforming!Even(f[p(c)], f[p(c) + 1], second[p(c)], second[p(c) + 1], g(c))
                     ELSE Transforming!Odd(f[p(c)], f[p(c) + 1], second[p(c)], second[p(c) + 1], g(c))]
        /\ IF i + 8 < 128
           THEN i' = i + 8 /\ pc' = pc
           ELSE pc' = "intt" /\ len' = 2 /\ start' = 0
    BY DEF Transforming!ml_kem_multiply, Transforming!Cells, Cells, Transforming!ML_KEM_N,
           Transforming!HALF_NUMB_COEF_TWIDDLES
  <1>1. m \in Cells /\ n \in Cells /\ i \in 0 .. 120 /\ m \in 0 .. 255 /\ n \in 0 .. 255
    <2>1. m \in Cells /\ n \in Cells
      BY DEF NttInv, NttExact
    <2>2. i \in 0 .. 120
      BY <1>0 DEF NttInv
    <2> QED
      BY <2>1, <2>2 DEF Cells
  <1>2. \A c \in Cells : f[c] = Value(1, IF c \div 2 < i THEN m + n ELSE m, c)
    BY <1>0 DEF NttExact
  <1>3. \A c \in Cells : second[c] = Value(1, n, c)
    <2>1. second = Transforming!Transform(n)
      BY <1>1 DEF Transforming!Transformed, Transforming!Cells, Cells, Transforming!ML_KEM_N
    <2>2. n \in 0 .. 510
      BY <1>1
    <2> QED
      BY <2>1, <2>2, ValuesAtEnds
  <1>4. ASSUME NEW c \in Cells
        PROVE  f'[c] = Value(1, IF c \div 2 < i + 8 THEN m + n ELSE m, c)
    <2>1. PICK b \in 0 .. 127 : b = c \div 2
      <3>1. c \div 2 \in 0 .. 127
        BY DEF Cells
      <3> QED
        BY <3>1
    <2>2. /\ p(c) = 2 * b /\ 2 * b \in Cells /\ 2 * b + 1 \in Cells
          /\ (2 * b) \div 2 = b /\ (2 * b + 1) \div 2 = b
          /\ c = IF c % 2 = 0 THEN 2 * b ELSE 2 * b + 1
      BY <2>1 DEF Cells
    <2>3. g(c) = Pow(2 * Rev(b) + 1)
      BY <2>1, TablesArePowers
    <2>4. CASE b \in i .. i + 7
      <3>1. ~(b < i) /\ b < i + 8
        BY <1>1, <2>4
      <3>2. /\ f[2 * b] = Value(1, m, 2 * b) /\ f[2 * b + 1] = Value(1, m, 2 * b + 1)
            /\ second[2 * b] = Value(1, n, 2 * b) /\ second[2 * b + 1] = Value(1, n, 2 * b + 1)
        BY <1>2, <1>3, <2>2, <3>1
      <3>3. m \in Nat /\ n \in Nat
        BY <1>1
      <3> HIDE DEF second, g, p
      <3>4. /\ Transforming!Even(f[2 * b], f[2 * b + 1], second[2 * b], second[2 * b + 1], g(c))
                  = Value(1, m + n, 2 * b)
            /\ Transforming!Odd(f[2 * b], f[2 * b + 1], second[2 * b], second[2 * b + 1], g(c))
                  = Value(1, m + n, 2 * b + 1)
        <4>1. 2 * b = Lower(b) /\ 2 * b + 1 = Upper(b) /\ g(c) = Pow(Root(1, b))
          BY <2>3 DEF Lower, Upper, Root
        <4>2. /\ Transforming!Even(Value(1, m, Lower(b)), Value(1, m, Upper(b)), Value(1, n, Lower(b)),
                                   Value(1, n, Upper(b)), Pow(Root(1, b))) = Value(1, m + n, Lower(b))
              /\ Transforming!Odd(Value(1, m, Lower(b)), Value(1, m, Upper(b)), Value(1, n, Lower(b)),
                                  Value(1, n, Upper(b)), Pow(Root(1, b))) = Value(1, m + n, Upper(b))
          BY <3>3, ProductValues
        <4> QED
          BY <3>2, <4>1, <4>2
      <3>5. f'[c] = IF c % 2 = 0
                    THEN Transforming!Even(f[2 * b], f[2 * b + 1], second[2 * b], second[2 * b + 1], g(c))
                    ELSE Transforming!Odd(f[2 * b], f[2 * b + 1], second[2 * b], second[2 * b + 1], g(c))
        BY <1>0, <2>1, <2>2, <2>4
      <3>6. c \div 2 < i + 8
        BY <2>1, <3>1
      <3> QED
        BY <2>2, <3>4, <3>5, <3>6
    <2>5. CASE b \notin i .. i + 7
      <3>1. f'[c] = f[c]
        BY <1>0, <2>1, <2>5
      <3>2. b < i <=> b < i + 8
        BY <1>1, <2>5
      <3> QED
        BY <1>2, <2>1, <3>1, <3>2
    <2> QED
      BY <2>4, <2>5
  <1> HIDE DEF second, p, g
  <1>5. CASE i + 8 < 128
    <2>1. \A c \in Cells : f'[c] = Value(1, IF c \div 2 < i' THEN m' + n' ELSE m', c)
      BY <1>0, <1>4, <1>5
    <2> QED
      BY <1>0, <1>1, <1>5, <2>1 DEF NttExact
  <1>6. CASE ~(i + 8 < 128)
    <2>1. 2 \div 2 = 1
      OBVIOUS
    <2>2. ASSUME NEW c \in Cells
          PROVE  c \div 2 < i + 8 /\ ~(c < 0)
      BY <1>1, <1>6 DEF Cells
    <2>3. ASSUME NEW c \in Cells
          PROVE  f'[c] = Scaled(1, m + n, c)
      <3>1. Value(1, m + n, c) \in Residues
        <4>1. m + n \in Nat
          BY <1>1
        <4> QED
          BY <4>1, ValueReduced
      <3>2. MulQ(1, Value(1, m + n, c)) = Value(1, m + n, c)
        BY <3>1, MulLaws
      <3> QED
        BY <1>4, <2>2, <3>2 DEF Scaled
    <2>4. \A c \in Cells : f'[c] = Scaled(IF c < start' THEN len' ELSE len' \div 2, m' + n', c)
      BY <1>0, <1>6, <2>1, <2>2, <2>3
    <2> QED
      BY <1>0, <1>1, <1>6, <2>4 DEF NttExact
  <1> QED
    BY <1>5, <1>6

LEMMA BackwardExact ==
  ASSUME NttInv, NttExact, Transforming!ml_kem_intt_fips203
  PROVE  NttExact'
  <1>1. /\ pc = "intt" /\ m' = m /\ n' = n
        /\ IF start + 2 * len < 256
           THEN start' = start + 2 * len /\ pc' = pc /\ len' = len
           ELSE /\ start' = 0
                /\ IF len < 128 THEN len' = 2 * len /\ pc' = pc ELSE pc' = "scale"
    BY DEF Transforming!ml_kem_intt_fips203, Transforming!Stride, Transforming!ML_KEM_N,
           Transforming!HALF_NUMB_COEF_TWIDDLES
  <1>2. \A c \in Cells : f'[c] = Scaled(IF c < start + 2 * len THEN len ELSE len \div 2, m + n, c)
    BY BackwardValues
  <1>3. m' \in Cells
    BY <1>1 DEF NttExact
  <1>4. start + 2 * len <= 256 /\ start \in Cells /\ len \in Lens
    BY DEF NttInv
  <1>5. CASE start + 2 * len < 256
    <2>1. \A c \in Cells : f'[c] = Scaled(IF c < start' THEN len' ELSE len' \div 2, m' + n', c)
      BY <1>1, <1>2, <1>5
    <2> QED
      BY <1>1, <1>3, <1>5, <2>1 DEF NttExact
  <1>6. ASSUME NEW c \in Cells, ~(start + 2 * len < 256)
        PROVE  c < start + 2 * len /\ ~(c < 0)
    BY <1>4, <1>6 DEF Cells, Lens
  <1>7. CASE ~(start + 2 * len < 256) /\ len < 128
    <2>1. (2 * len) \div 2 = len
      BY <1>4 DEF Lens
    <2>2. \A c \in Cells : f'[c] = Scaled(IF c < start' THEN len' ELSE len' \div 2, m' + n', c)
      BY <1>1, <1>2, <1>6, <1>7, <2>1
    <2> QED
      BY <1>1, <1>3, <1>7, <2>2 DEF NttExact
  <1>8. CASE ~(start + 2 * len < 256) /\ ~(len < 128)
    <2>1. len = 128
      BY <1>4, <1>8 DEF Lens
    <2>2. \A c \in Cells : f'[c] = Scaled(128, m' + n', c)
      BY <1>1, <1>2, <1>6, <1>8, <2>1
    <2> QED
      BY <1>1, <1>3, <1>8, <2>2 DEF NttExact
  <1> QED
    BY <1>5, <1>7, <1>8

LEMMA ScaleExact ==
  ASSUME NttInv, NttExact, Transforming!Scale
  PROVE  NttExact'
  <1>1. /\ pc = "scale" /\ pc' = "done" /\ m' = m /\ n' = n
        /\ f' = [c \in Cells |-> Transforming!ml_kem_multipl_mod(f[c], 3303)]
    BY DEF Transforming!Scale, Transforming!Cells, Cells, Transforming!ML_KEM_N,
           Transforming!ML_KEM_COEFF_NORMALIZATION
  <1>2. m \in Cells /\ n \in Cells /\ \A c \in Cells : f[c] = Scaled(128, m + n, c)
    BY <1>1 DEF NttInv, NttExact
  <1>3. ASSUME NEW c \in Cells
        PROVE  f'[c] = Value(128, m + n, c)
    <2>1. m + n \in Nat /\ 128 \in Lens
      BY <1>2 DEF Cells, Lens
    <2>2. PICK value \in Residues : value = Value(128, m + n, c)
      BY <2>1, ValueReduced
    <2>3. 128 \in Residues
      BY <2>1, LensReduced
    <2>4. f[c] = MulQ(128, value) /\ MulQ(128, value) \in Residues
      BY <1>2, <2>2, <2>3, ClosedQ DEF Scaled
    <2>5. Transforming!ml_kem_multipl_mod(f[c], 3303) = MulQ(MulQ(128, value), 3303)
      BY <2>4, Few, OperationsAre
    <2>6. MulQ(MulQ(128, value), 3303) = MulQ(3303, MulQ(128, value))
      BY <2>4, Few, MulLaws
    <2>7. MulQ(3303, MulQ(128, value)) = MulQ(MulQ(3303, 128), value)
      BY <2>3, Few, MulLaws
    <2>8. MulQ(3303, 128) = 1
      BY DEF MulQ
    <2>9. MulQ(1, value) = value
      BY MulLaws
    <2> QED
      BY <1>1, <2>2, <2>5, <2>6, <2>7, <2>8, <2>9
  <1> QED
    BY <1>1, <1>2, <1>3 DEF NttExact

\* Transform, product and inverse are right for every pair of monomials: after
\* the transform the buffer holds the residues of X^m, and in the end, although
\* it was formed in the buffer of a factor, the product X^(m+n) modulo X^256 + 1
\* (ml_kem_ntt_main.c).
THEOREM ProductIsRight == PrimitivesSpec => []NegacyclicProduct
  <1> DEFINE Kept == part = "ntt" => NttInv /\ NttExact
             Safe == part = "ntt" => Transforming!TypeOK /\ Transforming!TwiddleInOrder
  <1>1. PrimitivesInit => Kept
    BY NttStarts, ExactStarts DEF PrimitivesInit
  <1>2. Kept /\ [PrimitivesNext]_primitiveVars => Kept'
    <2> SUFFICES ASSUME Kept, [PrimitivesNext]_primitiveVars, part' = "ntt"
                 PROVE  NttInv' /\ NttExact'
      OBVIOUS
    <2>1. CASE RunNtt(Transforming!Next)
      <3>1. NttInv /\ NttExact
        BY <2>1 DEF RunNtt
      <3>2. \/ Transforming!ml_kem_ntt_fips203 \/ Transforming!ml_kem_multiply
            \/ Transforming!ml_kem_intt_fips203 \/ Transforming!Scale
        BY <2>1 DEF RunNtt, Transforming!Next
      <3>3. CASE Transforming!ml_kem_ntt_fips203
        BY <3>1, <3>3, ForwardKeeps, ForwardExact
      <3>4. CASE Transforming!ml_kem_multiply
        BY <3>1, <3>4, MultiplyKeeps, MultiplyExact
      <3>5. CASE Transforming!ml_kem_intt_fips203
        BY <3>1, <3>5, BackwardKeeps, BackwardExact
      <3>6. CASE Transforming!Scale
        BY <3>1, <3>6, ScaleKeeps, ScaleExact
      <3> QED
        BY <3>2, <3>3, <3>4, <3>5, <3>6
    <2>2. CASE ~RunNtt(Transforming!Next)
      <3>1. part = "ntt" /\ UNCHANGED nttVars
        BY <2>2 DEF PrimitivesNext, primitiveVars, RunResidues, RunCbd, RunKeccak, RunScheme
      <3> QED
        BY <3>1 DEF nttVars, NttInv, NttExact
    <2> QED
      BY <2>1, <2>2
  <1>3. Kept /\ Safe => NegacyclicProduct
    <2> SUFFICES ASSUME NttInv, NttExact, Transforming!TypeOK, Transforming!TwiddleInOrder
                 PROVE  Transforming!NegacyclicProduct
      BY DEF NegacyclicProduct
    <2>1. m \in Cells /\ n \in Cells /\ f \in [Cells -> Residues]
      BY DEF NttInv, NttExact
    <2>2. m \in 0 .. 510 /\ m + n \in 0 .. 510
      BY <2>1 DEF Cells
    <2>3. Transforming!TransformIsResidues
      <3>1. SUFFICES ASSUME pc = "multiply", i = 0
                     PROVE  f = Transforming!Transform(m)
        BY <2>1 DEF Transforming!TransformIsResidues, Transforming!Transformed, Transforming!Cells, Cells,
                    Transforming!ML_KEM_N
      <3>2. ASSUME NEW c \in Cells
            PROVE  f[c] = Transforming!Transform(m)[c]
        <4>1. ~(c \div 2 < 0)
          BY DEF Cells
        <4> QED
          BY <2>2, <3>1, <4>1, ValuesAtEnds DEF NttExact
      <3>3. Transforming!Transform(m) = [c \in Cells |-> Transforming!Transform(m)[c]]
        BY DEF Transforming!Transform, Transforming!Cells, Cells, Transforming!ML_KEM_N
      <3>4. f = [c \in Cells |-> f[c]]
        BY <2>1
      <3> QED
        BY <3>2, <3>3, <3>4
    <2>4. Transforming!ProductIsNegacyclic
      <3>1. SUFFICES ASSUME pc = "done"
                     PROVE  f = Transforming!Monomial(m + n)
        BY DEF Transforming!ProductIsNegacyclic
      <3>2. ASSUME NEW c \in Cells
            PROVE  f[c] = Transforming!Monomial(m + n)[c]
        BY <2>2, <3>1, ValuesAtEnds DEF NttExact
      <3>3. Transforming!Monomial(m + n) = [c \in Cells |-> Transforming!Monomial(m + n)[c]]
        BY DEF Transforming!Monomial, Transforming!Cells, Cells, Transforming!ML_KEM_N
      <3>4. f = [c \in Cells |-> f[c]]
        BY <2>1
      <3> QED
        BY <3>2, <3>3, <3>4
    <2> QED
      BY <2>3, <2>4 DEF Transforming!NegacyclicProduct
  <1> HIDE DEF Kept, Safe
  <1>4. PrimitivesSpec => []Safe
    BY TransformStaysReduced DEF Safe
  <1> QED
    BY <1>1, <1>2, <1>3, <1>4, PTL DEF PrimitivesSpec

-----------------------------------------------------------------------------
(* The number theoretic transform: why monomials are enough *)

\* Sums, differences and products of residues keep the laws of a ring.
LEMMA RingLaws ==
  ASSUME NEW a \in Residues, NEW b \in Residues, NEW c \in Residues, NEW d \in Residues
  PROVE  /\ AddQ(AddQ(a, b), AddQ(c, d)) = AddQ(AddQ(a, c), AddQ(b, d))
         /\ SubQ(AddQ(a, b), AddQ(c, d)) = AddQ(SubQ(a, c), SubQ(b, d))
         /\ MulQ(a, AddQ(b, c)) = AddQ(MulQ(a, b), MulQ(a, c))
         /\ MulQ(a, SubQ(b, c)) = SubQ(MulQ(a, b), MulQ(a, c))
  <1>1. a \in Int /\ b \in Int /\ c \in Int /\ d \in Int
    BY DEF Residues, ML_KEM_Q
  <1>2. AddQ(AddQ(a, b), AddQ(c, d)) = AddQ(AddQ(a, c), AddQ(b, d))
    <2>1. AddQ(AddQ(a, b), AddQ(c, d)) = ((a + b) + (c + d)) % 3329
      BY <1>1 DEF AddQ
    <2>2. AddQ(AddQ(a, c), AddQ(b, d)) = ((a + c) + (b + d)) % 3329
      BY <1>1 DEF AddQ
    <2>3. (a + b) + (c + d) = (a + c) + (b + d)
      BY <1>1
    <2> QED
      BY <2>1, <2>2, <2>3
  <1>3. SubQ(AddQ(a, b), AddQ(c, d)) = AddQ(SubQ(a, c), SubQ(b, d))
    <2>1. SubQ(AddQ(a, b), AddQ(c, d)) = ((a + b) - (c + d)) % 3329
      BY <1>1 DEF AddQ, SubQ
    <2>2. AddQ(SubQ(a, c), SubQ(b, d)) = ((a - c) + (b - d)) % 3329
      BY <1>1 DEF AddQ, SubQ
    <2>3. (a + b) - (c + d) = (a - c) + (b - d)
      BY <1>1
    <2> QED
      BY <2>1, <2>2, <2>3
  <1>4. /\ a * b \in Int /\ a * c \in Int
        /\ (b + c) * a = (a * b) + (a * c) /\ (b - c) * a = (a * b) - (a * c)
    BY <1>1, SMTT(30)
  <1>5. MulQ(a, AddQ(b, c)) = ((b + c) * a) % 3329
    <2>1. b + c \in Int /\ (b + c) % 3329 \in Int
      BY <1>1
    <2>2. (((b + c) % 3329) * a) % 3329 = ((b + c) * a) % 3329
      BY <1>1, <2>1, ReducedFactor
    <2>3. PICK sum \in Int : sum = (b + c) % 3329
      BY <2>1
    <2>4. a * sum = sum * a
      BY <1>1, SMTT(30)
    <2> QED
      BY <2>2, <2>3, <2>4 DEF MulQ, AddQ
  <1>6. MulQ(a, SubQ(b, c)) = ((b - c) * a) % 3329
    <2>1. b - c \in Int /\ (b - c) % 3329 \in Int
      BY <1>1
    <2>2. (((b - c) % 3329) * a) % 3329 = ((b - c) * a) % 3329
      BY <1>1, <2>1, ReducedFactor
    <2>3. PICK diff \in Int : diff = (b - c) % 3329
      BY <2>1
    <2>4. a * diff = diff * a
      BY <1>1, SMTT(30)
    <2> QED
      BY <2>2, <2>3, <2>4 DEF MulQ, SubQ
  <1>7. PICK ab \in Int, ac \in Int : ab = a * b /\ ac = a * c
    BY <1>4
  <1>8. ((ab % 3329) + (ac % 3329)) % 3329 = (ab + ac) % 3329
        /\ ((ab % 3329) - (ac % 3329)) % 3329 = (ab - ac) % 3329
    OBVIOUS
  <1>9. /\ AddQ(MulQ(a, b), MulQ(a, c)) = (ab + ac) % 3329
        /\ SubQ(MulQ(a, b), MulQ(a, c)) = (ab - ac) % 3329
    BY <1>7, <1>8 DEF AddQ, SubQ, MulQ
  <1> QED
    BY <1>2, <1>3, <1>4, <1>5, <1>6, <1>7, <1>9

\* A combination of two coefficients.
Lin(h, a, b) == AddQ(MulQ(h, a), b)

LEMMA LinLaws ==
  ASSUME NEW h \in Residues, NEW a \in Residues, NEW b \in Residues,
         NEW c \in Residues, NEW d \in Residues
  PROVE  /\ Lin(h, a, b) \in Residues
         /\ AddQ(Lin(h, a, b), Lin(h, c, d)) = Lin(h, AddQ(a, c), AddQ(b, d))
         /\ SubQ(Lin(h, a, b), Lin(h, c, d)) = Lin(h, SubQ(a, c), SubQ(b, d))
         /\ MulQ(c, Lin(h, a, b)) = Lin(h, MulQ(c, a), MulQ(c, b))
         /\ MulQ(Lin(h, a, b), c) = Lin(h, MulQ(a, c), MulQ(b, c))
  <1>1. MulQ(h, a) \in Residues /\ MulQ(h, c) \in Residues /\ MulQ(c, h) \in Residues /\ MulQ(c, a) \in Residues
    BY ClosedQ
  <1>2. Lin(h, a, b) \in Residues
    BY <1>1, ClosedQ DEF Lin
  <1>3. AddQ(Lin(h, a, b), Lin(h, c, d)) = Lin(h, AddQ(a, c), AddQ(b, d))
    BY <1>1, RingLaws DEF Lin
  <1>4. SubQ(Lin(h, a, b), Lin(h, c, d)) = Lin(h, SubQ(a, c), SubQ(b, d))
    <2>1. SubQ(AddQ(MulQ(h, a), b), AddQ(MulQ(h, c), d)) = AddQ(SubQ(MulQ(h, a), MulQ(h, c)), SubQ(b, d))
      BY <1>1, RingLaws
    <2>2. MulQ(h, SubQ(a, c)) = SubQ(MulQ(h, a), MulQ(h, c))
      BY RingLaws
    <2> QED
      BY <2>1, <2>2 DEF Lin
  <1>5. MulQ(c, Lin(h, a, b)) = Lin(h, MulQ(c, a), MulQ(c, b))
    <2>1. MulQ(c, AddQ(MulQ(h, a), b)) = AddQ(MulQ(c, MulQ(h, a)), MulQ(c, b))
      BY <1>1, RingLaws
    <2>2. /\ MulQ(c, MulQ(h, a)) = MulQ(MulQ(c, h), a) /\ MulQ(c, h) = MulQ(h, c)
          /\ MulQ(MulQ(h, c), a) = MulQ(h, MulQ(c, a))
      BY MulLaws
    <2> QED
      BY <2>1, <2>2 DEF Lin
  <1>6. MulQ(Lin(h, a, b), c) = Lin(h, MulQ(a, c), MulQ(b, c))
    <2>1. MulQ(Lin(h, a, b), c) = MulQ(c, Lin(h, a, b)) /\ MulQ(c, a) = MulQ(a, c) /\ MulQ(c, b) = MulQ(b, c)
      BY <1>2, MulLaws
    <2> QED
      BY <1>5, <2>1
  <1> QED
    BY <1>2, <1>3, <1>4, <1>5, <1>6

\* The operations of the loops in terms of sums and products of residues.
LEMMA ButterflyIs ==
  ASSUME NEW zeta \in Residues, NEW lo \in Residues, NEW hi \in Residues
  PROVE  /\ Transforming!Sum(lo, Transforming!ml_kem_multipl_mod(zeta, hi)) = AddQ(lo, MulQ(zeta, hi))
         /\ Transforming!Diff(lo, Transforming!ml_kem_multipl_mod(zeta, hi)) = SubQ(lo, MulQ(zeta, hi))
         /\ Transforming!Sum(lo, hi) = AddQ(lo, hi)
         /\ Transforming!ml_kem_multipl_mod(zeta, Transforming!InverseDiff(lo, hi))
              = MulQ(zeta, SubQ(hi, lo))
         /\ Transforming!ml_kem_multipl_mod(lo, 3303) = MulQ(lo, 3303)
  <1>1. MulQ(zeta, hi) \in Residues /\ SubQ(hi, lo) \in Residues
    BY ClosedQ
  <1>2. /\ Transforming!ml_kem_multipl_mod(zeta, hi) = MulQ(zeta, hi)
        /\ Transforming!ml_kem_add_mod(lo, MulQ(zeta, hi)) = AddQ(lo, MulQ(zeta, hi))
        /\ Transforming!ml_kem_sub_mod(lo, MulQ(zeta, hi)) = SubQ(lo, MulQ(zeta, hi))
        /\ Transforming!ml_kem_add_mod(lo, hi) = AddQ(lo, hi)
        /\ Transforming!ml_kem_sub_mod(hi, lo) = SubQ(hi, lo)
        /\ Transforming!ml_kem_multipl_mod(zeta, SubQ(hi, lo)) = MulQ(zeta, SubQ(hi, lo))
        /\ Transforming!ml_kem_multipl_mod(lo, 3303) = MulQ(lo, 3303)
    BY <1>1, Few, OperationsAre
  <1> QED
    BY <1>2 DEF Transforming!Sum, Transforming!Diff, Transforming!InverseDiff

\* The two results of a butterfly.
LEMMA ForwardLinear ==
  ASSUME NEW h \in Residues, NEW zeta \in Residues, NEW a \in Residues, NEW b \in Residues,
         NEW c \in Residues, NEW d \in Residues
  PROVE  /\ Transforming!Sum(Lin(h, a, b), Transforming!ml_kem_multipl_mod(zeta, Lin(h, c, d)))
              = Lin(h, Transforming!Sum(a, Transforming!ml_kem_multipl_mod(zeta, c)), Transforming!Sum(b, Transforming!ml_kem_multipl_mod(zeta, d)))
         /\ Transforming!Diff(Lin(h, a, b), Transforming!ml_kem_multipl_mod(zeta, Lin(h, c, d)))
              = Lin(h, Transforming!Diff(a, Transforming!ml_kem_multipl_mod(zeta, c)), Transforming!Diff(b, Transforming!ml_kem_multipl_mod(zeta, d)))
  <1>1. Lin(h, a, b) \in Residues /\ Lin(h, c, d) \in Residues
    BY LinLaws
  <1>3. /\ MulQ(zeta, a) \in Residues /\ MulQ(zeta, b) \in Residues
        /\ MulQ(zeta, c) \in Residues /\ MulQ(zeta, d) \in Residues
        /\ SubQ(c, a) \in Residues /\ SubQ(d, b) \in Residues
        /\ MulQ(zeta, Lin(h, c, d)) = Lin(h, MulQ(zeta, c), MulQ(zeta, d))
    <2>1. /\ MulQ(zeta, a) \in Residues /\ MulQ(zeta, b) \in Residues
          /\ MulQ(zeta, c) \in Residues /\ MulQ(zeta, d) \in Residues
          /\ SubQ(c, a) \in Residues /\ SubQ(d, b) \in Residues
      BY ClosedQ
    <2>2. \A lo \in Residues, hi \in Residues, w \in Residues :
            MulQ(w, Lin(h, lo, hi)) = Lin(h, MulQ(w, lo), MulQ(w, hi))
      BY LinLaws
    <2> QED
      BY <2>1, <2>2
  <1>4. /\ AddQ(Lin(h, a, b), Lin(h, MulQ(zeta, c), MulQ(zeta, d)))
             = Lin(h, AddQ(a, MulQ(zeta, c)), AddQ(b, MulQ(zeta, d)))
        /\ SubQ(Lin(h, a, b), Lin(h, MulQ(zeta, c), MulQ(zeta, d)))
             = Lin(h, SubQ(a, MulQ(zeta, c)), SubQ(b, MulQ(zeta, d)))
    BY <1>3, LinLaws
  <1> QED
    BY <1>1, <1>3, <1>4, ButterflyIs

\* Those of the inverse, and the scaling that ends it.
LEMMA BackwardLinear ==
  ASSUME NEW h \in Residues, NEW zeta \in Residues, NEW a \in Residues, NEW b \in Residues,
         NEW c \in Residues, NEW d \in Residues
  PROVE  /\ Transforming!Sum(Lin(h, a, b), Lin(h, c, d))
              = Lin(h, Transforming!Sum(a, c), Transforming!Sum(b, d))
         /\ Transforming!ml_kem_multipl_mod(zeta, Transforming!InverseDiff(Lin(h, a, b), Lin(h, c, d)))
              = Lin(h, Transforming!ml_kem_multipl_mod(zeta, Transforming!InverseDiff(a, c)), Transforming!ml_kem_multipl_mod(zeta, Transforming!InverseDiff(b, d)))
         /\ Transforming!ml_kem_multipl_mod(Lin(h, a, b), 3303) = Lin(h, Transforming!ml_kem_multipl_mod(a, 3303), Transforming!ml_kem_multipl_mod(b, 3303))
  <1>1. Lin(h, a, b) \in Residues /\ Lin(h, c, d) \in Residues
    BY LinLaws
  <1>3. /\ MulQ(zeta, a) \in Residues /\ MulQ(zeta, b) \in Residues
        /\ MulQ(zeta, c) \in Residues /\ MulQ(zeta, d) \in Residues
        /\ SubQ(c, a) \in Residues /\ SubQ(d, b) \in Residues
        /\ MulQ(zeta, Lin(h, c, d)) = Lin(h, MulQ(zeta, c), MulQ(zeta, d))
    <2>1. /\ MulQ(zeta, a) \in Residues /\ MulQ(zeta, b) \in Residues
          /\ MulQ(zeta, c) \in Residues /\ MulQ(zeta, d) \in Residues
          /\ SubQ(c, a) \in Residues /\ SubQ(d, b) \in Residues
      BY ClosedQ
    <2>2. \A lo \in Residues, hi \in Residues, w \in Residues :
            MulQ(w, Lin(h, lo, hi)) = Lin(h, MulQ(w, lo), MulQ(w, hi))
      BY LinLaws
    <2> QED
      BY <2>1, <2>2
  <1>5. AddQ(Lin(h, a, b), Lin(h, c, d)) = Lin(h, AddQ(a, c), AddQ(b, d))
    BY LinLaws
  <1>6. MulQ(zeta, SubQ(Lin(h, c, d), Lin(h, a, b)))
          = Lin(h, MulQ(zeta, SubQ(c, a)), MulQ(zeta, SubQ(d, b)))
    <2>1. SubQ(Lin(h, c, d), Lin(h, a, b)) = Lin(h, SubQ(c, a), SubQ(d, b))
      BY LinLaws
    <2>2. MulQ(zeta, Lin(h, SubQ(c, a), SubQ(d, b))) = Lin(h, MulQ(zeta, SubQ(c, a)), MulQ(zeta, SubQ(d, b)))
      BY <1>3, LinLaws
    <2> QED
      BY <2>1, <2>2
  <1>9. MulQ(Lin(h, a, b), 3303) = Lin(h, MulQ(a, 3303), MulQ(b, 3303))
    BY Few, LinLaws
  <1> QED
    BY <1>1, <1>5, <1>6, <1>9, ButterflyIs

\* The multiplication is the same with its factors exchanged, so that what is
\* linear in the one is linear in the other (ml_kem_multiply of
\* ml_kem_ntt_main.c).
THEOREM FactorsExchange ==
  ASSUME NEW a \in Residues, NEW c \in Residues, NEW x0 \in Residues, NEW x1 \in Residues,
         NEW zeta \in Residues
  PROVE  /\ Transforming!Even(a, c, x0, x1, zeta) = Transforming!Even(x0, x1, a, c, zeta)
         /\ Transforming!Odd(a, c, x0, x1, zeta) = Transforming!Odd(x0, x1, a, c, zeta)
  <1>8. /\ Transforming!Even(a, c, x0, x1, zeta) = Transforming!Even(x0, x1, a, c, zeta)
        /\ Transforming!Odd(a, c, x0, x1, zeta) = Transforming!Odd(x0, x1, a, c, zeta)
    <2>1. /\ Transforming!Even(a, c, x0, x1, zeta) = AddQ(MulQ(a, x0), MulQ(MulQ(c, x1), zeta))
          /\ Transforming!Odd(a, c, x0, x1, zeta) = AddQ(MulQ(a, x1), MulQ(c, x0))
          /\ Transforming!Even(x0, x1, a, c, zeta) = AddQ(MulQ(x0, a), MulQ(MulQ(x1, c), zeta))
          /\ Transforming!Odd(x0, x1, a, c, zeta) = AddQ(MulQ(x0, c), MulQ(x1, a))
      BY IterationIs
    <2>2. /\ MulQ(a, x0) = MulQ(x0, a) /\ MulQ(c, x1) = MulQ(x1, c)
          /\ MulQ(a, x1) = MulQ(x1, a) /\ MulQ(c, x0) = MulQ(x0, c)
      BY MulLaws
    <2>3. AddQ(MulQ(x1, a), MulQ(x0, c)) = AddQ(MulQ(x0, c), MulQ(x1, a))
      <3>1. PICK p0 \in Int, p1 \in Int : p0 = MulQ(x1, a) /\ p1 = MulQ(x0, c)
        <4>1. MulQ(x1, a) \in Residues /\ MulQ(x0, c) \in Residues
          BY ClosedQ
        <4>2. \A p \in Residues : p \in Int
          BY DEF Residues, ML_KEM_Q
        <4> QED
          BY <4>1, <4>2
      <3>2. p0 + p1 = p1 + p0
        OBVIOUS
      <3> QED
        BY <3>1, <3>2 DEF AddQ
    <2> QED
      BY <2>1, <2>2, <2>3
  <1> QED
    BY <1>8

-----------------------------------------------------------------------------
(* The number theoretic transform: its steps are linear *)

\* Two buffers combined, coefficient by coefficient.
Combined(h, g0, g1) == [c \in Cells |-> Lin(h, g0[c], g1[c])]

\* The buffer a step leaves when it finds g in the place of f.
Placed(g, wing) ==
  [c \in Cells |-> IF start <= c /\ c < start + len THEN wing[c][1]
                   ELSE IF start + len <= c /\ c < start + 2 * len THEN wing[c - len][2]
                   ELSE g[c]]

ForwardWings(g) ==
  LET t0(j) == Transforming!ml_kem_multipl_mod(Transforming!ml_kem_zetas(i), g[j + len])
  IN  [j \in Transforming!Wings |-> <<Transforming!Sum(g[j], t0(j)), Transforming!Diff(g[j], t0(j))>>]

BackwardWings(g) ==
  [j \in Transforming!Wings |->
     <<Transforming!Sum(g[j], g[j + len]),
       Transforming!ml_kem_multipl_mod(Transforming!ml_kem_zetas(i),
                                       Transforming!InverseDiff(g[j], g[j + len]))>>]

Factor(c) == Transforming!Transformed[n][c]

ProductOf(g) ==
  LET p(c) == c - (c % 2)
      zeta(c) == Transforming!ml_kem_gammas(c \div 2)
  IN  [c \in Cells |->
         IF c \div 2 \notin i .. i + 7 THEN g[c]
         ELSE IF c % 2 = 0
           THEN Transforming!Even(g[p(c)], g[p(c) + 1], Factor(p(c)), Factor(p(c) + 1), zeta(c))
           ELSE Transforming!Odd(g[p(c)], g[p(c) + 1], Factor(p(c)), Factor(p(c) + 1), zeta(c))]

ScaleOf(g) == [c \in Cells |-> Transforming!ml_kem_multipl_mod(g[c], 3303)]

After(g) ==
  CASE pc = "ntt" -> Placed(g, ForwardWings(g))
    [] pc = "multiply" -> ProductOf(g)
    [] pc = "intt" -> Placed(g, BackwardWings(g))
    [] OTHER -> ScaleOf(g)

LEMMA BlockPlaces ==
  ASSUME NttInv, NEW wing
  PROVE  Transforming!Block(wing) = Placed(f, wing)
  <1>1. ASSUME NEW c \in Cells
        PROVE  Transforming!Block(wing)[c] = Placed(f, wing)[c]
    <2>1. Placed(f, wing)[c] = IF start <= c /\ c < start + len THEN wing[c][1]
                               ELSE IF start + len <= c /\ c < start + 2 * len THEN wing[c - len][2]
                               ELSE f[c]
      BY DEF Placed
    <2>2. \/ start <= c /\ c < start + len
          \/ ~(start <= c /\ c < start + len) /\ start + len <= c /\ c < start + 2 * len
          \/ /\ ~(start <= c /\ c < start + len) /\ ~(start + len <= c /\ c < start + 2 * len)
             /\ c < start \/ start + 2 * len <= c
      BY DEF NttInv, Lens, Cells
    <2> QED
      BY <2>1, <2>2, BlockIs
  <1>2. Transforming!Block(wing) = [c \in Cells |-> Transforming!Block(wing)[c]]
    BY DEF Transforming!Block, Transforming!Cells, Cells, Transforming!ML_KEM_N
  <1>3. Placed(f, wing) = [c \in Cells |-> Placed(f, wing)[c]]
    BY DEF Placed
  <1> HIDE DEF Placed
  <1> QED
    BY <1>1, <1>2, <1>3

LEMMA StepIsAfter ==
  ASSUME NttInv, Transforming!Next
  PROVE  f' = After(f)
  <1>1. CASE Transforming!ml_kem_ntt_fips203
    <2>1. pc = "ntt" /\ f' = Transforming!Block(ForwardWings(f))
      BY <1>1 DEF Transforming!ml_kem_ntt_fips203, ForwardWings
    <2> QED
      BY <2>1, BlockPlaces DEF After
  <1>2. CASE Transforming!ml_kem_multiply
    <2>1. pc = "multiply" /\ f' = ProductOf(f)
      BY <1>2 DEF Transforming!ml_kem_multiply, ProductOf, Factor, Transforming!Cells, Cells,
                  Transforming!ML_KEM_N
    <2> QED
      BY <2>1 DEF After
  <1>3. CASE Transforming!ml_kem_intt_fips203
    <2>1. pc = "intt" /\ f' = Transforming!Block(BackwardWings(f))
      BY <1>3 DEF Transforming!ml_kem_intt_fips203, BackwardWings
    <2> QED
      BY <2>1, BlockPlaces DEF After
  <1>4. CASE Transforming!Scale
    <2>1. pc = "scale" /\ f' = ScaleOf(f)
      BY <1>4 DEF Transforming!Scale, ScaleOf, Transforming!Cells, Cells, Transforming!ML_KEM_N,
                  Transforming!ML_KEM_COEFF_NORMALIZATION
    <2> QED
      BY <2>1 DEF After
  <1> QED
    BY <1>1, <1>2, <1>3, <1>4 DEF Transforming!Next

\* What is placed is linear if the two results of every butterfly are.
LEMMA PlacedLinear ==
  ASSUME NttInv, NEW h, NEW g0, NEW g1, NEW whole, NEW wing0, NEW wing1,
         \A j \in Transforming!Wings : /\ whole[j][1] = Lin(h, wing0[j][1], wing1[j][1])
                                       /\ whole[j][2] = Lin(h, wing0[j][2], wing1[j][2])
  PROVE  Placed(Combined(h, g0, g1), whole) = Combined(h, Placed(g0, wing0), Placed(g1, wing1))
  <1> DEFINE first(c) == start <= c /\ c < start + len
             second(c) == start + len <= c /\ c < start + 2 * len
             value(g, wing, c) == IF first(c) THEN wing[c][1]
                                  ELSE IF second(c) THEN wing[c - len][2] ELSE g[c]
  <1>1. ASSUME NEW c \in Cells
        PROVE  value(Combined(h, g0, g1), whole, c) = Lin(h, value(g0, wing0, c), value(g1, wing1, c))
    <2>1. Combined(h, g0, g1)[c] = Lin(h, g0[c], g1[c])
      BY DEF Combined
    <2>2. /\ first(c) => c \in Transforming!Wings
          /\ second(c) => c - len \in Transforming!Wings
      <3>1. len \in 2 .. 128 /\ start \in 0 .. 255 /\ c \in 0 .. 255
        BY DEF NttInv, Lens, Cells
      <3> QED
        BY <3>1 DEF Transforming!Wings
    <2>3. CASE first(c)
      BY <2>2, <2>3
    <2>4. CASE ~first(c) /\ second(c)
      BY <2>2, <2>4
    <2>5. CASE ~first(c) /\ ~second(c)
      BY <2>1, <2>5
    <2> QED
      BY <2>3, <2>4, <2>5
  <1>2. \A g, wing : Placed(g, wing) = [c \in Cells |-> value(g, wing, c)]
    BY DEF Placed
  <1> HIDE DEF value
  <1>3. Placed(Combined(h, g0, g1), whole) = [c \in Cells |-> value(Combined(h, g0, g1), whole, c)]
    BY <1>2
  <1>4. Combined(h, Placed(g0, wing0), Placed(g1, wing1))
          = [c \in Cells |-> Lin(h, value(g0, wing0, c), value(g1, wing1, c))]
    BY <1>2 DEF Combined
  <1> QED
    BY <1>1, <1>3, <1>4

LEMMA IndexInTable ==
  ASSUME NttInv, pc \in {"ntt", "intt"}
  PROVE  i \in 1 .. 127
  <1>1. len \in Lens /\ start \in Cells /\ start % (2 * len) = 0 /\ start + 2 * len <= 256
    BY DEF NttInv
  <1>2. CASE pc = "ntt"
    BY <1>1, <1>2, ForwardTwiddle DEF NttInv
  <1>3. CASE pc = "intt"
    BY <1>1, <1>3, BackwardTwiddle DEF NttInv
  <1> QED
    BY <1>2, <1>3

LEMMA IterationOf ==
  ASSUME NEW x0 \in Residues, NEW x1 \in Residues, NEW zeta \in Residues
  PROVE  \A lo \in Residues, hi \in Residues :
           /\ Transforming!Even(lo, hi, x0, x1, zeta) = AddQ(MulQ(lo, x0), MulQ(MulQ(hi, x1), zeta))
           /\ Transforming!Odd(lo, hi, x0, x1, zeta) = AddQ(MulQ(lo, x1), MulQ(hi, x0))
  BY IterationIs

\* The wings, the product and the scaling of combined buffers.
LEMMA StepLinear ==
  ASSUME NttInv, pc # "done", NEW h \in Residues, NEW g0 \in [Cells -> Residues],
         NEW g1 \in [Cells -> Residues]
  PROVE  After(Combined(h, g0, g1)) = Combined(h, After(g0), After(g1))
  <1> DEFINE g == Combined(h, g0, g1)
  <1>1. ASSUME NEW c \in Cells
        PROVE  g[c] = Lin(h, g0[c], g1[c]) /\ g0[c] \in Residues /\ g1[c] \in Residues
    BY DEF Combined
  <1>2. ASSUME NEW j \in Transforming!Wings
        PROVE  j \in Cells /\ j + len \in Cells
    BY DEF NttInv, Lens, Cells, Transforming!Wings
  <1> HIDE DEF g
  <1>3. CASE pc = "ntt"
    <2>1. Transforming!ml_kem_zetas(i) \in Residues
      <3>1. i \in 1 .. 127
        BY <1>3, IndexInTable
      <3> QED
        BY <3>1, ZetasReduced
    <2>2. ASSUME NEW j \in Transforming!Wings
          PROVE  /\ ForwardWings(g)[j][1] = Lin(h, ForwardWings(g0)[j][1], ForwardWings(g1)[j][1])
                 /\ ForwardWings(g)[j][2] = Lin(h, ForwardWings(g0)[j][2], ForwardWings(g1)[j][2])
      <3> DEFINE t0(x) == Transforming!ml_kem_multipl_mod(Transforming!ml_kem_zetas(i), x[j + len])
      <3>1. \A x : /\ ForwardWings(x)[j][1] = Transforming!Sum(x[j], t0(x))
                   /\ ForwardWings(x)[j][2] = Transforming!Diff(x[j], t0(x))
        BY DEF ForwardWings
      <3>2. /\ g[j] = Lin(h, g0[j], g1[j]) /\ g[j + len] = Lin(h, g0[j + len], g1[j + len])
            /\ g0[j] \in Residues /\ g1[j] \in Residues
            /\ g0[j + len] \in Residues /\ g1[j + len] \in Residues
        BY <1>1, <1>2
      <3>3. PICK zeta \in Residues, a \in Residues, b \in Residues, c \in Residues, d \in Residues :
              /\ zeta = Transforming!ml_kem_zetas(i) /\ a = g0[j] /\ b = g1[j]
              /\ c = g0[j + len] /\ d = g1[j + len]
        BY <2>1, <3>2
      <3>4. g[j] = Lin(h, a, b) /\ g[j + len] = Lin(h, c, d)
        BY <3>2, <3>3
      <3>5. /\ ForwardWings(g)[j][1] = Transforming!Sum(Lin(h, a, b), Transforming!ml_kem_multipl_mod(zeta, Lin(h, c, d)))
            /\ ForwardWings(g)[j][2] = Transforming!Diff(Lin(h, a, b), Transforming!ml_kem_multipl_mod(zeta, Lin(h, c, d)))
            /\ ForwardWings(g0)[j][1] = Transforming!Sum(a, Transforming!ml_kem_multipl_mod(zeta, c))
            /\ ForwardWings(g0)[j][2] = Transforming!Diff(a, Transforming!ml_kem_multipl_mod(zeta, c))
            /\ ForwardWings(g1)[j][1] = Transforming!Sum(b, Transforming!ml_kem_multipl_mod(zeta, d))
            /\ ForwardWings(g1)[j][2] = Transforming!Diff(b, Transforming!ml_kem_multipl_mod(zeta, d))
        BY <3>1, <3>3, <3>4
      <3> QED
        BY <3>5, ForwardLinear
    <2>3. \A x : After(x) = Placed(x, ForwardWings(x))
      BY <1>3 DEF After
    <2> QED
      BY <2>2, <2>3, PlacedLinear DEF g
  <1>4. CASE pc = "intt"
    <2>1. Transforming!ml_kem_zetas(i) \in Residues
      <3>1. i \in 1 .. 127
        BY <1>4, IndexInTable
      <3> QED
        BY <3>1, ZetasReduced
    <2>2. ASSUME NEW j \in Transforming!Wings
          PROVE  /\ BackwardWings(g)[j][1] = Lin(h, BackwardWings(g0)[j][1], BackwardWings(g1)[j][1])
                 /\ BackwardWings(g)[j][2] = Lin(h, BackwardWings(g0)[j][2], BackwardWings(g1)[j][2])
      <3> DEFINE d0(x) == Transforming!ml_kem_multipl_mod(Transforming!ml_kem_zetas(i),
                                                          Transforming!InverseDiff(x[j], x[j + len]))
      <3>1. \A x : /\ BackwardWings(x)[j][1] = Transforming!Sum(x[j], x[j + len])
                   /\ BackwardWings(x)[j][2] = d0(x)
        BY DEF BackwardWings
      <3>2. /\ g[j] = Lin(h, g0[j], g1[j]) /\ g[j + len] = Lin(h, g0[j + len], g1[j + len])
            /\ g0[j] \in Residues /\ g1[j] \in Residues
            /\ g0[j + len] \in Residues /\ g1[j + len] \in Residues
        BY <1>1, <1>2
      <3>3. PICK zeta \in Residues, a \in Residues, b \in Residues, c \in Residues, d \in Residues :
              /\ zeta = Transforming!ml_kem_zetas(i) /\ a = g0[j] /\ b = g1[j]
              /\ c = g0[j + len] /\ d = g1[j + len]
        BY <2>1, <3>2
      <3>4. g[j] = Lin(h, a, b) /\ g[j + len] = Lin(h, c, d)
        BY <3>2, <3>3
      <3>5. /\ BackwardWings(g)[j][1] = Transforming!Sum(Lin(h, a, b), Lin(h, c, d))
            /\ BackwardWings(g)[j][2] = Transforming!ml_kem_multipl_mod(zeta, Transforming!InverseDiff(Lin(h, a, b), Lin(h, c, d)))
            /\ BackwardWings(g0)[j][1] = Transforming!Sum(a, c)
            /\ BackwardWings(g0)[j][2] = Transforming!ml_kem_multipl_mod(zeta, Transforming!InverseDiff(a, c))
            /\ BackwardWings(g1)[j][1] = Transforming!Sum(b, d)
            /\ BackwardWings(g1)[j][2] = Transforming!ml_kem_multipl_mod(zeta, Transforming!InverseDiff(b, d))
        BY <3>1, <3>3, <3>4
      <3> QED
        BY <3>5, BackwardLinear
    <2>3. \A x : After(x) = Placed(x, BackwardWings(x))
      BY <1>4 DEF After
    <2> QED
      BY <2>2, <2>3, PlacedLinear DEF g
  <1>5. CASE pc = "multiply"
    <2> DEFINE p(c) == c - (c % 2)
               zeta(c) == Transforming!ml_kem_gammas(c \div 2)
               even(x, c) == Transforming!Even(x[p(c)], x[p(c) + 1], Factor(p(c)), Factor(p(c) + 1), zeta(c))
               odd(x, c) == Transforming!Odd(x[p(c)], x[p(c) + 1], Factor(p(c)), Factor(p(c) + 1), zeta(c))
               value(x, c) == IF c \div 2 \notin i .. i + 7 THEN x[c]
                              ELSE IF c % 2 = 0 THEN even(x, c) ELSE odd(x, c)
    <2>1. \A x : After(x) = [c \in Cells |-> value(x, c)]
      BY <1>5 DEF After, ProductOf
    <2>2. ASSUME NEW c \in Cells
          PROVE  /\ even(g, c) = Lin(h, even(g0, c), even(g1, c))
                 /\ odd(g, c) = Lin(h, odd(g0, c), odd(g1, c))
      <3>1. p(c) \in Cells /\ p(c) + 1 \in Cells /\ c \div 2 \in 0 .. 127
        BY DEF Cells
      <3>2. n \in Cells
        BY DEF NttInv
      <3>3. Factor(p(c)) \in Residues /\ Factor(p(c) + 1) \in Residues /\ zeta(c) \in Residues
        BY <3>1, <3>2, TransformReduced, GammasReduced DEF Factor
      <3>4. /\ g[p(c)] = Lin(h, g0[p(c)], g1[p(c)]) /\ g[p(c) + 1] = Lin(h, g0[p(c) + 1], g1[p(c) + 1])
            /\ g0[p(c)] \in Residues /\ g1[p(c)] \in Residues
            /\ g0[p(c) + 1] \in Residues /\ g1[p(c) + 1] \in Residues
        BY <1>1, <3>1
      <3> HIDE DEF p, zeta
      <3>5. PICK w \in Residues, x0 \in Residues, x1 \in Residues, a \in Residues, b \in Residues,
                 e \in Residues, d \in Residues :
              /\ w = zeta(c) /\ x0 = Factor(p(c)) /\ x1 = Factor(p(c) + 1) /\ a = g0[p(c)]
              /\ b = g1[p(c)] /\ e = g0[p(c) + 1] /\ d = g1[p(c) + 1]
        BY <3>3, <3>4
      <3>6. g[p(c)] = Lin(h, a, b) /\ g[p(c) + 1] = Lin(h, e, d)
        BY <3>4, <3>5
      <3>7. /\ even(g, c) = Transforming!Even(Lin(h, a, b), Lin(h, e, d), x0, x1, w)
            /\ even(g0, c) = Transforming!Even(a, e, x0, x1, w)
            /\ even(g1, c) = Transforming!Even(b, d, x0, x1, w)
            /\ odd(g, c) = Transforming!Odd(Lin(h, a, b), Lin(h, e, d), x0, x1, w)
            /\ odd(g0, c) = Transforming!Odd(a, e, x0, x1, w)
            /\ odd(g1, c) = Transforming!Odd(b, d, x0, x1, w)
        BY <3>5, <3>6
      <3>8. /\ Transforming!Even(Lin(h, a, b), Lin(h, e, d), x0, x1, w)
                 = Lin(h, Transforming!Even(a, e, x0, x1, w), Transforming!Even(b, d, x0, x1, w))
            /\ Transforming!Odd(Lin(h, a, b), Lin(h, e, d), x0, x1, w)
                 = Lin(h, Transforming!Odd(a, e, x0, x1, w), Transforming!Odd(b, d, x0, x1, w))
        <4>0. Lin(h, a, b) \in Residues /\ Lin(h, e, d) \in Residues
          BY LinLaws
        <4>1. \A lo \in Residues, hi \in Residues :
                /\ Transforming!Even(lo, hi, x0, x1, w) = AddQ(MulQ(lo, x0), MulQ(MulQ(hi, x1), w))
                /\ Transforming!Odd(lo, hi, x0, x1, w) = AddQ(MulQ(lo, x1), MulQ(hi, x0))
          BY IterationOf
        <4>2. /\ MulQ(a, x0) \in Residues /\ MulQ(b, x0) \in Residues /\ MulQ(e, x1) \in Residues
              /\ MulQ(d, x1) \in Residues /\ MulQ(a, x1) \in Residues /\ MulQ(b, x1) \in Residues
              /\ MulQ(e, x0) \in Residues /\ MulQ(d, x0) \in Residues
          BY ClosedQ
        <4>3. MulQ(MulQ(e, x1), w) \in Residues /\ MulQ(MulQ(d, x1), w) \in Residues
          BY <4>2, ClosedQ
        <4>4. /\ MulQ(Lin(h, a, b), x0) = Lin(h, MulQ(a, x0), MulQ(b, x0))
              /\ MulQ(Lin(h, a, b), x1) = Lin(h, MulQ(a, x1), MulQ(b, x1))
              /\ MulQ(Lin(h, e, d), x0) = Lin(h, MulQ(e, x0), MulQ(d, x0))
              /\ MulQ(Lin(h, e, d), x1) = Lin(h, MulQ(e, x1), MulQ(d, x1))
          BY LinLaws
        <4>5. MulQ(Lin(h, MulQ(e, x1), MulQ(d, x1)), w) = Lin(h, MulQ(MulQ(e, x1), w), MulQ(MulQ(d, x1), w))
          BY <4>2, LinLaws
        <4>6. AddQ(Lin(h, MulQ(a, x0), MulQ(b, x0)), Lin(h, MulQ(MulQ(e, x1), w), MulQ(MulQ(d, x1), w)))
                = Lin(h, AddQ(MulQ(a, x0), MulQ(MulQ(e, x1), w)), AddQ(MulQ(b, x0), MulQ(MulQ(d, x1), w)))
          BY <4>2, <4>3, LinLaws
        <4>7. AddQ(Lin(h, MulQ(a, x1), MulQ(b, x1)), Lin(h, MulQ(e, x0), MulQ(d, x0)))
                = Lin(h, AddQ(MulQ(a, x1), MulQ(e, x0)), AddQ(MulQ(b, x1), MulQ(d, x0)))
          BY <4>2, LinLaws
        <4> QED
          BY <4>0, <4>1, <4>4, <4>5, <4>6, <4>7
      <3> HIDE DEF even, odd
      <3> QED
        BY <3>7, <3>8
    <2> HIDE DEF even, odd
    <2>3. ASSUME NEW c \in Cells
          PROVE  value(g, c) = Lin(h, value(g0, c), value(g1, c))
      BY <1>1, <2>2
    <2> HIDE DEF value
    <2>4. Combined(h, After(g0), After(g1)) = [c \in Cells |-> Lin(h, value(g0, c), value(g1, c))]
      BY <2>1 DEF Combined
    <2> QED
      BY <2>1, <2>3, <2>4 DEF g
  <1>6. CASE pc = "scale"
    <2> DEFINE value(x, c) == Transforming!ml_kem_multipl_mod(x[c], 3303)
    <2>1. \A x : After(x) = [c \in Cells |-> value(x, c)]
      BY <1>6 DEF After, ScaleOf
    <2>2. ASSUME NEW c \in Cells
          PROVE  value(g, c) = Lin(h, value(g0, c), value(g1, c))
      BY <1>1, OneReduced, BackwardLinear
    <2> HIDE DEF value
    <2>3. Combined(h, After(g0), After(g1)) = [c \in Cells |-> Lin(h, value(g0, c), value(g1, c))]
      BY <2>1 DEF Combined
    <2> QED
      BY <2>1, <2>2, <2>3 DEF g
  <1> QED
    BY <1>3, <1>4, <1>5, <1>6 DEF NttInv

\* Every step of the transform, of the multiplication by a given polynomial and
\* of the inverse makes of a combination of two buffers the combination of what it
\* makes of each, so that what the loops make of the monomials (ProductIsRight)
\* decides what they make of every polynomial (ml_kem_ntt_main.c).
THEOREM StepsAreLinear ==
  PrimitivesSpec =>
    [][part = "ntt" =>
         /\ f' = After(f)
         /\ \A h \in Residues, g0 \in [Cells -> Residues], g1 \in [Cells -> Residues] :
              After(Combined(h, g0, g1)) = Combined(h, After(g0), After(g1))]_nttVars
  <1> DEFINE Kept == part = "ntt" => NttInv
             Linear == \A h \in Residues, g0 \in [Cells -> Residues], g1 \in [Cells -> Residues] :
                         After(Combined(h, g0, g1)) = Combined(h, After(g0), After(g1))
             Steps == part = "ntt" => f' = After(f) /\ Linear
  <1>1. Kept /\ [PrimitivesNext]_primitiveVars => [Steps]_nttVars
    <2> SUFFICES ASSUME Kept, [PrimitivesNext]_primitiveVars, part = "ntt", nttVars' # nttVars
                 PROVE  f' = After(f) /\ Linear
      OBVIOUS
    <2>1. RunNtt(Transforming!Next)
      BY DEF PrimitivesNext, RunResidues, RunCbd, RunKeccak, RunScheme, primitiveVars, nttVars
    <2>2. NttInv /\ Transforming!Next
      BY <2>1 DEF RunNtt
    <2>3. pc # "done"
      BY <2>2 DEF Transforming!Next, Transforming!ml_kem_ntt_fips203, Transforming!ml_kem_multiply,
                  Transforming!ml_kem_intt_fips203, Transforming!Scale
    <2>4. f' = After(f)
      BY <2>2, StepIsAfter
    <2>5. Linear
      BY <2>2, <2>3, StepLinear
    <2> QED
      BY <2>4, <2>5
  <1>2. PrimitivesSpec => []Kept
    <2>1. PrimitivesInit => Kept
      BY NttStarts DEF PrimitivesInit
    <2>2. Kept /\ [PrimitivesNext]_primitiveVars => Kept'
      <3> SUFFICES ASSUME Kept, [PrimitivesNext]_primitiveVars, part' = "ntt"
                   PROVE  NttInv'
        OBVIOUS
      <3>1. CASE RunNtt(Transforming!Next)
        <4>1. NttInv /\ Transforming!Next
          BY <3>1 DEF RunNtt
        <4> QED
          BY <4>1, ForwardKeeps, MultiplyKeeps, BackwardKeeps, ScaleKeeps DEF Transforming!Next
      <3>2. CASE ~RunNtt(Transforming!Next)
        <4>1. part = "ntt" /\ UNCHANGED nttVars
          BY <3>2 DEF PrimitivesNext, primitiveVars, RunResidues, RunCbd, RunKeccak, RunScheme
        <4> QED
          BY <4>1 DEF nttVars, NttInv
      <3> QED
        BY <3>1, <3>2
    <2> HIDE DEF Kept
    <2> QED
      BY <2>1, <2>2, PTL DEF PrimitivesSpec
  <1> HIDE DEF Kept, Linear
  <1> QED
    BY <1>1, <1>2, PTL DEF PrimitivesSpec, Linear
=============================================================================
