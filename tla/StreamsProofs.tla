---------------------------- MODULE StreamsProofs ----------------------------
(***************************************************************************)
(* Proofs about Streams for every rate, every length of messages and       *)
(* outputs, of a polynomial, an XOF buffer and a seed: rejection sampling  *)
(* over buffer after buffer yields the stream's first candidates below q,  *)
(* a seed drawn in pieces is whole, and the sponge delivers the stream of  *)
(* its padded message whatever the pieces.                                 *)
(***************************************************************************)
EXTENDS Streams, TLAPS

-----------------------------------------------------------------------------
(* Sampling *)

\* The buffer is read in whole triples and a call asks for what is missing.
SamplerInv ==
  /\ Sampler!SamplesStream
  /\ \E t \in Nat : suma_bytes = 3 * t
  /\ sampling = "sample" => need_coeff = N - poly_counter

LEMMA Sizes == N \in Nat \ {0} /\ Triples \in Nat \ {0} /\ MaxRejects \in Nat
  BY StreamsAssumption

LEMMA SamplerStarts == Sampler!Init => SamplerInv
  <1> SUFFICES ASSUME Sampler!Init PROVE SamplerInv
    OBVIOUS
  <1> USE Sizes DEF Sampler!Init
  <1>1. Sampler!TypeOK
    BY DEF Sampler!TypeOK, Sampler!Unset, Sampler!Cells, Sampler!BufBytes
  <1>2. Sampler!Filled = 0 /\ Len(below_q) = 0
    BY DEF Sampler!Filled
  <1>3. Sampler!FirstAccepted /\ Sampler!NothingSkipped /\ Sampler!StaysInside
    BY <1>2 DEF Sampler!FirstAccepted, Sampler!NothingSkipped, Sampler!StaysInside
  <1>4. suma_bytes = 3 * 0
    OBVIOUS
  <1> QED
    BY <1>1, <1>3, <1>4 DEF SamplerInv, Sampler!SamplesStream

LEMMA SqueezeKeeps == SamplerInv /\ Sampler!Squeeze => SamplerInv'
  <1> SUFFICES ASSUME SamplerInv, Sampler!Squeeze PROVE SamplerInv'
    OBVIOUS
  <1> USE Sizes DEF SamplerInv, Sampler!SamplesStream, Sampler!Squeeze
  <1>0. /\ sampling = "squeeze" /\ sampling' = "sample"
        /\ poly_counter \in 0 .. N /\ need_coeff' = N - poly_counter
        /\ j' = 0 /\ pos' = 0 /\ suma_bytes' = 3 * Triples
    BY DEF Sampler!TypeOK, Sampler!Missing, Sampler!BufBytes
  <1>1. Sampler!TypeOK'
    BY <1>0 DEF Sampler!TypeOK, Sampler!BufBytes
  <1>2. Sampler!Filled' = Sampler!Filled /\ Sampler!Filled = poly_counter
    BY <1>0 DEF Sampler!Filled
  <1>3. Sampler!FirstAccepted' /\ Sampler!NothingSkipped'
    BY <1>0, <1>2 DEF Sampler!FirstAccepted, Sampler!NothingSkipped
  <1>4. Sampler!StaysInside'
    BY <1>0, <1>2 DEF Sampler!StaysInside, Sampler!BufBytes
  <1> QED
    BY <1>0, <1>1, <1>3, <1>4

LEMMA ReturnKeeps == SamplerInv /\ Sampler!Return => SamplerInv'
  <1> SUFFICES ASSUME SamplerInv, Sampler!Return PROVE SamplerInv'
    OBVIOUS
  <1> USE Sizes DEF SamplerInv, Sampler!SamplesStream
  <1>0. /\ sampling = "sample" /\ poly_counter \in 0 .. N /\ need_coeff = N - poly_counter
        /\ j \in 0 .. need_coeff
        /\ ~ (j < need_coeff /\ suma_bytes >= 3)
        /\ ret' = j /\ poly_counter' = poly_counter + j
        /\ sampling' = IF poly_counter' >= N THEN "done" ELSE "squeeze"
        /\ UNCHANGED <<taken, poly, j, pos, suma_bytes, need_coeff, below_q, rejects>>
    BY DEF Sampler!TypeOK, Sampler!Return, Sampler!BytesLeft
  <1>1. Sampler!TypeOK'
    BY <1>0 DEF Sampler!TypeOK
  <1>2. Sampler!Filled' = Sampler!Filled /\ Sampler!Filled = poly_counter + j
    BY <1>0 DEF Sampler!Filled
  <1>3. Sampler!FirstAccepted'
    BY <1>0, <1>2 DEF Sampler!FirstAccepted
  <1>4. Sampler!NothingSkipped'
    <2>1. PICK t \in Nat : suma_bytes = 3 * t
      OBVIOUS
    <2>2. sampling' = "squeeze" => suma_bytes' = 0
      BY <1>0, <2>1
    <2> QED
      BY <1>0, <1>2, <2>2 DEF Sampler!NothingSkipped
  <1>5. Sampler!StaysInside'
    BY <1>0, <1>2 DEF Sampler!StaysInside
  <1> QED
    BY <1>0, <1>1, <1>3, <1>4, <1>5

LEMMA NextPolynomialKeeps == SamplerInv /\ Sampler!NextPolynomial => SamplerInv'
  <1> SUFFICES ASSUME SamplerInv, Sampler!NextPolynomial PROVE SamplerInv'
    OBVIOUS
  <1> USE Sizes DEF SamplerInv, Sampler!SamplesStream, Sampler!NextPolynomial
  <1>1. Sampler!TypeOK'
    BY DEF Sampler!TypeOK, Sampler!Unset, Sampler!Cells, Sampler!BufBytes
  <1>2. Sampler!Filled' = 0 /\ Len(below_q)' = 0
    BY DEF Sampler!Filled
  <1>3. Sampler!FirstAccepted' /\ Sampler!NothingSkipped' /\ Sampler!StaysInside'
    BY <1>2 DEF Sampler!FirstAccepted, Sampler!NothingSkipped, Sampler!StaysInside
  <1>4. suma_bytes' = 3 * 0
    OBVIOUS
  <1> QED
    BY <1>1, <1>3, <1>4

\* p holds the f candidates of q, and nothing behind them.
Agree(p, q, f) ==
  /\ f \in 0 .. N
  /\ p \in [Sampler!Cells -> Nat]
  /\ q \in Seq(Nat) /\ Len(q) = f
  /\ \A m \in 0 .. f - 1 : p[m] = q[m + 1]
  /\ \A c \in Sampler!Cells : c >= f => p[c] = Sampler!Unset

LEMMA PutOne ==
  ASSUME NEW p, NEW q, NEW f, Agree(p, q, f), f < N, NEW v \in Nat
  PROVE  Agree([p EXCEPT ![f] = v], Append(q, v), f + 1)
  <1> DEFINE p1 == [p EXCEPT ![f] = v]
             q1 == Append(q, v)
  <1> USE Sizes DEF Agree, Sampler!Cells
  <1>1. f + 1 \in 0 .. N /\ f \in 0 .. N + 1
    OBVIOUS
  <1>2. p1 \in [Sampler!Cells -> Nat]
    BY <1>1
  <1>3. /\ q1 \in Seq(Nat) /\ Len(q1) = f + 1
        /\ q1[f + 1] = v
        /\ \A m \in 1 .. f : q1[m] = q[m]
    BY <1>1
  <1>4. \A m \in 0 .. f : p1[m] = q1[m + 1]
    <2>1. ASSUME NEW m \in 0 .. f PROVE p1[m] = q1[m + 1]
      <3>1. CASE m = f
        BY <1>1, <1>3, <3>1
      <3>2. CASE m # f
        <4>1. m \in 0 .. f - 1 /\ m + 1 \in 1 .. f
          BY <3>2, <1>1
        <4>2. p1[m] = p[m]
          BY <3>2, <1>1, <4>1
        <4> QED
          BY <1>3, <4>1, <4>2
      <3> QED
        BY <3>1, <3>2
    <2> QED
      BY <2>1
  <1>5. \A c \in Sampler!Cells : c >= f + 1 => p1[c] = Sampler!Unset
    BY <1>1
  <1> QED
    BY <1>1, <1>2, <1>3, <1>4, <1>5

LEMMA SampleKeeps ==
  ASSUME SamplerInv, NEW ok1 \in BOOLEAN, NEW ok2 \in BOOLEAN, Sampler!Sample(ok1, ok2)
  PROVE  SamplerInv'
  <1> DEFINE f == poly_counter + j
             d1 == taken + 1
             d2 == taken + 2
  <1>1. /\ sampling = "sample" /\ sampling' = sampling
        /\ j < need_coeff /\ suma_bytes >= 3
        /\ pos' = pos + 3 /\ suma_bytes' = suma_bytes - 3 /\ taken' = taken + 2
        /\ rejects' \in 0 .. MaxRejects
        /\ UNCHANGED <<poly_counter, need_coeff, ret>>
    <2>1. rejects \in 0 .. MaxRejects
      BY DEF SamplerInv, Sampler!SamplesStream, Sampler!TypeOK
    <2> QED
      BY <2>1, Sizes DEF Sampler!Sample, Sampler!BytesLeft
  <1>2. /\ poly_counter \in 0 .. N /\ need_coeff \in 0 .. N /\ j \in 0 .. need_coeff
        /\ need_coeff = N - poly_counter
        /\ taken \in Nat /\ d1 \in Nat /\ d2 \in Nat /\ f \in 0 .. N - 1
        /\ suma_bytes \in 0 .. 3 * Triples /\ pos \in 0 .. 3 * Triples
        /\ pos + suma_bytes = 3 * Triples
        /\ ret \in 0 .. N
    BY <1>1, Sizes
    DEF SamplerInv, Sampler!SamplesStream, Sampler!TypeOK, Sampler!StaysInside, Sampler!BufBytes
  <1>3. Agree(poly, below_q, f)
    <2>1. Sampler!Filled = f
      BY <1>1 DEF Sampler!Filled
    <2> QED
      BY <1>2, <2>1, Sizes
      DEF Agree, SamplerInv, Sampler!SamplesStream, Sampler!TypeOK, Sampler!FirstAccepted,
          Sampler!NothingSkipped, Sampler!StaysInside
  <1>a. /\ f = poly_counter + j /\ f \in Nat /\ f < N /\ d1 \in Nat /\ d2 \in Nat
        /\ poly_counter + (j + 1) = f + 1
        /\ j + 1 < need_coeff => f + 1 < N
        /\ ~ (j + 1 < need_coeff) => f + 1 = N
        /\ j + 1 \in 0 .. need_coeff
        /\ j + 1 < need_coeff => j + 1 + 1 \in 0 .. need_coeff
    BY <1>1, <1>2, Sizes
  <1> HIDE DEF f, d1, d2
  <1>4. \* After the step the polynomial is that of the accepted candidates; the
        \* last of them may have come when the polynomial was full.
        \E q, x : /\ Agree(poly', q, poly_counter + j') /\ j' \in 0 .. need_coeff
                  /\ \/ below_q' = q
                     \/ below_q' = Append(q, x) /\ x \in Nat /\ poly_counter + j' = N
    <2>1. CASE ok1 /\ ok2 /\ j + 1 < need_coeff
      <3> DEFINE p1 == [poly EXCEPT ![f] = d1]
                 q1 == Append(below_q, d1)
      <3>1. Agree(p1, q1, f + 1) /\ f + 1 < N
        BY <1>a, <1>3, <2>1, PutOne
      <3>2. Agree([p1 EXCEPT ![f + 1] = d2], Append(q1, d2), f + 1 + 1)
        BY <1>a, <3>1, PutOne
      <3>3. /\ poly' = [p1 EXCEPT ![f + 1] = d2] /\ below_q' = Append(q1, d2)
            /\ j' = j + 1 + 1
        BY <1>a, <2>1 DEF Sampler!Sample, Sampler!SecondNeeded, Sampler!Target,
                      Sampler!Candidate, Sampler!Keep, d1, d2
      <3>4. poly_counter + j' = f + 1 + 1 /\ j' \in 0 .. need_coeff
        BY <1>2, <1>a, <2>1, <3>3
      <3> QED
        BY <3>2, <3>3, <3>4
    <2>2. CASE ok1 /\ ~ (ok2 /\ j + 1 < need_coeff)
      <3>1. Agree([poly EXCEPT ![f] = d1], Append(below_q, d1), f + 1)
        BY <1>a, <1>3, PutOne
      <3>2. /\ poly' = [poly EXCEPT ![f] = d1] /\ j' = j + 1
            /\ below_q' = IF ok2 THEN Append(Append(below_q, d1), d2) ELSE Append(below_q, d1)
        BY <1>a, <2>2 DEF Sampler!Sample, Sampler!SecondNeeded, Sampler!Target,
                      Sampler!Candidate, Sampler!Keep, d1, d2
      <3>3. poly_counter + j' = f + 1 /\ j' \in 0 .. need_coeff /\ (ok2 => f + 1 = N)
        BY <1>a, <2>2, <3>2
      <3> QED
        BY <1>a, <3>1, <3>2, <3>3
    <2>3. CASE ~ok1 /\ ok2
      <3>1. Agree([poly EXCEPT ![f] = d2], Append(below_q, d2), f + 1)
        BY <1>a, <1>3, PutOne
      <3>2. /\ poly' = [poly EXCEPT ![f] = d2] /\ j' = j + 1 /\ below_q' = Append(below_q, d2)
        BY <1>1, <1>a, <2>3 DEF Sampler!Sample, Sampler!SecondNeeded, Sampler!Target,
                      Sampler!Candidate, Sampler!Keep, d1, d2
      <3>3. poly_counter + j' = f + 1 /\ j' \in 0 .. need_coeff
        BY <1>a, <3>2
      <3> QED
        BY <3>1, <3>2, <3>3
    <2>4. CASE ~ok1 /\ ~ok2
      <3>1. poly' = poly /\ j' = j /\ below_q' = below_q
        BY <2>4 DEF Sampler!Sample, Sampler!Keep
      <3> QED
        BY <1>a, <1>2, <1>3, <3>1
    <2> QED
      BY <2>1, <2>2, <2>3, <2>4
  <1> DEFINE g == poly_counter + j'
  <1>5. PICK q, x : /\ Agree(poly', q, g) /\ j' \in 0 .. need_coeff
                    /\ \/ below_q' = q
                       \/ below_q' = Append(q, x) /\ x \in Nat /\ g = N
    BY <1>4
  <1>6. Sampler!Filled' = g
    BY <1>1 DEF Sampler!Filled
  <1> HIDE DEF g
  <1>b. /\ g \in 0 .. N /\ q \in Seq(Nat) /\ Len(q) = g
        /\ \A m \in 0 .. g - 1 : poly'[m] = q[m + 1]
        /\ poly' \in [Sampler!Cells -> Nat]
        /\ \A c \in Sampler!Cells : c >= g => poly'[c] = Sampler!Unset
    BY <1>5 DEF Agree
  <1>7. /\ below_q' \in Seq(Nat) /\ g <= Len(below_q')
        /\ \A m \in 0 .. g - 1 : poly'[m] = below_q'[m + 1]
        /\ g < N => Len(below_q') = g
    <2>2. CASE below_q' = q
      BY <1>b, <2>2
    <2>3. CASE below_q' = Append(q, x) /\ x \in Nat /\ g = N
      <3>1. /\ below_q' \in Seq(Nat) /\ Len(below_q') = g + 1
            /\ \A m \in 1 .. g : below_q'[m] = q[m]
        BY <1>b, <2>3
      <3>2. \A m \in 0 .. g - 1 : m + 1 \in 1 .. g
        BY <1>b
      <3>3. \A m \in 0 .. g - 1 : poly'[m] = below_q'[m + 1]
        BY <1>b, <3>1, <3>2
      <3>4. g <= Len(below_q') /\ ~ (g < N)
        BY <1>b, <2>3, <3>1, Sizes
      <3> QED
        BY <3>1, <3>3, <3>4
    <2> QED
      BY <1>5, <2>2, <2>3
  <1>9. Sampler!TypeOK'
    BY <1>1, <1>2, <1>5, <1>7, <1>b, Sizes DEF Sampler!TypeOK, Sampler!BufBytes
  <1>10. Sampler!FirstAccepted' /\ Sampler!NothingSkipped'
    BY <1>1, <1>6, <1>7 DEF Sampler!FirstAccepted, Sampler!NothingSkipped
  <1>11. Sampler!StaysInside'
    <2>1. \A c \in Sampler!Cells : c >= N => c >= g
      BY <1>b, Sizes DEF Sampler!Cells
    <2> QED
      BY <1>1, <1>2, <1>6, <1>b, <2>1 DEF Sampler!StaysInside, Sampler!BufBytes
  <1>12. \E t \in Nat : suma_bytes' = 3 * t
    <2>1. PICK t \in Nat : suma_bytes = 3 * t
      BY DEF SamplerInv
    <2>2. t - 1 \in Nat /\ suma_bytes' = 3 * (t - 1)
      BY <1>1, <2>1
    <2> QED
      BY <2>2
  <1>13. sampling' = "sample" => need_coeff' = N - poly_counter'
    BY <1>1, <1>2
  <1> QED
    BY <1>9, <1>10, <1>11, <1>12, <1>13 DEF SamplerInv, Sampler!SamplesStream

LEMMA SamplerStep == SamplerInv /\ [Sampler!Next]_samplerVars => SamplerInv'
  <1> SUFFICES ASSUME SamplerInv, [Sampler!Next]_samplerVars PROVE SamplerInv'
    OBVIOUS
  <1>1. CASE Sampler!Squeeze
    BY <1>1, SqueezeKeeps
  <1>2. CASE \E ok1, ok2 \in BOOLEAN : Sampler!Sample(ok1, ok2)
    BY <1>2, SampleKeeps
  <1>3. CASE Sampler!Return
    BY <1>3, ReturnKeeps
  <1>4. CASE Sampler!NextPolynomial
    BY <1>4, NextPolynomialKeeps
  <1>5. CASE UNCHANGED samplerVars
    BY <1>5 DEF samplerVars, SamplerInv, Sampler!SamplesStream, Sampler!TypeOK, Sampler!Filled,
                Sampler!FirstAccepted, Sampler!NothingSkipped, Sampler!StaysInside
  <1> QED
    BY <1>1, <1>2, <1>3, <1>4, <1>5 DEF Sampler!Next, Sampler!Step

-----------------------------------------------------------------------------
(* Entropy *)

Whole == [b \in Random!Bytes |-> 1]
Filled(n) == [b \in Random!Bytes |-> IF b < n THEN 1 ELSE 0]

\* While bytes are drawn those before offset have come, once; what is drawn
\* later has none.
EntropyInv ==
  /\ Random!SeedsSound
  /\ callback \in BOOLEAN
  /\ drawing \in {"draw", "loop", "getrandom", "derive", "done", "failed"}
  /\ draw # "z" => buf["z"] = Random!Blank
  /\ drawing = "draw" => buf[draw] = Random!Blank
  /\ drawing \in {"loop", "getrandom"} => ~callback /\ buf[draw] = Filled(offset)

LEMMA SeedSize == ML_KEM_SEED_BYTES \in Nat \ {0}
  BY StreamsAssumption

\* The buffer of the current draw is the only one that changes.
BufDraw(content) ==
  /\ buf' = [buf EXCEPT ![draw] = content]
  /\ buf'[draw] = content
  /\ buf' \in [Random!Draws -> [Random!Bytes -> Nat]]

LEMMA FillOnce ==
  ASSUME EntropyInv, NEW n \in 0 .. ML_KEM_SEED_BYTES, NEW m \in n .. ML_KEM_SEED_BYTES,
         NEW bytes, bytes \cap Random!Bytes = n .. m - 1,
         buf[draw] = Filled(n), Random!Fill(bytes)
  PROVE  BufDraw(Filled(m))
  <1>1. buf \in [Random!Draws -> [Random!Bytes -> Nat]] /\ draw \in Random!Draws
    BY DEF EntropyInv, Random!SeedsSound, Random!TypeOK
  <1>2. [b \in Random!Bytes |-> IF b \in bytes THEN buf[draw][b] + 1 ELSE buf[draw][b]] = Filled(m)
    <2>1. ASSUME NEW b \in Random!Bytes
          PROVE  (IF b \in bytes THEN buf[draw][b] + 1 ELSE buf[draw][b])
                   = IF b < m THEN 1 ELSE 0
      <3>1. b \in Nat /\ (b \in bytes <=> b \in n .. m - 1) /\ buf[draw][b] = IF b < n THEN 1 ELSE 0
        BY SeedSize DEF Filled, Random!Bytes
      <3> QED
        BY <3>1, SeedSize
    <2> QED
      BY <2>1 DEF Filled
  <1>3. buf' = [buf EXCEPT ![draw] =
           [b \in Random!Bytes |-> IF b \in bytes THEN buf[draw][b] + 1 ELSE buf[draw][b]]]
    BY DEF Random!Fill
  <1>4. Filled(m) \in [Random!Bytes -> Nat]
    BY DEF Filled
  <1> QED
    BY <1>1, <1>2, <1>3, <1>4 DEF BufDraw

LEMMA FullAndEmpty ==
  /\ Filled(ML_KEM_SEED_BYTES) = Whole
  /\ Filled(0) = Random!Blank
  /\ Random!Blank \in [Random!Bytes -> Nat] /\ Whole \in [Random!Bytes -> Nat]
  <1>1. \A b \in Random!Bytes : b < ML_KEM_SEED_BYTES /\ ~ (b < 0)
    BY SeedSize DEF Random!Bytes
  <1> QED
    BY <1>1 DEF Filled, Whole, Random!Blank

LEMMA EntropyStarts == Random!Init => EntropyInv
  BY FullAndEmpty, SeedSize
  DEF Random!Init, EntropyInv, Random!SeedsSound, Random!TypeOK, Random!WholeSeeds,
      Random!NothingLeft, Random!Draws

\* A draw ends with all bytes.
LEMMA DrawnWhole ==
  ASSUME EntropyInv, drawing \notin {"done", "failed"},
         buf'[draw] = Whole, buf' \in [Random!Draws -> [Random!Bytes -> Nat]],
         \A x \in Random!Draws \ {draw} : buf'[x] = buf[x], drawing' = "derive",
         UNCHANGED <<callback, draw, err>>, offset' \in 0 .. ML_KEM_SEED_BYTES
  PROVE  EntropyInv'
  <1>1. /\ buf \in [Random!Draws -> [Random!Bytes -> Nat]] /\ draw \in Random!Draws
        /\ err = "none" /\ callback \in BOOLEAN
        /\ draw # "z" => buf["z"] = Random!Blank
        /\ draw = "z" => buf["d"] = Whole
    BY DEF EntropyInv, Random!SeedsSound, Random!TypeOK, Random!WholeSeeds, Whole
  <1>2. /\ buf' \in [Random!Draws -> [Random!Bytes -> Nat]] /\ buf'[draw] = Whole
        /\ draw # "z" => buf'["z"] = Random!Blank
        /\ draw = "z" => buf'["d"] = Whole
    BY <1>1 DEF Random!Draws
  <1> QED
    BY <1>1, <1>2
    DEF EntropyInv, Random!SeedsSound, Random!TypeOK, Random!WholeSeeds, Random!NothingLeft, Whole

\* A draw fails after some bytes, or with none.
LEMMA DrawFails ==
  ASSUME EntropyInv, drawing \notin {"done", "failed", "derive"}, NEW bytes,
         Random!Fail(bytes), UNCHANGED <<callback, draw, offset>>
  PROVE  EntropyInv'
  <1>1. /\ buf \in [Random!Draws -> [Random!Bytes -> Nat]] /\ draw \in Random!Draws
        /\ callback \in BOOLEAN /\ offset \in 0 .. ML_KEM_SEED_BYTES
        /\ draw # "z" => buf["z"] = Random!Blank
        /\ draw = "z" => buf["d"] = Whole
    BY DEF EntropyInv, Random!SeedsSound, Random!TypeOK, Random!WholeSeeds, Whole
  <1>2. /\ drawing' = "failed"
        /\ callback = (err' = "ML_KEM_CALLBACK_ENTROPY_FAILED")
    BY <1>1 DEF Random!Fail, Random!Code
  <1>3. CASE draw # "z"
    <2>1. buf' = [buf EXCEPT ![draw] = Random!Blank]
      BY <1>1, <1>3 DEF Random!Fail, Random!Cleaned, Random!Draws
    <2>2. /\ buf' \in [Random!Draws -> [Random!Bytes -> Nat]] /\ buf'[draw] = Random!Blank
          /\ buf'["z"] = Random!Blank
      BY <1>1, <1>3, <2>1, FullAndEmpty
    <2> QED
      BY <1>1, <1>2, <1>3, <2>2
      DEF EntropyInv, Random!SeedsSound, Random!TypeOK, Random!WholeSeeds, Random!NothingLeft
  <1>4. CASE draw = "z"
    <2>1. buf' = [buf EXCEPT ![draw] =
            [b \in Random!Bytes |-> IF b \in bytes THEN buf[draw][b] + 1 ELSE buf[draw][b]]]
      BY <1>4 DEF Random!Fail, Random!Cleaned, Random!Fill
    <2>2. [b \in Random!Bytes |-> IF b \in bytes THEN buf[draw][b] + 1 ELSE buf[draw][b]]
            \in [Random!Bytes -> Nat]
      BY <1>1
    <2>3. /\ buf' \in [Random!Draws -> [Random!Bytes -> Nat]] /\ buf'["d"] = Whole
      BY <1>1, <1>4, <2>1, <2>2
    <2> QED
      BY <1>1, <1>2, <1>4, <2>3
      DEF EntropyInv, Random!SeedsSound, Random!TypeOK, Random!WholeSeeds, Random!NothingLeft, Whole
  <1> QED
    BY <1>3, <1>4

LEMMA EntropyStep == EntropyInv /\ [Random!Next]_entropyVars => EntropyInv'
  <1> SUFFICES ASSUME EntropyInv, [Random!Next]_entropyVars PROVE EntropyInv'
    OBVIOUS
  <1>0. /\ buf \in [Random!Draws -> [Random!Bytes -> Nat]] /\ draw \in Random!Draws
        /\ callback \in BOOLEAN /\ offset \in 0 .. ML_KEM_SEED_BYTES
        /\ drawing = "draw" => buf[draw] = Filled(0)
        /\ drawing \in {"loop", "getrandom"} => ~callback /\ buf[draw] = Filled(offset)
        /\ drawing # "failed" => err = "none"
    BY FullAndEmpty DEF EntropyInv, Random!SeedsSound, Random!TypeOK
  <1>1. CASE Random!Callback
    <2>1. drawing = "draw" /\ UNCHANGED <<callback, draw, offset>>
      BY <1>1 DEF Random!Callback
    <2>2. CASE Random!Fill(Random!Bytes) /\ drawing' = "derive" /\ err' = err
      <3>1. Random!Bytes \cap Random!Bytes = 0 .. ML_KEM_SEED_BYTES - 1
        BY DEF Random!Bytes
      <3>2. 0 \in 0 .. ML_KEM_SEED_BYTES /\ ML_KEM_SEED_BYTES \in 0 .. ML_KEM_SEED_BYTES
        BY SeedSize
      <3>3. BufDraw(Filled(ML_KEM_SEED_BYTES))
        BY <1>0, <2>1, <2>2, <3>1, <3>2, FillOnce
      <3>4. /\ buf'[draw] = Whole /\ buf' \in [Random!Draws -> [Random!Bytes -> Nat]]
            /\ \A x \in Random!Draws \ {draw} : buf'[x] = buf[x]
        BY <1>0, <3>3, FullAndEmpty DEF BufDraw
      <3>5. /\ drawing \notin {"done", "failed"} /\ drawing' = "derive"
            /\ UNCHANGED <<callback, draw, err>> /\ offset' \in 0 .. ML_KEM_SEED_BYTES
        BY <1>0, <2>1, <2>2
      <3> QED
        BY <3>4, <3>5, DrawnWhole
    <2>3. CASE \E n \in 0 .. ML_KEM_SEED_BYTES - 1 : Random!Fail(0 .. n - 1)
      BY <2>1, <2>3, DrawFails
    <2> QED
      BY <1>1, <2>2, <2>3 DEF Random!Callback
  <1>2. CASE Random!System
    <2>1. drawing = "draw" /\ ~callback /\ UNCHANGED <<port, callback, draw>>
      BY <1>2 DEF Random!System
    <2>2. CASE Random!KernelEntropy
      <3>1. Random!Bytes \cap Random!Bytes = 0 .. ML_KEM_SEED_BYTES - 1
        BY DEF Random!Bytes
      <3>2. 0 \in 0 .. ML_KEM_SEED_BYTES /\ ML_KEM_SEED_BYTES \in 0 .. ML_KEM_SEED_BYTES
        BY SeedSize
      <3>3. BufDraw(Filled(ML_KEM_SEED_BYTES))
        BY <1>0, <2>1, <2>2, <3>1, <3>2, FillOnce DEF Random!KernelEntropy
      <3>4. /\ buf'[draw] = Whole /\ buf' \in [Random!Draws -> [Random!Bytes -> Nat]]
            /\ \A x \in Random!Draws \ {draw} : buf'[x] = buf[x]
        BY <1>0, <3>3, FullAndEmpty DEF BufDraw
      <3>5. /\ drawing \notin {"done", "failed"} /\ drawing' = "derive"
            /\ UNCHANGED <<callback, draw, err>> /\ offset' \in 0 .. ML_KEM_SEED_BYTES
        BY <1>0, <2>1, <2>2 DEF Random!KernelEntropy
      <3> QED
        BY <3>4, <3>5, DrawnWhole
    <2>3. CASE Random!FreeRtosEntropy
      BY <2>1, <2>3, DrawFails DEF Random!FreeRtosEntropy
    <2>4. CASE Random!UserspaceEntropy
      <3>1. /\ offset' = 0 /\ drawing' = "loop" /\ buf' = buf /\ err' = err
            /\ Filled(0) = Filled(offset)' /\ offset' \in 0 .. ML_KEM_SEED_BYTES
        BY <2>4, SeedSize DEF Random!UserspaceEntropy, Filled
      <3>2. buf'[draw'] = Filled(offset)'
        BY <1>0, <2>1, <3>1
      <3> QED
        BY <1>0, <2>1, <3>1, <3>2
        DEF EntropyInv, Random!SeedsSound, Random!TypeOK, Random!WholeSeeds, Random!NothingLeft
    <2> QED
      BY <1>2, <2>2, <2>3, <2>4 DEF Random!System
  <1>3. CASE Random!Loop
    <2>1. /\ drawing = "loop" /\ UNCHANGED <<port, callback, draw, offset, buf, err>>
          /\ drawing' = IF offset < ML_KEM_SEED_BYTES THEN "getrandom" ELSE "derive"
      BY <1>3 DEF Random!Loop, Random!StillMissing
    <2>2. CASE offset < ML_KEM_SEED_BYTES
      <3>1. buf'[draw'] = Filled(offset)'
        BY <1>0, <2>1 DEF Filled
      <3> QED
        BY <1>0, <2>1, <2>2, <3>1
        DEF EntropyInv, Random!SeedsSound, Random!TypeOK, Random!WholeSeeds, Random!NothingLeft
    <2>3. CASE ~ (offset < ML_KEM_SEED_BYTES)
      <3>1. offset = ML_KEM_SEED_BYTES
        BY <1>0, <2>3, SeedSize
      <3>2. buf[draw] = Whole
        BY <1>0, <2>1, <3>1, FullAndEmpty
      <3> QED
        BY <1>0, <2>1, <2>3, <3>2, DrawnWhole
    <2> QED
      BY <2>2, <2>3
  <1>4. CASE Random!Answer
    <2>1. PICK n \in 0 .. ML_KEM_SEED_BYTES - offset :
            Random!Fill(Random!Target(n)) /\ offset' = offset + n
      BY <1>4 DEF Random!Answer
    <2>2. /\ drawing = "getrandom" /\ drawing' = "loop"
          /\ UNCHANGED <<port, callback, draw, err>>
      BY <1>4 DEF Random!Answer
    <2>3. /\ offset' \in offset .. ML_KEM_SEED_BYTES /\ offset' \in 0 .. ML_KEM_SEED_BYTES
          /\ Random!Target(n) \cap Random!Bytes = offset .. offset' - 1
      BY <1>0, <2>1, SeedSize DEF Random!Target, Random!Bytes
    <2>4. BufDraw(Filled(offset'))
      BY <1>0, <2>1, <2>2, <2>3, FillOnce
    <2>5. /\ buf'[draw'] = Filled(offset)' /\ buf' \in [Random!Draws -> [Random!Bytes -> Nat]]
          /\ \A x \in Random!Draws \ {draw} : buf'[x] = buf[x]
      BY <1>0, <2>2, <2>4 DEF BufDraw, Filled
    <2> QED
      BY <1>0, <2>2, <2>3, <2>5
      DEF EntropyInv, Random!SeedsSound, Random!TypeOK, Random!WholeSeeds, Random!NothingLeft,
          Random!Draws
  <1>5. CASE Random!Interrupted
    <2>1. /\ drawing = "getrandom" /\ drawing' = "loop"
          /\ UNCHANGED <<port, callback, draw, offset, buf, err>>
      BY <1>5 DEF Random!Interrupted
    <2>2. buf'[draw'] = Filled(offset)'
      BY <1>0, <2>1 DEF Filled
    <2> QED
      BY <1>0, <2>1, <2>2
      DEF EntropyInv, Random!SeedsSound, Random!TypeOK, Random!WholeSeeds, Random!NothingLeft
  <1>6. CASE Random!Refused
    BY <1>6, DrawFails DEF Random!Refused
  <1>7. CASE Random!Derive
    <2>1. /\ drawing = "derive" /\ UNCHANGED <<port, callback, buf, err>>
          /\ buf[draw] = Whole
      BY <1>7 DEF Random!Derive, EntropyInv, Random!SeedsSound, Random!WholeSeeds, Whole
    <2>2. CASE draw = "d"
      <3>1. draw' = "z" /\ drawing' = "draw" /\ offset' = 0
        BY <1>7, <2>2 DEF Random!Derive
      <3>2. buf'["z"] = Random!Blank /\ buf'["d"] = Whole
        BY <2>1, <2>2 DEF EntropyInv
      <3> QED
        BY <1>0, <2>1, <3>1, <3>2, SeedSize
        DEF EntropyInv, Random!SeedsSound, Random!TypeOK, Random!WholeSeeds, Random!NothingLeft,
            Random!Draws, Whole
    <2>3. CASE draw # "d"
      <3>1. drawing' = "done" /\ draw' = draw /\ offset' = offset
        BY <1>7, <2>3 DEF Random!Derive
      <3> QED
        BY <1>0, <2>1, <3>1
        DEF EntropyInv, Random!SeedsSound, Random!TypeOK, Random!WholeSeeds, Random!NothingLeft,
            Whole
    <2> QED
      BY <2>2, <2>3
  <1>8. CASE UNCHANGED entropyVars
    BY <1>8 DEF entropyVars, EntropyInv, Random!SeedsSound, Random!TypeOK, Random!WholeSeeds,
                Random!NothingLeft, Filled
  <1> QED
    BY <1>1, <1>2, <1>3, <1>4, <1>5, <1>6, <1>7, <1>8 DEF Random!Next

-----------------------------------------------------------------------------
(* The three parts together *)

LEMMA StreamsInvariant == StreamsSpec => [](SamplerInv /\ EntropyInv)
  <1>1. StreamsInit => SamplerInv /\ EntropyInv
    BY SamplerStarts, EntropyStarts DEF StreamsInit
  <1>2. SamplerInv /\ EntropyInv /\ [StreamsNext]_streamVars => (SamplerInv /\ EntropyInv)'
    <2> SUFFICES ASSUME SamplerInv, EntropyInv, [StreamsNext]_streamVars
                 PROVE  SamplerInv' /\ EntropyInv'
      OBVIOUS
    <2>1. [Sampler!Next]_samplerVars /\ [Random!Next]_entropyVars
      BY DEF StreamsNext, RunSponge, RunSampler, RunEntropy, streamVars
    <2> QED
      BY <2>1, SamplerStep, EntropyStep
  <1> QED
    BY <1>1, <1>2, PTL DEF StreamsSpec

\* SamplesStream: for every length of the polynomial and of the XOF buffer, the
\* sampler and its callers' loops take the first candidates below q of the one
\* stream, lose none at the end of a buffer, and write and read nothing beside.
THEOREM StreamSampled == StreamsSpec => []SamplesStream
  <1>1. SamplerInv => SamplesStream
    BY DEF SamplerInv, SamplesStream
  <1> QED
    BY <1>1, StreamsInvariant, PTL

\* SeedsSound: for every length of a seed, in however many pieces it comes and
\* whatever fails, what is derived from is random in every byte, and a failed
\* draw leaves nothing behind.
THEOREM SeedsAreSound == StreamsSpec => []SeedsSound
  <1>1. EntropyInv => SeedsSound
    BY DEF EntropyInv, SeedsSound
  <1> QED
    BY <1>1, StreamsInvariant, PTL

-----------------------------------------------------------------------------
(* Absorbing *)

Rate == fed.rate

Token(n) == {<<"in", n>>}

\* Bytes a + 1 .. e of a message.
Slice(a, e) == [i \in 1 .. e - a |-> Token(a + i)]

\* Block b of the message, from 1, and its first bytes.
Begun(b, p) == [q \in Positions |-> IF q < p THEN Token(b * Rate + q + 1) ELSE {}]
Full(b) == Begun(b - 1, Rate)

\* The state after b blocks and p bytes of the next one.
Absorbed(b, p) == [past |-> [i \in 1 .. b |-> Full(i)], now |-> Begun(b, p)]

\* That state, and in the context the rest of the first e bytes.
Absorbing(b, p, e) ==
  /\ b \in Nat /\ p \in 0 .. Rate - 1
  /\ state = Absorbed(b, p)
  /\ ctx[run].rate = Rate /\ ctx[run].pos = p
  /\ b * Rate + p <= e
  /\ ctx[run].in = Slice(b * Rate + p, e)

IsContext(c) == DOMAIN c = {"rate", "pos", "in", "outlen"}

Shapes == DOMAIN ctx = {"shake", "sha3"} /\ \A c \in DOMAIN ctx : IsContext(ctx[c])

Rates == {Rate128, Rate256, Rate512}

LEMMA RatesFit ==
  /\ Rates \subseteq Nat \ {0} /\ \A r \in Rates : r <= Rate128
  /\ MaxIn \in Nat \ {0} /\ MaxOut \in Nat \ {0} /\ Rate256 <= MaxIn
  BY ShakeAssumption DEF Rates

LEMMA XorEmpty == \A a : a (+) {} = a /\ {} (+) a = a
  BY Zenon DEF (+)

LEMMA MessageKnown ==
  ASSUME fed \in Messages
  PROVE  /\ Rate \in Rates /\ fed.by \in {"shake", "sha3"}
         /\ fed.by = "shake" => Rate \in {Rate128, Rate256}
         /\ \E n \in 0 .. MaxIn : fed.bytes = Slice(0, n)
  <1>1. \A n \in 0 .. MaxIn : Message(n) = Slice(0, n)
    BY RatesFit DEF Message, Slice, Token
  <1>2. /\ Rate \in Rates /\ fed.by \in {"shake", "sha3"}
        /\ fed.by = "shake" => Rate \in {Rate128, Rate256}
        /\ \E n \in 0 .. MaxIn : fed.bytes = Message(n)
    BY DEF Messages, Rate, Rates
  <1> QED
    BY <1>1, <1>2

LEMMA SliceLen ==
  ASSUME NEW a \in Nat, NEW e \in Nat, a <= e
  PROVE  Len(Slice(a, e)) = e - a /\ (Slice(a, e) = <<>> <=> a = e)
  <1>1. e - a \in Nat
    OBVIOUS
  <1>2. Len(Slice(a, e)) = e - a
    BY <1>1 DEF Slice
  <1>3. ASSUME a = e PROVE Slice(a, e) = <<>>
    BY <1>3 DEF Slice
  <1>4. ASSUME Slice(a, e) = <<>> PROVE a = e
    <2>1. Len(Slice(a, e)) = 0
      BY <1>4
    <2> QED
      BY <1>1, <1>2, <2>1
  <1> QED
    BY <1>2, <1>3, <1>4

LEMMA WholeLen ==
  ASSUME NEW n \in Nat
  PROVE  Len(Slice(0, n)) = n
  <1>1. Len(Slice(0, n)) = n - 0
    BY SliceLen
  <1> QED
    BY <1>1

Cuts(a, e, m, n) == SubSeq(Slice(a, e), m + 1, n) = Slice(a + m, a + n)

LEMMA SubSlice ==
  ASSUME NEW a \in Nat, NEW e \in Nat, NEW m \in Nat, NEW n \in Nat, m <= n, a + n <= e
  PROVE  Cuts(a, e, m, n)
  <1>1. SubSeq(Slice(a, e), m + 1, n) = [i \in 1 .. n - m |-> Slice(a, e)[i + m]]
    BY DEF SubSeq
  <1>2. \A i \in 1 .. n - m : Slice(a, e)[i + m] = Token(a + m + i)
    BY DEF Slice
  <1>3. (a + n) - (a + m) = n - m
    OBVIOUS
  <1> QED
    BY <1>1, <1>2, <1>3 DEF Slice, Cuts

LEMMA FullNext ==
  ASSUME NEW b \in Nat
  PROVE  Full(b + 1) = Begun(b, Rate)
  <1>1. b + 1 - 1 = b
    OBVIOUS
  <1> QED
    BY <1>1 DEF Full

\* b + 1 blocks are one rate longer than b.
LEMMA NextBlock ==
  ASSUME NEW b \in Nat, NEW r \in Nat
  PROVE  b * r \in Nat /\ (b + 1) * r = b * r + r /\ b + 1 - 1 = b
  OBVIOUS

\* A turn of the loop absorbs up to the end of the block or of the input.
LEMMA AbsorbTurn ==
  ASSUME Shapes, run \in DOMAIN ctx, Rate \in Rates, NEW b, NEW p, NEW e \in Nat,
         Absorbing(b, p, e), Absorb
  PROVE  /\ Shapes'
         /\ \E b1, p1 : Absorbing(b1, p1, e)'
         /\ UNCHANGED <<run, pc, left, calls, fed, out>>
         /\ \A c \in DOMAIN ctx : ctx'[c].outlen = ctx[c].outlen
  <1> DEFINE c == ctx[run]
             r == Rate
             base == b * r
             n == Lesser(r - p, e - (base + p))
             mixed == Mix(state, p, n, c.in)
             full == p + n = r
  <1>1. /\ b \in Nat /\ p \in 0 .. r - 1 /\ r \in Nat \ {0} /\ base \in Nat
        /\ base + p <= e /\ r <= Rate128
    BY RatesFit, NextBlock DEF Absorbing
  <1>2. /\ c.in = Slice(base + p, e) /\ Len(c.in) = e - (base + p) /\ c.in # <<>>
        /\ c.rate = r /\ c.pos = p /\ state = Absorbed(b, p)
    <2> HIDE DEF base
    <2>1. c.in = Slice(base + p, e) /\ c.rate = r /\ c.pos = p /\ state = Absorbed(b, p)
      BY DEF Absorbing, base
    <2>2. Len(c.in) = e - (base + p)
      <3> DEFINE a == base + p
      <3>1. a \in Nat /\ a <= e /\ c.in = Slice(a, e)
        BY <1>1, <2>1
      <3> HIDE DEF a, c
      <3>2. Len(c.in) = e - a
        BY <3>1, SliceLen
      <3> QED
        BY <3>2 DEF a
    <2> QED
      BY <2>1, <2>2 DEF Absorb
  <1>3. base + p # e
    <2> HIDE DEF base
    <2> SUFFICES ASSUME base + p = e PROVE FALSE
      OBVIOUS
    <2>1. Slice(e, e) = <<>>
      BY SliceLen
    <2> QED
      BY <1>2, <2>1
  <1> HIDE DEF base, r
  <1>4. n \in Nat \ {0} /\ n <= r - p /\ base + p + n <= e /\ (~full => base + p + n = e)
    BY <1>1, <1>3 DEF Lesser
  <1> HIDE DEF n
  <1>5. /\ state' = IF full THEN Permute(mixed) ELSE mixed
        /\ ctx' = [ctx EXCEPT ![run].pos = IF full THEN 0 ELSE p + n,
                              ![run].in = SubSeq(c.in, n + 1, Len(c.in))]
        /\ UNCHANGED <<run, pc, left, calls, fed, out>>
    BY <1>2 DEF Absorb, n
  <1>6. mixed = [past |-> [i \in 1 .. b |-> Full(i)], now |-> Begun(b, p + n)]
    <2>1. \A q \in Positions :
            (IF q \in p .. p + n - 1 THEN Begun(b, p)[q] (+) c.in[q - p + 1] ELSE Begun(b, p)[q])
              = Begun(b, p + n)[q]
      <3> SUFFICES ASSUME NEW q \in Positions
                   PROVE  (IF q \in p .. p + n - 1 THEN Begun(b, p)[q] (+) c.in[q - p + 1]
                                                   ELSE Begun(b, p)[q])
                            = Begun(b, p + n)[q]
        OBVIOUS
      <3>1. q \in Nat
        BY RatesFit DEF Positions, Rates
      <3>2. CASE q \in p .. p + n - 1
        <4>1. Begun(b, p)[q] = {} /\ Begun(b, p + n)[q] = Token(base + q + 1)
          BY <1>1, <1>4, <3>1, <3>2 DEF Begun, base, r
        <4>2. q - p + 1 \in 1 .. e - (base + p) /\ base + p + (q - p + 1) = base + q + 1
          BY <1>1, <1>4, <3>1, <3>2
        <4>3. c.in[q - p + 1] = Token(base + q + 1)
          BY <1>2, <4>2 DEF Slice
        <4> QED
          BY <3>2, <4>1, <4>3, XorEmpty
      <3>3. CASE q \notin p .. p + n - 1
        <4>1. q < p <=> q < p + n
          BY <1>1, <1>4, <3>1, <3>3
        <4> QED
          BY <3>3, <4>1 DEF Begun
      <3> QED
        BY <3>2, <3>3
    <2>2. Begun(b, p + n) = [q \in Positions |-> Begun(b, p + n)[q]]
      BY DEF Begun
    <2>3. mixed = [state EXCEPT !.now = [q \in Positions |->
             IF q \in p .. p + n - 1 THEN state.now[q] (+) c.in[q - p + 1] ELSE state.now[q]]]
      BY DEF Mix
    <2>4. state.now = Begun(b, p) /\ state.past = [i \in 1 .. b |-> Full(i)]
      BY <1>2 DEF Absorbed
    <2> DEFINE X == [q \in Positions |->
                       IF q \in p .. p + n - 1 THEN state.now[q] (+) c.in[q - p + 1]
                                               ELSE state.now[q]]
    <2>5. X = Begun(b, p + n)
      BY <2>1, <2>2, <2>4
    <2> HIDE DEF X
    <2>6. mixed = [past |-> state.past, now |-> X]
      <3>1. mixed = [state EXCEPT !.now = X]
        BY <2>3 DEF X
      <3>2. state = [past |-> state.past, now |-> state.now]
        BY <1>2 DEF Absorbed
      <3> HIDE DEF mixed
      <3> QED
        BY <3>1, <3>2
    <2> QED
      BY <2>4, <2>5, <2>6
  <1>7. SubSeq(c.in, n + 1, Len(c.in)) = Slice(base + p + n, e)
    <2> DEFINE a == base + p
    <2>1. a \in Nat /\ e - a \in Nat /\ n <= e - a /\ a + (e - a) = e
      BY <1>1, <1>4
    <2>2. c.in = Slice(a, e) /\ Len(c.in) = e - a
      BY <1>2
    <2> HIDE DEF a, c
    <2> DEFINE y == e - a
    <2>3. y \in Nat /\ n <= y /\ a + y = e
      BY <2>1
    <2> HIDE DEF y
    <2>4. SubSeq(Slice(a, e), n + 1, y) = Slice(a + n, a + y)
      <3>1. n \in Nat /\ a \in Nat /\ y \in Nat /\ n <= y /\ a + y <= e /\ e \in Nat
        BY <1>4, <2>1, <2>3
      <3> QED
        BY <3>1, SubSlice DEF Cuts
    <2> QED
      BY <2>1, <2>2, <2>3, <2>4 DEF a, y
  <1>8. /\ Shapes' /\ DOMAIN ctx' = DOMAIN ctx
        /\ ctx'[run] = [c EXCEPT !.pos = IF full THEN 0 ELSE p + n,
                                 !.in = Slice(base + p + n, e)]
        /\ \A d \in DOMAIN ctx : d # run => ctx'[d] = ctx[d]
    BY <1>5, <1>7 DEF Shapes, IsContext
  <1>9. /\ ctx'[run].rate = r /\ ctx'[run].pos = (IF full THEN 0 ELSE p + n)
        /\ ctx'[run].in = Slice(base + p + n, e) /\ ctx'[run].outlen = c.outlen
    BY <1>2, <1>8 DEF Shapes, IsContext
  <1>10. \A d \in DOMAIN ctx : ctx'[d].outlen = ctx[d].outlen
    BY <1>8, <1>9
  <1>11. Rate' = r /\ run' = run
    BY <1>5 DEF Rate, r
  <1>12. CASE full
    <2>1. p + n = r /\ (b + 1) * r = base + r /\ b + 1 - 1 = b
      BY <1>1, <1>12, NextBlock DEF base
    <2>2. state' = [past |-> Append([i \in 1 .. b |-> Full(i)], Begun(b, r)), now |-> Blank]
      <3>1. state' = Permute(mixed)
        BY <1>5, <1>12
      <3>2. mixed.past = [i \in 1 .. b |-> Full(i)] /\ mixed.now = Begun(b, r)
        BY <1>6, <2>1
      <3> HIDE DEF mixed
      <3> QED
        BY <3>1, <3>2 DEF Permute
    <2>3. Append([i \in 1 .. b |-> Full(i)], Begun(b, r)) = [i \in 1 .. b + 1 |-> Full(i)]
      <3>1. Begun(b, r) = Full(b + 1)
        BY <1>1, FullNext DEF r
      <3> DEFINE g == [i \in 1 .. b |-> Full(i)]
      <3>2. Len(g) = b
        BY <1>1
      <3>3. Append(g, Full(b + 1)) = [i \in 1 .. b + 1 |-> IF i <= b THEN g[i] ELSE Full(b + 1)]
        BY <1>1, <3>2
      <3>4. \A i \in 1 .. b + 1 : (IF i <= b THEN g[i] ELSE Full(b + 1)) = Full(i)
        BY <1>1
      <3> QED
        BY <3>1, <3>3, <3>4
    <2>4. Blank = Begun(b + 1, 0)
      <3>1. \A q \in Positions : ~(q < 0)
        BY RatesFit DEF Positions, Rates
      <3> QED
        BY <3>1 DEF Blank, Begun
    <2>5. state' = Absorbed(b + 1, 0)
      BY <2>2, <2>3, <2>4 DEF Absorbed
    <2>6. state' = Absorbed(b + 1, 0)'
      BY <1>11, <2>5 DEF Absorbed, Full, Begun, r
    <2>7. (b + 1) * r + 0 = base + p + n /\ b + 1 \in Nat /\ 0 \in 0 .. r - 1
      <3>1. base + r + 0 = base + p + n /\ b + 1 \in Nat /\ 0 \in 0 .. r - 1
        BY <1>1, <1>4, <2>1
      <3> QED
        BY <2>1, <3>1
    <2>8. Absorbing(b + 1, 0, e)'
      BY <1>4, <1>9, <1>11, <1>12, <2>6, <2>7 DEF Absorbing
    <2> QED
      BY <1>5, <1>8, <1>10, <2>8
  <1>13. CASE ~full
    <2>0. PICK p1 : p1 = p + n
      OBVIOUS
    <2>1. state' = Absorbed(b, p1)
      BY <1>5, <1>6, <1>13, <2>0 DEF Absorbed
    <2>2. state' = Absorbed(b, p1)'
      BY <1>11, <2>1 DEF Absorbed, Full, Begun, r
    <2>3. p1 \in 0 .. r - 1 /\ base + p1 = base + p + n
      BY <1>1, <1>4, <1>13, <2>0
    <2>4. b * r + p1 = base + p + n
      BY <2>3 DEF base
    <2>5. Absorbing(b, p1, e)'
      BY <1>1, <1>4, <1>9, <1>11, <1>13, <2>0, <2>2, <2>3, <2>4 DEF Absorbing
    <2> QED
      BY <1>5, <1>8, <1>10, <2>5
  <1> QED
    BY <1>12, <1>13

-----------------------------------------------------------------------------
(* Padding *)

LEMMA ProductGrows ==
  ASSUME NEW a \in Nat, NEW b \in Nat, a < b, NEW r \in Nat
  PROVE  a * r + r <= b * r
  <1>1. PICK d \in Nat : b = a + 1 + d
    <2>1. b - a - 1 \in Nat /\ b = a + 1 + (b - a - 1)
      OBVIOUS
    <2> QED
      BY <2>1
  <1>2. b * r = a * r + r + d * r /\ d * r \in Nat /\ a * r \in Nat
    BY <1>1
  <1> QED
    BY <1>2

Splits(n, q, r, p) == n \div r = q /\ n % r = p

LEMMA DivMod ==
  ASSUME NEW q \in Nat, NEW r \in Nat \ {0}, NEW p \in 0 .. r - 1, NEW n, n = q * r + p
  PROVE  Splits(n, q, r, p)
  <1> DEFINE d == n \div r
             m == n % r
  <1>1. q * r \in Nat /\ n \in Nat
    OBVIOUS
  <1>2. d \in Nat /\ m \in 0 .. r - 1 /\ n = d * r + m
    BY <1>1
  <1> HIDE DEF d, m
  <1>3. ~(d < q)
    <2> SUFFICES ASSUME d < q PROVE FALSE
      OBVIOUS
    <2>1. d * r + r <= q * r
      BY <1>2, ProductGrows
    <2>2. d * r \in Nat
      BY <1>2
    <2> QED
      BY <1>1, <1>2, <2>1, <2>2
  <1>4. ~(q < d)
    <2> SUFFICES ASSUME q < d PROVE FALSE
      OBVIOUS
    <2>1. q * r + r <= d * r
      BY <1>2, ProductGrows
    <2>2. d * r \in Nat
      BY <1>2
    <2> QED
      BY <1>1, <1>2, <2>1, <2>2
  <1>5. d = q
    BY <1>2, <1>3, <1>4
  <1>6. m = p
    BY <1>1, <1>2, <1>5
  <1> QED
    BY <1>5, <1>6 DEF d, m, Splits

PadsFull(m, r, b, i, q) ==
  PadByte(m, (i - 1) * r + q, (b + 1) * r) = Token((i - 1) * r + q + 1)

\* The padding of a message of b blocks and p bytes.
LEMMA PaddedFull ==
  ASSUME NEW m, NEW r \in Nat \ {0}, NEW b \in Nat, NEW p \in 0 .. r - 1,
         m.bytes = Slice(0, b * r + p), NEW i \in 1 .. b, NEW q \in 0 .. r - 1
  PROVE  PadsFull(m, r, b, i, q)
  <1> DEFINE n == b * r + p
             at == (i - 1) * r + q
             total == (b + 1) * r
  <1>1. b * r \in Nat /\ (i - 1) * r \in Nat /\ total = b * r + r /\ (i - 1) * r + r <= b * r
    <2>1. i - 1 \in Nat /\ i - 1 < b
      OBVIOUS
    <2>2. (i - 1) * r + r <= b * r
      BY <2>1, ProductGrows
    <2>3. (i - 1) * r \in Nat
      BY <2>1
    <2> QED
      BY <2>2, <2>3, NextBlock
  <1>2. n \in Nat /\ at \in Nat /\ at < n /\ at # total - 1
    <2> DEFINE x == b * r
               y == (i - 1) * r
    <2>1. x \in Nat /\ y \in Nat /\ y + r <= x /\ n = x + p /\ at = y + q /\ total = x + r
      BY <1>1
    <2> HIDE DEF x, y, n, at, total
    <2> QED
      BY <2>1
  <1>3. m.bytes = Slice(0, n)
    OBVIOUS
  <1> HIDE DEF n, at, total
  <1>4. Len(m.bytes) = n /\ m.bytes[at + 1] = Token(at + 1)
    <2>1. Len(Slice(0, n)) = n
      BY <1>2, WholeLen
    <2>2. Slice(0, n)[at + 1] = Token(0 + (at + 1))
      BY <1>2 DEF Slice
    <2> QED
      BY <1>2, <1>3, <2>1, <2>2
  <1>5. PadByte(m, at, total) = m.bytes[at + 1]
    BY <1>2, <1>4 DEF PadByte
  <1> QED
    BY <1>4, <1>5 DEF at, total, PadsFull

LEMMA PaddedLast ==
  ASSUME NEW m, NEW r \in Nat \ {0}, NEW b \in Nat, NEW p \in 0 .. r - 1,
         m.bytes = Slice(0, b * r + p), NEW q \in 0 .. r - 1
  PROVE  PadByte(m, b * r + q, (b + 1) * r) =
           LET body == CASE q < p -> Token(b * r + q + 1) [] q = p -> Suffix(m.by) [] OTHER -> {}
           IN  IF q = r - 1 THEN body (+) Last ELSE body
  <1> DEFINE x == b * r
             n == x + p
             at == x + q
             total == (b + 1) * r
  <1>1. x \in Nat /\ total = x + r
    BY NextBlock
  <1>2. m.bytes = Slice(0, n)
    OBVIOUS
  <1> HIDE DEF x, total
  <1>3. /\ n \in Nat /\ at \in Nat /\ (at < n <=> q < p) /\ (at = n <=> q = p)
        /\ (at = total - 1 <=> q = r - 1)
    BY <1>1
  <1>4. Len(m.bytes) = n
    <2>1. Len(Slice(0, n)) = n
      BY <1>3, WholeLen
    <2> QED
      BY <1>2, <1>3, <2>1
  <1>5. ASSUME q < p PROVE m.bytes[at + 1] = Token(at + 1)
    <2>1. at + 1 \in 1 .. n - 0 /\ 0 + (at + 1) = at + 1
      BY <1>3, <1>5
    <2>2. Slice(0, n)[at + 1] = Token(0 + (at + 1))
      BY <2>1 DEF Slice
    <2> QED
      BY <1>2, <2>1, <2>2
  <1> DEFINE body == CASE q < p -> Token(at + 1) [] q = p -> Suffix(m.by) [] OTHER -> {}
             body0 == CASE at < n -> m.bytes[at + 1] [] at = n -> Suffix(m.by) [] OTHER -> {}
  <1>6. body0 = body
    <2> HIDE DEF n, at
    <2>1. CASE q < p
      BY <1>3, <1>5, <2>1
    <2>2. CASE q = p
      <3>1. ~(q < p)
        BY <2>2
      <3> QED
        BY <1>3, <2>2, <3>1
    <2>3. CASE ~(q < p) /\ q # p
      BY <1>3, <2>3
    <2> QED
      BY <2>1, <2>2, <2>3
  <1>7. PadByte(m, at, total) = IF at = total - 1 THEN body0 (+) Last ELSE body0
    BY <1>4 DEF PadByte
  <1>8. PadByte(m, at, total) = IF q = r - 1 THEN body (+) Last ELSE body
    <2> HIDE DEF body, body0, at, n
    <2> QED
      BY <1>3, <1>6, <1>7
  <1> QED
    BY <1>8 DEF x, total

\* Finalizing makes the blocks of the standard.
LEMMA FinalizedBlocks ==
  ASSUME fed \in Messages, run = fed.by, NEW b, NEW p, NEW n \in Nat, fed.bytes = Slice(0, n),
         Absorbing(b, p, n), ctx[run].in = <<>>
  PROVE  Finalized(state, run) = [past |-> Blocks(fed), now |-> Blank]
  <1> DEFINE r == Rate
             total == (b + 1) * r
             s == state.now
             s1 == [s EXCEPT ![p] = @ (+) Suffix(fed.by)]
             s2 == [s1 EXCEPT ![r - 1] = @ (+) Last]
  <1>1. /\ b \in Nat /\ p \in 0 .. r - 1 /\ r \in Nat \ {0} /\ r <= Rate128
        /\ ctx[run].rate = r /\ ctx[run].pos = p
        /\ state = [past |-> [i \in 1 .. b |-> Full(i)], now |-> Begun(b, p)]
    BY MessageKnown, RatesFit DEF Absorbing, Absorbed
  <1>2. n = b * r + p
    <2>1. b * r + p \in Nat /\ b * r + p <= n /\ Slice(b * r + p, n) = <<>>
      <3>1. b * r \in Nat
        BY <1>1, NextBlock
      <3>2. b * r + p \in Nat
        BY <1>1, <3>1
      <3> QED
        BY <3>2 DEF Absorbing
    <2> DEFINE a == b * r + p
    <2> HIDE DEF a
    <2>2. a \in Nat /\ a <= n /\ Slice(a, n) = <<>>
      BY <2>1 DEF a
    <2>3. a = n
      BY <2>2, SliceLen
    <2> QED
      BY <2>3 DEF a
  <1>3. n \div r = b /\ Len(fed.bytes) = n
    <2>1. Len(Slice(0, n)) = n
      BY WholeLen
    <2> HIDE DEF r
    <2>2. n \div r = b
      <3>1. Splits(n, b, r, p)
        BY <1>1, <1>2, DivMod
      <3> QED
        BY <3>1 DEF Splits
    <2> QED
      BY <2>1, <2>2
  <1>4. Blocks(fed) = [i \in 1 .. b + 1 |-> [q \in Positions |->
                         IF q < r THEN PadByte(fed, (i - 1) * r + q, total) ELSE {}]]
    <2> DEFINE count == Len(fed.bytes) \div fed.rate + 1
    <2>1. count = b + 1
      BY <1>3 DEF Rate
    <2>2. Blocks(fed) = [i \in 1 .. count |-> [q \in Positions |->
             IF q < fed.rate THEN PadByte(fed, (i - 1) * fed.rate + q, count * fed.rate) ELSE {}]]
      BY DEF Blocks
    <2> HIDE DEF count
    <2> QED
      BY <2>1, <2>2 DEF Rate
  <1>5. \A q \in Positions : q \in Nat
    BY RatesFit DEF Positions, Rates
  <1>6. ASSUME NEW i \in 1 .. b, NEW q \in Positions
        PROVE  (IF q < r THEN PadByte(fed, (i - 1) * r + q, total) ELSE {}) = Full(i)[q]
    <2>1. CASE q < r
      <3>1. q \in 0 .. r - 1
        BY <1>1, <1>5, <2>1
      <3>2. fed.bytes = Slice(0, b * r + p)
        BY <1>2
      <3> HIDE DEF r
      <3>3. PadByte(fed, (i - 1) * r + q, total) = Token((i - 1) * r + q + 1)
        <4>1. PadsFull(fed, r, b, i, q)
          BY <1>1, <3>1, <3>2, PaddedFull
        <4> QED
          BY <4>1 DEF PadsFull
      <3>4. Full(i)[q] = Token((i - 1) * r + q + 1)
        BY <2>1 DEF Full, Begun, r
      <3> QED
        BY <2>1, <3>3, <3>4
    <2>2. CASE ~(q < r)
      BY <2>2 DEF Full, Begun
    <2> QED
      BY <2>1, <2>2
  <1>7. ASSUME NEW q \in Positions
        PROVE  (IF q < r THEN PadByte(fed, b * r + q, total) ELSE {}) = s2[q]
    <2>1. /\ DOMAIN s = Positions /\ p \in Positions /\ r - 1 \in Positions
          /\ s = Begun(b, p)
      <3>1. p \in 0 .. Rate128 - 1 /\ r - 1 \in 0 .. Rate128 - 1
        BY <1>1, RatesFit DEF Rates
      <3> QED
        BY <1>1, <3>1 DEF Begun, Positions
    <2>2. s1[q] = IF q = p THEN s[p] (+) Suffix(fed.by) ELSE s[q]
      BY <2>1
    <2>3. s2[q] = IF q = r - 1 THEN s1[q] (+) Last ELSE s1[q]
      <3>1. DOMAIN s1 = Positions
        BY <2>1
      <3> HIDE DEF s1
      <3> QED
        BY <2>1, <3>1
    <2>4. s[q] = (IF q < p THEN Token(b * r + q + 1) ELSE {}) /\ s[p] = {}
      <3>1. ~(p < p)
        BY <1>1
      <3> QED
        BY <2>1, <3>1 DEF Begun
    <2> HIDE DEF s, s1, s2
    <2>5. s1[q] = CASE q < p -> Token(b * r + q + 1) [] q = p -> Suffix(fed.by) [] OTHER -> {}
      <3>1. CASE q = p
        <4>1. ~(q < p) /\ s1[q] = Suffix(fed.by)
          BY <1>1, <2>2, <2>4, <3>1, XorEmpty
        <4> QED
          BY <3>1, <4>1
      <3>2. CASE q # p /\ q < p
        BY <2>2, <2>4, <3>2
      <3>3. CASE q # p /\ ~(q < p)
        BY <2>2, <2>4, <3>3
      <3> QED
        BY <3>1, <3>2, <3>3
    <2>6. CASE q < r
      <3>1. q \in 0 .. r - 1
        BY <1>1, <1>5, <2>6
      <3>2. fed.bytes = Slice(0, b * r + p)
        BY <1>2
      <3> DEFINE body == CASE q < p -> Token(b * r + q + 1) [] q = p -> Suffix(fed.by) [] OTHER -> {}
      <3> HIDE DEF r
      <3>3. PadByte(fed, b * r + q, total) = IF q = r - 1 THEN body (+) Last ELSE body
        BY <1>1, <3>1, <3>2, PaddedLast
      <3> HIDE DEF body, total
      <3>4. s1[q] = body
        BY <2>5 DEF body
      <3> QED
        BY <2>3, <2>6, <3>3, <3>4
    <2>7. CASE ~(q < r)
      <3>1. q # r - 1 /\ q # p /\ ~(q < p)
        BY <1>1, <1>5, <2>7
      <3> QED
        BY <2>2, <2>3, <2>4, <2>7, <3>1
    <2> QED
      BY <2>6, <2>7
  <1>8. Finalized(state, run) = [past |-> Append(state.past, s2), now |-> Blank]
    <2> DEFINE f1 == Flip(state, p, Suffix(fed.by))
               f2 == Flip(f1, r - 1, Last)
    <2>1. f1 = [past |-> state.past, now |-> s1]
      <3>1. state = [past |-> state.past, now |-> s]
        BY <1>1
      <3> HIDE DEF s
      <3>2. Flip([past |-> state.past, now |-> s], p, Suffix(fed.by))
              = [past |-> state.past, now |-> s1]
        BY DEF Flip
      <3> QED
        BY <3>1, <3>2
    <2>2. f2 = [past |-> state.past, now |-> s2]
      <3> HIDE DEF f1, s1
      <3> QED
        BY <2>1 DEF Flip
    <2>3. Finalized(state, run) = Permute(f2)
      BY <1>1 DEF Finalized
    <2> HIDE DEF f2, s2
    <2> QED
      BY <2>2, <2>3 DEF Permute
  <1>9. Append(state.past, s2) = Blocks(fed)
    <2> DEFINE block(i) == [q \in Positions |->
                              IF q < r THEN PadByte(fed, (i - 1) * r + q, total) ELSE {}]
    <2>1. \A i \in 1 .. b : block(i) = Full(i)
      <3> SUFFICES ASSUME NEW i \in 1 .. b PROVE block(i) = Full(i)
        OBVIOUS
      <3>1. Full(i) = [q \in Positions |-> Full(i)[q]]
        BY DEF Full, Begun
      <3> QED
        BY <1>6, <3>1
    <2>2. block(b + 1) = s2
      <3>1. b + 1 - 1 = b
        BY <1>1
      <3>2. block(b + 1) = [q \in Positions |->
                              IF q < r THEN PadByte(fed, b * r + q, total) ELSE {}]
        <4>1. PICK k : k = b + 1 /\ k - 1 = b
          BY <1>1, <3>1
        <4>2. block(k) = [q \in Positions |->
                            IF q < r THEN PadByte(fed, (k - 1) * r + q, total) ELSE {}]
          OBVIOUS
        <4> HIDE DEF r, total, block
        <4> QED
          BY <4>1, <4>2
      <3>3. s2 = [q \in Positions |-> s2[q]]
        <4>1. DOMAIN s = Positions
          BY <1>1 DEF Begun
        <4> HIDE DEF s
        <4> QED
          BY <4>1
      <3> HIDE DEF s2
      <3> QED
        BY <1>7, <3>2, <3>3
    <2>3. Blocks(fed) = [i \in 1 .. b + 1 |-> block(i)]
      BY <1>4
    <2> HIDE DEF block, s2
    <2>4. state.past = [i \in 1 .. b |-> Full(i)] /\ Len(state.past) = b
      BY <1>1
    <2>5. Append(state.past, s2) = [i \in 1 .. b + 1 |-> IF i <= b THEN state.past[i] ELSE s2]
      BY <1>1, <2>4
    <2>6. \A i \in 1 .. b + 1 : (IF i <= b THEN state.past[i] ELSE s2) = block(i)
      <3> SUFFICES ASSUME NEW i \in 1 .. b + 1
                   PROVE  (IF i <= b THEN state.past[i] ELSE s2) = block(i)
        OBVIOUS
      <3>1. CASE i <= b
        <4>1. i \in 1 .. b
          BY <1>1, <3>1
        <4> QED
          BY <2>1, <2>4, <3>1, <4>1
      <3>2. CASE ~(i <= b)
        <4>1. i = b + 1
          BY <1>1, <3>2
        <4> QED
          BY <2>2, <3>2, <4>1
      <3> QED
        BY <3>1, <3>2
    <2> QED
      BY <2>3, <2>5, <2>6
  <1> QED
    BY <1>8, <1>9

-----------------------------------------------------------------------------
(* Squeezing *)

\* The state of the whole message after n more permutations.
Spread(n) == [past |-> Blocks(fed) \o [i \in 1 .. n |-> Blank], now |-> Blank]

AnyByte == {StreamByte(m, n) : m \in Messages, n \in Nat}

Extends(s, x, n) ==
  /\ Append(s \o [i \in 1 .. n |-> x], x) = s \o [i \in 1 .. n + 1 |-> x]
  /\ s \o [i \in 1 .. 0 |-> x] = s

LEMMA PadMore ==
  ASSUME NEW S, NEW s \in Seq(S), NEW x \in S, NEW n \in Nat
  PROVE  Extends(s, x, n)
  <1> DEFINE f == [i \in 1 .. n |-> x]
             g == [i \in 1 .. n + 1 |-> x]
  <1>1. /\ f \in Seq(S) /\ Len(f) = n /\ (\A i \in 1 .. n : f[i] = x)
        /\ g \in Seq(S) /\ Len(g) = n + 1 /\ (\A i \in 1 .. n + 1 : g[i] = x)
    OBVIOUS
  <1>2. [i \in 1 .. 0 |-> x] = <<>>
    OBVIOUS
  <1>3. s \o <<>> = s
    OBVIOUS
  <1>4. g = Append(f, x)
    <2>1. Append(f, x) = [i \in 1 .. n + 1 |-> IF i <= n THEN f[i] ELSE x]
      BY <1>1
    <2>2. \A i \in 1 .. n + 1 : (IF i <= n THEN f[i] ELSE x) = x
      BY <1>1
    <2> HIDE DEF f
    <2> QED
      BY <2>1, <2>2
  <1> HIDE DEF f, g
  <1>5. Append(s \o f, x) = s \o Append(f, x)
    BY <1>1
  <1> QED
    BY <1>2, <1>3, <1>4, <1>5 DEF f, g, Extends

LEMMA BlocksAreSeq ==
  ASSUME fed \in Messages
  PROVE  \E S : Blocks(fed) \in Seq(S) /\ Blank \in S
  <1>1. PICK n \in 0 .. MaxIn : fed.bytes = Slice(0, n)
    BY MessageKnown
  <1>2. Rate \in Nat \ {0} /\ n \in Nat
    <2>1. Rate \in Rates
      BY MessageKnown
    <2> QED
      BY <2>1, RatesFit
  <1>3. Len(fed.bytes) = n
    BY <1>1, <1>2, WholeLen
  <1> DEFINE count == Len(fed.bytes) \div fed.rate + 1
             block(b) == [p \in Positions |->
                            IF p < fed.rate
                            THEN PadByte(fed, (b - 1) * fed.rate + p, count * fed.rate) ELSE {}]
             S == {block(b) : b \in 1 .. count} \cup {Blank}
  <1>4. count \in Nat
    BY <1>2, <1>3 DEF Rate
  <1>5. Blocks(fed) = [b \in 1 .. count |-> block(b)]
    BY DEF Blocks
  <1> HIDE DEF count, block
  <1>6. Blocks(fed) \in Seq(S)
    BY <1>4, <1>5
  <1> QED
    BY <1>6

LEMMA SpreadMore ==
  ASSUME fed \in Messages, NEW n \in Nat
  PROVE  /\ Permute(Spread(n)) = Spread(n + 1)
         /\ Spread(0) = [past |-> Blocks(fed), now |-> Blank]
  <1>1. PICK S : Blocks(fed) \in Seq(S) /\ Blank \in S
    BY BlocksAreSeq
  <1>2. /\ Append(Blocks(fed) \o [i \in 1 .. n |-> Blank], Blank)
             = Blocks(fed) \o [i \in 1 .. n + 1 |-> Blank]
        /\ Blocks(fed) \o [i \in 1 .. 0 |-> Blank] = Blocks(fed)
    <2>1. Extends(Blocks(fed), Blank, n)
      BY <1>1, PadMore
    <2> QED
      BY <2>1 DEF Extends
  <1> QED
    BY <1>2 DEF Permute, Spread

\* What is read from the state at p is the byte of the stream that is due.
LEMMA OutIsStream ==
  ASSUME fed \in Messages, NEW n \in Nat, NEW p \in 0 .. Rate - 1, NEW at, at = n * Rate + p
  PROVE  Out(Spread(n), p) = StreamByte(fed, at)
  <1>1. Rate \in Nat \ {0} /\ Rate <= Rate128 /\ Rate128 \in Nat
    BY MessageKnown, RatesFit DEF Rates
  <1>2. Splits(at, n, Rate, p)
    BY <1>1, DivMod
  <1>3. at \div fed.rate = n /\ at % fed.rate = p
    BY <1>2 DEF Splits, Rate
  <1>4. Spread(n).now[p] = {}
    <2>1. p \in Positions
      BY <1>1 DEF Positions
    <2> QED
      BY <2>1 DEF Spread, Blank
  <1>5. Spread(n).past = Blocks(fed) \o [i \in 1 .. n |-> Blank]
    BY DEF Spread
  <1>6. StreamByte(fed, at) = <<Blocks(fed) \o [i \in 1 .. n |-> Blank], {}, p>>
    BY <1>3 DEF StreamByte
  <1> QED
    BY <1>4, <1>5, <1>6 DEF Out

-----------------------------------------------------------------------------
(* The invariant *)

\* Where reading has come to.
Squeezing ==
  \E n \in Nat :
    /\ state = Spread(n)
    /\ ctx.shake.rate = Rate
    /\ ctx.shake.pos \in 0 .. Rate
    /\ Len(out) = n * Rate + ctx.shake.pos

\* A call of a shake function has been made and has returned.
Returned == pc = "idle" /\ run = "shake" /\ calls # 0

SpongeInv ==
  /\ fed \in Messages /\ run = fed.by /\ Shapes /\ out \in Seq(AnyByte)
  /\ pc \in {"idle", "prefix", "absorb", "squeeze"}
  /\ pc \in {"prefix", "absorb"} => out = <<>>
  /\ pc = "prefix" =>
       /\ run = "shake" /\ Rate = Rate256 /\ Rate256 <= Len(fed.bytes)
       /\ \E b, p : Absorbing(b, p, Rate256)
  /\ pc = "absorb" => \E b, p : Absorbing(b, p, Len(fed.bytes))
  /\ pc \in {"absorb", "squeeze"} => left \in 1 .. MaxOut
  /\ pc \in {"absorb", "squeeze"} /\ run = "sha3" => left <= Rate
  /\ pc = "squeeze" /\ run = "sha3" => out = <<>> /\ state = Spread(0)
  /\ pc = "squeeze" /\ run = "shake" => Squeezing
  /\ pc \in {"absorb", "squeeze"} /\ run = "shake" => ctx.shake.outlen \in 1 .. MaxOut
  /\ Returned => Squeezing /\ ctx.shake.pos # 0 /\ ctx.shake.outlen \in 1 .. MaxOut

\* A context just initialised, on a state just cleared.
LEMMA Fresh ==
  ASSUME state' = Zero, Rate' \in Rates, NEW e \in Nat, ctx'[run'].rate = Rate',
         ctx'[run'].pos = 0, ctx'[run'].in = Slice(0, e)
  PROVE  Absorbing(0, 0, e)'
  <1>1. Rate' \in Nat \ {0}
    BY RatesFit
  <1>2. 0 * Rate' + 0 = 0 /\ 0 \in 0 .. Rate' - 1 /\ 0 <= e
    <2> DEFINE r == Rate'
    <2>1. r \in Nat \ {0}
      BY <1>1
    <2> HIDE DEF r
    <2>2. 0 * r + 0 = 0 /\ 0 \in 0 .. r - 1 /\ 0 <= e
      BY <2>1
    <2> QED
      BY <2>2 DEF r
  <1>3. Zero = Absorbed(0, 0)'
    <2>1. [i \in 1 .. 0 |-> Full(i)'] = <<>>
      OBVIOUS
    <2>2. \A q \in Positions : ~(q < 0)
      BY RatesFit DEF Positions, Rates
    <2>3. Begun(0, 0)' = Blank
      BY <2>2 DEF Begun, Blank
    <2> QED
      BY <2>1, <2>3 DEF Absorbed, Zero
  <1> QED
    BY <1>1, <1>2, <1>3 DEF Absorbing

LEMMA MessageWhole ==
  ASSUME NEW n \in 0 .. MaxIn
  PROVE  Message(n) = Slice(0, n) /\ Len(Message(n)) = n /\ n \in Nat
  <1>1. n \in Nat
    BY RatesFit
  <1>2. Message(n) = Slice(0, n)
    BY <1>1 DEF Message, Slice, Token
  <1> QED
    BY <1>1, <1>2, WholeLen

\* A message begins: fed is new, and nothing has been delivered for it.
LEMMA Begins ==
  ASSUME NEW c \in {"shake", "sha3"}, NEW rate \in Rates, c = "shake" => rate \in {Rate128, Rate256},
         c = "sha3" => rate \in {Rate256, Rate512}, NEW n \in 0 .. MaxIn, Start(c, rate, n)
  PROVE  /\ fed' \in Messages /\ run' = fed'.by /\ run' = c /\ Rate' = rate
         /\ fed'.bytes = Message(n) /\ Len(fed'.bytes) = n
         /\ out' = <<>> /\ state' = Zero /\ out' \in Seq(AnyByte)
  <1>1. fed' = [by |-> c, rate |-> rate, bytes |-> Message(n)] /\ run' = c /\ out' = <<>> /\ state' = Zero
    BY DEF Start
  <1>2. fed' \in Messages
    <2>1. CASE c = "shake"
      BY <1>1, <2>1 DEF Messages
    <2>2. CASE c = "sha3"
      BY <1>1, <2>2 DEF Messages
    <2> QED
      BY <2>1, <2>2
  <1>3. Len(Message(n)) = n
    BY MessageWhole
  <1> QED
    BY <1>1, <1>2, <1>3 DEF Rate

LEMMA HashStep ==
  ASSUME SpongeInv, NEW rate \in {Rate256, Rate512}, NEW n \in 0 .. MaxIn, Hash(rate, n)
  PROVE  SpongeInv' /\ Stream!New(fed') /\ fed' \in Messages
  <1>1. Start("sha3", rate, n) /\ pc' = "absorb" /\ calls' = 0
    BY DEF Hash
  <1>2. /\ fed' \in Messages /\ run' = fed'.by /\ run' = "sha3" /\ Rate' = rate
        /\ fed'.bytes = Message(n) /\ Len(fed'.bytes) = n
        /\ out' = <<>> /\ state' = Zero /\ out' \in Seq(AnyByte)
    BY <1>1, Begins DEF Rates
  <1>3. PICK outlen \in 1 .. Lesser(rate, MaxOut) :
          /\ ctx' = [ctx EXCEPT !.sha3 =
               [rate |-> rate, pos |-> 0, in |-> Message(n), outlen |-> outlen]]
          /\ left' = outlen
    BY DEF Hash
  <1>4. left' \in 1 .. MaxOut /\ left' <= rate
    <2>1. rate \in Nat \ {0} /\ MaxOut \in Nat \ {0}
      BY RatesFit DEF Rates
    <2> QED
      BY <1>3, <2>1 DEF Lesser
  <1>5. Shapes' /\ ctx'[run'] = [rate |-> rate, pos |-> 0, in |-> Message(n), outlen |-> outlen]
    BY <1>2, <1>3 DEF SpongeInv, Shapes, IsContext
  <1>6. Absorbing(0, 0, n)'
    <2>1. Message(n) = Slice(0, n) /\ n \in Nat
      BY MessageWhole
    <2>2. ctx'[run'].rate = rate /\ ctx'[run'].pos = 0 /\ ctx'[run'].in = Slice(0, n)
      BY <1>5, <2>1
    <2>3. rate \in Rates
      BY DEF Rates
    <2> QED
      BY <1>2, <2>1, <2>2, <2>3, Fresh
  <1>7. \E b, p : Absorbing(b, p, Len(fed.bytes))'
    BY <1>2, <1>6
  <1>8. Stream!New(fed')
    BY <1>2 DEF Stream!New
  <1> QED
    BY <1>1, <1>2, <1>4, <1>5, <1>7, <1>8 DEF SpongeInv, Returned

LEMMA ExpandStep ==
  ASSUME SpongeInv, NEW rate \in {Rate128, Rate256}, NEW n \in 0 .. MaxIn, Expand(rate, n)
  PROVE  SpongeInv' /\ Stream!New(fed') /\ fed' \in Messages
  <1>1. Start("shake", rate, n) /\ pc' = "absorb" /\ calls' = 1
    BY DEF Expand, Entry
  <1>2. /\ fed' \in Messages /\ run' = fed'.by /\ run' = "shake" /\ Rate' = rate
        /\ fed'.bytes = Message(n) /\ Len(fed'.bytes) = n
        /\ out' = <<>> /\ state' = Zero /\ out' \in Seq(AnyByte)
    BY <1>1, Begins DEF Rates
  <1>3. PICK outlen \in 1 .. MaxOut :
          /\ ctx' = [ctx EXCEPT !.shake =
               [rate |-> rate, pos |-> 0, in |-> Message(n), outlen |-> outlen]]
          /\ left' = outlen
    BY DEF Expand
  <1>4. /\ Shapes' /\ ctx'.shake.outlen = outlen
        /\ ctx'[run'] = [rate |-> rate, pos |-> 0, in |-> Message(n), outlen |-> outlen]
    BY <1>2, <1>3 DEF SpongeInv, Shapes, IsContext
  <1>5. Absorbing(0, 0, n)'
    <2>1. Message(n) = Slice(0, n) /\ n \in Nat
      BY MessageWhole
    <2>2. ctx'[run'].rate = rate /\ ctx'[run'].pos = 0 /\ ctx'[run'].in = Slice(0, n)
      BY <1>4, <2>1
    <2>3. rate \in Rates
      BY DEF Rates
    <2> QED
      BY <1>2, <2>1, <2>2, <2>3, Fresh
  <1>6. \E b, p : Absorbing(b, p, Len(fed.bytes))'
    BY <1>2, <1>5
  <1>7. Stream!New(fed')
    BY <1>2 DEF Stream!New
  <1> QED
    BY <1>1, <1>2, <1>3, <1>4, <1>6, <1>7 DEF SpongeInv, Returned

LEMMA FallbackStep ==
  ASSUME SpongeInv, NEW n \in 0 .. MaxIn, Fallback(n)
  PROVE  SpongeInv' /\ Stream!New(fed') /\ fed' \in Messages
  <1>1. Start("shake", Rate256, n) /\ pc' = "prefix" /\ calls' = 0 /\ n >= Rate256
    BY DEF Fallback, Prefix
  <1>2. /\ fed' \in Messages /\ run' = fed'.by /\ run' = "shake" /\ Rate' = Rate256
        /\ fed'.bytes = Message(n) /\ Len(fed'.bytes) = n
        /\ out' = <<>> /\ state' = Zero /\ out' \in Seq(AnyByte)
    BY <1>1, Begins DEF Rates
  <1>3. ctx' = [ctx EXCEPT !.shake =
          [rate |-> Rate256, pos |-> 0, in |-> SubSeq(Message(n), 1, Rate256), outlen |-> 1]]
    BY DEF Fallback, Prefix
  <1>4. /\ Shapes'
        /\ ctx'[run'] = [rate |-> Rate256, pos |-> 0, in |-> SubSeq(Message(n), 1, Rate256),
                         outlen |-> 1]
    BY <1>2, <1>3 DEF SpongeInv, Shapes, IsContext
  <1>5. n \in Nat /\ Rate256 \in Nat /\ Rate256 \in Rates /\ Message(n) = Slice(0, n)
    BY MessageWhole, RatesFit DEF Rates
  <1>6. SubSeq(Message(n), 1, Rate256) = Slice(0, Rate256)
    <2>1. Cuts(0, n, 0, Rate256)
      BY <1>1, <1>5, SubSlice
    <2>2. SubSeq(Slice(0, n), 0 + 1, Rate256) = Slice(0 + 0, 0 + Rate256)
      BY <2>1 DEF Cuts
    <2>3. 0 + 1 = 1 /\ 0 + 0 = 0 /\ 0 + Rate256 = Rate256
      BY <1>5
    <2> QED
      BY <1>5, <2>2, <2>3
  <1>7. Absorbing(0, 0, Rate256)'
    <2>1. ctx'[run'].rate = Rate256 /\ ctx'[run'].pos = 0 /\ ctx'[run'].in = Slice(0, Rate256)
      BY <1>4, <1>6
    <2> QED
      BY <1>2, <1>5, <2>1, Fresh
  <1>8. Stream!New(fed')
    BY <1>2 DEF Stream!New
  <1> QED
    BY <1>1, <1>2, <1>4, <1>5, <1>7, <1>8 DEF SpongeInv, Returned

\* A context with a rate and a position: the next call goes on squeezing.
LEMMA AgainStep ==
  ASSUME SpongeInv, Again
  PROVE  SpongeInv' /\ UNCHANGED <<fed, out>>
  <1>1. /\ pc = "idle" /\ run = "shake" /\ calls # 0
        /\ UNCHANGED <<state, ctx, run, fed, out>>
        /\ left' = ctx.shake.outlen
    BY RatesFit DEF Again
  <1>2. Squeezing /\ ctx.shake.pos # 0 /\ ctx.shake.outlen \in 1 .. MaxOut
    BY <1>1 DEF SpongeInv, Returned
  <1>3. pc' = "squeeze"
    BY <1>2 DEF Again, Entry
  <1>4. Squeezing'
    BY <1>1, <1>2 DEF Squeezing, Spread, Rate
  <1> QED
    BY <1>1, <1>2, <1>3, <1>4 DEF SpongeInv, Shapes, Returned

\* All of the first block is absorbed, and the rest follows.
LEMMA RestStep ==
  ASSUME SpongeInv, Rest
  PROVE  SpongeInv' /\ UNCHANGED <<fed, out>>
  <1>1. /\ pc = "prefix" /\ ctx.shake.in = <<>> /\ pc' = "absorb" /\ left' = 1
        /\ UNCHANGED <<state, run, fed, out>>
        /\ ctx' = [ctx EXCEPT !.shake =
             [rate |-> Rate256, pos |-> 0, outlen |-> 1,
              in |-> SubSeq(fed.bytes, Rate256 + 1, Len(fed.bytes))]]
    BY DEF Rest, Entry, Prefix
  <1>2. run = "shake" /\ Rate = Rate256 /\ Rate256 <= Len(fed.bytes) /\ fed \in Messages /\ Shapes
    BY <1>1 DEF SpongeInv
  <1>3. PICK b, p : Absorbing(b, p, Rate256)
    BY <1>1 DEF SpongeInv
  <1>4. PICK n \in 0 .. MaxIn : fed.bytes = Slice(0, n)
    BY <1>2, MessageKnown
  <1>5. n \in Nat /\ Len(fed.bytes) = n /\ Rate256 \in Nat \ {0} /\ Rate256 <= n /\ MaxOut \in Nat \ {0}
    <2>1. n \in Nat /\ Rate256 \in Nat \ {0} /\ MaxOut \in Nat \ {0}
      BY RatesFit DEF Rates
    <2> QED
      BY <1>2, <1>4, <2>1, WholeLen
  <1>6. b = 1 /\ p = 0
    <2> DEFINE r == Rate256
               a == b * r
    <2>1. /\ b \in Nat /\ p \in 0 .. r - 1 /\ a + p <= r /\ Slice(a + p, r) = <<>>
      BY <1>1, <1>2, <1>3 DEF Absorbing
    <2>2. a \in Nat
      BY <1>5, <2>1
    <2>3. a + p = r
      <3> DEFINE x == a + p
      <3>1. x \in Nat /\ x <= r /\ Slice(x, r) = <<>>
        BY <2>1, <2>2
      <3> HIDE DEF x
      <3>2. x = r
        BY <1>5, <3>1, SliceLen
      <3> QED
        BY <3>2 DEF x
    <2>4. CASE b = 0
      <3>1. a = 0
        BY <1>5, <2>4
      <3> HIDE DEF a
      <3> QED
        BY <1>5, <2>1, <2>3, <3>1
    <2>5. CASE b > 1
      <3>1. 1 * r + r <= b * r
        BY <1>5, <2>1, <2>5, ProductGrows
      <3>2. 1 * r = r
        BY <1>5
      <3>3. r + r <= a
        BY <3>1, <3>2
      <3> HIDE DEF a
      <3> QED
        BY <1>5, <2>1, <2>2, <2>3, <3>3
    <2>6. CASE b = 1
      <3>1. a = r
        BY <1>5, <2>6
      <3> HIDE DEF a
      <3> QED
        BY <1>5, <2>1, <2>3, <2>6, <3>1
    <2> QED
      BY <2>1, <2>4, <2>5, <2>6
  <1>7. SubSeq(fed.bytes, Rate256 + 1, Len(fed.bytes)) = Slice(Rate256, n)
    <2>1. Cuts(0, n, Rate256, n)
      BY <1>5, SubSlice
    <2>2. SubSeq(Slice(0, n), Rate256 + 1, n) = Slice(0 + Rate256, 0 + n)
      BY <2>1 DEF Cuts
    <2>3. 0 + Rate256 = Rate256 /\ 0 + n = n
      BY <1>5
    <2> QED
      BY <1>4, <1>5, <2>2, <2>3
  <1>8. /\ Shapes' /\ ctx'[run'].rate = Rate256 /\ ctx'[run'].pos = 0
        /\ ctx'[run'].in = Slice(Rate256, n) /\ ctx'.shake.outlen = 1
    BY <1>1, <1>2, <1>7 DEF Shapes, IsContext
  <1>9. Absorbing(1, 0, n)'
    <2>1. Rate' = Rate256
      BY <1>1, <1>2 DEF Rate
    <2>2. state' = Absorbed(1, 0)'
      <3>1. state = Absorbed(1, 0)
        BY <1>3, <1>6 DEF Absorbing
      <3> QED
        BY <1>1, <3>1 DEF Absorbed, Full, Begun, Rate
    <2>3. 1 * Rate256 + 0 = Rate256 /\ 0 \in 0 .. Rate256 - 1 /\ 1 \in Nat
      BY <1>5
    <2> QED
      BY <1>5, <1>8, <2>1, <2>2, <2>3 DEF Absorbing
  <1>10. \E b1, p1 : Absorbing(b1, p1, Len(fed.bytes))'
    BY <1>1, <1>5, <1>9
  <1> QED
    BY <1>1, <1>2, <1>5, <1>8, <1>10 DEF SpongeInv, Returned

LEMMA AbsorbStep ==
  ASSUME SpongeInv, Absorb
  PROVE  SpongeInv' /\ UNCHANGED <<fed, out>>
  <1>1. /\ pc \in {"prefix", "absorb"} /\ fed \in Messages /\ run = fed.by /\ Shapes
        /\ run \in DOMAIN ctx /\ Rate \in Rates
    <2>1. pc \in {"prefix", "absorb"} /\ fed \in Messages /\ run = fed.by /\ Shapes
      BY DEF SpongeInv, Absorb
    <2> QED
      BY <2>1, MessageKnown DEF Shapes
  <1>2. Len(fed.bytes) \in Nat /\ Rate256 \in Nat
    <2>1. PICK n \in 0 .. MaxIn : fed.bytes = Slice(0, n)
      BY <1>1, MessageKnown
    <2>2. n \in Nat /\ Rate256 \in Nat
      BY RatesFit DEF Rates
    <2> QED
      BY <2>1, <2>2, WholeLen
  <1>3. ASSUME NEW e \in Nat, NEW b, NEW p, Absorbing(b, p, e)
        PROVE  /\ Shapes' /\ \E b1, p1 : Absorbing(b1, p1, e)'
               /\ UNCHANGED <<run, pc, left, calls, fed, out>>
               /\ \A c \in DOMAIN ctx : ctx'[c].outlen = ctx[c].outlen
    BY <1>1, <1>3, AbsorbTurn
  <1>4. CASE pc = "prefix"
    <2>1. PICK b, p : Absorbing(b, p, Rate256)
      BY <1>4 DEF SpongeInv
    <2>2. /\ Shapes' /\ \E b1, p1 : Absorbing(b1, p1, Rate256)'
          /\ UNCHANGED <<run, pc, left, calls, fed, out>>
      BY <1>2, <1>3, <2>1
    <2> QED
      BY <1>4, <2>2 DEF SpongeInv, Returned, Rate
  <1>5. CASE pc = "absorb"
    <2>1. PICK b, p : Absorbing(b, p, Len(fed.bytes))
      BY <1>5 DEF SpongeInv
    <2> DEFINE n == Len(fed.bytes)
    <2>2. PICK e : e = n
      OBVIOUS
    <2>3. /\ Shapes' /\ \E b1, p1 : Absorbing(b1, p1, e)'
          /\ UNCHANGED <<run, pc, left, calls, fed, out>>
          /\ \A c \in DOMAIN ctx : ctx'[c].outlen = ctx[c].outlen
      BY <1>2, <1>3, <2>1, <2>2
    <2>4. \E b1, p1 : Absorbing(b1, p1, Len(fed.bytes))'
      BY <2>2, <2>3
    <2>5. ctx'.shake.outlen = ctx.shake.outlen
      BY <1>1, <2>3 DEF Shapes
    <2> QED
      BY <1>5, <2>3, <2>4, <2>5 DEF SpongeInv, Returned, Rate
  <1> QED
    BY <1>1, <1>4, <1>5

LEMMA FinalizeStep ==
  ASSUME SpongeInv, Finalize
  PROVE  SpongeInv' /\ UNCHANGED <<fed, out>>
  <1>1. /\ pc = "absorb" /\ ctx[run].in = <<>> /\ pc' = "squeeze"
        /\ state' = Finalized(state, run)
        /\ ctx' = IF run = "shake" THEN [ctx EXCEPT !.shake.pos = 0] ELSE ctx
        /\ UNCHANGED <<run, left, calls, fed, out>>
    BY DEF Finalize
  <1>2. fed \in Messages /\ run = fed.by /\ Shapes /\ out = <<>> /\ left \in 1 .. MaxOut
    BY <1>1 DEF SpongeInv
  <1>3. PICK b, p : Absorbing(b, p, Len(fed.bytes))
    BY <1>1 DEF SpongeInv
  <1>4. PICK n \in 0 .. MaxIn : fed.bytes = Slice(0, n)
    BY <1>2, MessageKnown
  <1>5. n \in Nat /\ Len(fed.bytes) = n
    <2>1. n \in Nat
      BY RatesFit
    <2> QED
      BY <1>4, <2>1, WholeLen
  <1>6. state' = Spread(0)
    <2>1. Finalized(state, run) = [past |-> Blocks(fed), now |-> Blank]
      BY <1>1, <1>2, <1>3, <1>4, <1>5, FinalizedBlocks
    <2>2. 0 \in Nat
      OBVIOUS
    <2>3. Spread(0) = [past |-> Blocks(fed), now |-> Blank]
      BY <1>2, <2>2, SpreadMore
    <2> QED
      BY <1>1, <2>1, <2>3
  <1>7. state' = Spread(0)' /\ Rate' = Rate
    BY <1>1, <1>6 DEF Spread, Rate
  <1>8. Shapes' /\ (run = "shake" => ctx'.shake.outlen = ctx.shake.outlen)
    BY <1>1, <1>2 DEF Shapes, IsContext
  <1>9. ASSUME run = "shake" PROVE Squeezing'
    <2>1. ctx'.shake.pos = 0 /\ ctx'.shake.rate = ctx.shake.rate /\ ctx.shake.rate = Rate
      BY <1>1, <1>2, <1>3, <1>9 DEF Shapes, IsContext, Absorbing
    <2>2. Rate \in Nat \ {0}
      <3>1. Rate \in Rates
        BY <1>2, MessageKnown
      <3> QED
        BY <3>1, RatesFit
    <2>3. 0 \in 0 .. Rate /\ 0 = 0 * Rate + 0 /\ 0 \in Nat
      BY <2>2
    <2>4. Len(out') = 0
      BY <1>1, <1>2
    <2>5. /\ state' = Spread(0)' /\ ctx'.shake.rate = Rate' /\ ctx'.shake.pos \in 0 .. Rate'
          /\ Len(out') = 0 * Rate' + ctx'.shake.pos
      BY <1>7, <2>1, <2>3, <2>4
    <2> QED
      BY <2>3, <2>5 DEF Squeezing
  <1> QED
    BY <1>1, <1>2, <1>7, <1>8, <1>9 DEF SpongeInv, Returned

\* A piece read from the state at p continues the stream.
LEMMA PieceIsStream ==
  ASSUME fed \in Messages, NEW n \in Nat, NEW p \in Nat, NEW m \in Nat, p + m <= Rate,
         out \in Seq(AnyByte), Len(out) = n * Rate + p,
         out' = out \o [i \in 1 .. m |-> Out(Spread(n), p + i - 1)], UNCHANGED fed
  PROVE  /\ Stream!Read(m) /\ out' \in Seq(AnyByte) /\ Len(out') = n * Rate + (p + m)
  <1> DEFINE piece == [i \in 1 .. m |-> Out(Spread(n), p + i - 1)]
             base == n * Rate
  <1>1. Rate \in Nat \ {0}
    <2>1. Rate \in Rates
      BY MessageKnown
    <2> QED
      BY <2>1, RatesFit
  <1>2. base \in Nat
    BY <1>1
  <1>3. ASSUME NEW i \in 1 .. m
        PROVE  /\ Out(Spread(n), p + i - 1) = StreamByte(fed, Len(out) + i - 1)
               /\ StreamByte(fed, Len(out) + i - 1) \in AnyByte
    <2> DEFINE q == p + i - 1
               at == Len(out) + i - 1
    <2>1. q \in 0 .. Rate - 1 /\ at = base + q /\ at \in Nat
      <3> HIDE DEF base
      <3>1. Len(out) = base + p
        BY DEF base
      <3> QED
        BY <1>1, <1>2, <3>1
    <2> HIDE DEF q, at
    <2>2. Out(Spread(n), q) = StreamByte(fed, at)
      BY <2>1, OutIsStream
    <2>3. StreamByte(fed, at) \in AnyByte
      BY <2>1 DEF AnyByte
    <2> QED
      BY <2>2, <2>3 DEF q, at
  <1>4. piece = [i \in 1 .. m |-> StreamByte(fed, Len(out) + i - 1)]
    BY <1>3
  <1>5. piece \in Seq(AnyByte) /\ Len(piece) = m
    <2>1. \A i \in 1 .. m : piece[i] \in AnyByte
      BY <1>3
    <2>2. piece = [i \in 1 .. m |-> piece[i]]
      OBVIOUS
    <2> HIDE DEF piece
    <2> QED
      BY ONLY <2>1, <2>2, m \in Nat
  <1> HIDE DEF piece
  <1>6. out' = out \o piece
    BY DEF piece
  <1>7. out' \in Seq(AnyByte) /\ Len(out') = Len(out) + m
    <2>1. out \in Seq(AnyByte)
      OBVIOUS
    <2>2. out \o piece \in Seq(AnyByte) /\ Len(out \o piece) = Len(out) + Len(piece)
      BY ONLY <1>5, <2>1
    <2> QED
      BY <1>5, <1>6, <2>2
  <1>8. Len(out') = base + (p + m)
    <2>1. Len(out) = base + p
      OBVIOUS
    <2> HIDE DEF base
    <2> QED
      BY ONLY <1>2, <1>7, <2>1, p \in Nat, m \in Nat
  <1>9. Stream!Read(m)
    BY <1>4, <1>6 DEF Stream!Read
  <1> QED
    BY <1>7, <1>8, <1>9

LEMMA SqueezeHashStep ==
  ASSUME SpongeInv, SqueezeHash
  PROVE  SpongeInv' /\ \E m \in 1 .. MaxOut : Stream!Read(m)
  <1>1. /\ pc = "squeeze" /\ run = "sha3" /\ pc' = "idle" /\ UNCHANGED <<state, ctx, run, calls, fed>>
        /\ out' = out \o [i \in 1 .. left |-> Out(state, i - 1)]
    BY DEF SqueezeHash
  <1>2. /\ left \in 1 .. MaxOut /\ left <= Rate /\ out = <<>> /\ state = Spread(0)
        /\ fed \in Messages /\ out \in Seq(AnyByte)
    BY <1>1 DEF SpongeInv
  <1>3. Rate \in Nat \ {0} /\ MaxOut \in Nat
    <2>1. Rate \in Rates
      BY <1>2, MessageKnown
    <2> QED
      BY <2>1, RatesFit
  <1>4. left \in Nat /\ 0 + left <= Rate /\ 0 \in Nat
    BY <1>2, <1>3
  <1>5. Len(out) = 0 * Rate + 0
    <2>1. 0 * Rate + 0 = 0
      BY <1>3
    <2> QED
      BY <1>2, <2>1
  <1>6. out' = out \o [i \in 1 .. left |-> Out(Spread(0), 0 + i - 1)]
    <2>1. [i \in 1 .. left |-> Out(state, i - 1)] = [i \in 1 .. left |-> Out(Spread(0), 0 + i - 1)]
      <3>1. \A i \in 1 .. left : 0 + i - 1 = i - 1
        OBVIOUS
      <3> QED
        BY <1>2, <3>1
    <2> QED
      BY <1>1, <2>1
  <1>7. Stream!Read(left) /\ out' \in Seq(AnyByte)
    BY <1>1, <1>2, <1>4, <1>5, <1>6, PieceIsStream
  <1> QED
    BY <1>1, <1>2, <1>7 DEF SpongeInv, Shapes, Returned

LEMMA SqueezeStep ==
  ASSUME SpongeInv, Squeeze
  PROVE  SpongeInv' /\ \E m \in 1 .. MaxOut : Stream!Read(m)
  <1> DEFINE s == IF Exhausted THEN Permute(state) ELSE state
             p == IF Exhausted THEN 0 ELSE ctx.shake.pos
             m == Piece(ctx.shake.rate - p, left)
  <1>1. /\ pc = "squeeze" /\ run = "shake" /\ UNCHANGED <<run, calls, fed>>
        /\ state' = s /\ out' = out \o [i \in 1 .. m |-> Out(s, p + i - 1)]
        /\ ctx' = [ctx EXCEPT !.shake.pos = Advance(p, m)]
        /\ left' = left - m
        /\ pc' = IF left = m THEN "idle" ELSE pc
    BY DEF Squeeze
  <1>2. /\ fed \in Messages /\ run = fed.by /\ Shapes /\ out \in Seq(AnyByte)
        /\ left \in 1 .. MaxOut /\ ctx.shake.outlen \in 1 .. MaxOut
    BY <1>1 DEF SpongeInv
  <1>3. PICK n0 \in Nat : /\ state = Spread(n0) /\ ctx.shake.rate = Rate
                          /\ ctx.shake.pos \in 0 .. Rate
                          /\ Len(out) = n0 * Rate + ctx.shake.pos
    BY <1>1 DEF SpongeInv, Squeezing
  <1>4. Rate \in Nat \ {0} /\ MaxOut \in Nat
    <2>1. Rate \in Rates
      BY <1>2, MessageKnown
    <2> QED
      BY <2>1, RatesFit
  <1> DEFINE n == IF Exhausted THEN n0 + 1 ELSE n0
  <1>5. n \in Nat /\ s = Spread(n) /\ p \in 0 .. Rate - 1 /\ Len(out) = n * Rate + p
    <2>1. CASE Exhausted
      <3>1. ctx.shake.pos = Rate /\ p = 0 /\ n = n0 + 1
        BY <1>3, <2>1 DEF Exhausted
      <3>2. (n0 + 1) * Rate = n0 * Rate + Rate /\ n0 * Rate \in Nat
        BY <1>4
      <3>3. n * Rate + 0 = n0 * Rate + Rate
        BY <1>4, <3>1, <3>2
      <3>4. s = Spread(n)
        BY <1>2, <1>3, <2>1, <3>1, SpreadMore
      <3> QED
        BY <1>3, <1>4, <3>1, <3>3, <3>4
    <2>2. CASE ~Exhausted
      BY <1>3, <1>4, <2>2 DEF Exhausted
    <2> QED
      BY <2>1, <2>2
  <1>6. m \in Nat \ {0} /\ p + m <= Rate /\ m <= left
    <2> HIDE DEF p
    <2> QED
      BY <1>2, <1>3, <1>4, <1>5 DEF Piece, Lesser
  <1>7. out' = out \o [i \in 1 .. m |-> Out(Spread(n), p + i - 1)]
    BY <1>1, <1>5
  <1> HIDE DEF n, p, m, s
  <1>8. Stream!Read(m) /\ out' \in Seq(AnyByte) /\ Len(out') = n * Rate + (p + m)
    <2>1. PICK n1, p1, m1 : n1 = n /\ p1 = p /\ m1 = m
      OBVIOUS
    <2>2. n1 \in Nat /\ p1 \in Nat /\ m1 \in Nat /\ p1 + m1 <= Rate
      BY <1>4, <1>5, <1>6, <2>1
    <2>3. Len(out) = n1 * Rate + p1
      BY <1>5, <2>1
    <2>4. out' = out \o [i \in 1 .. m1 |-> Out(Spread(n1), p1 + i - 1)]
      BY <1>7, <2>1
    <2>5. Stream!Read(m1) /\ out' \in Seq(AnyByte) /\ Len(out') = n1 * Rate + (p1 + m1)
      BY <1>1, <1>2, <2>2, <2>3, <2>4, PieceIsStream
    <2> QED
      BY <2>1, <2>5
  <1>9. /\ Shapes' /\ ctx'.shake.pos = p + m /\ ctx'.shake.rate = ctx.shake.rate
        /\ ctx'.shake.outlen = ctx.shake.outlen
    BY <1>1, <1>2 DEF Shapes, IsContext, Advance
  <1>10. Squeezing'
    <2>0. PICK n1 \in Nat : n1 = n
      BY <1>5
    <2>1. Rate' = Rate
      BY <1>1 DEF Rate
    <2>2. state' = Spread(n1)'
      <3>1. state' = Spread(n1)
        BY <1>1, <1>5, <2>0
      <3> QED
        BY <1>1, <3>1 DEF Spread
    <2>3. p + m \in 0 .. Rate
      BY <1>4, <1>5, <1>6
    <2>4. Len(out') = n1 * Rate' + ctx'.shake.pos
      BY <1>8, <1>9, <2>0, <2>1
    <2>5. ctx'.shake.rate = Rate' /\ ctx'.shake.pos \in 0 .. Rate'
      BY <1>3, <1>9, <2>1, <2>3
    <2> QED
      BY <2>2, <2>4, <2>5 DEF Squeezing
  <1>11. ctx'.shake.pos # 0
    BY <1>4, <1>5, <1>6, <1>9
  <1>12. m \in 1 .. MaxOut /\ (left # m => left - m \in 1 .. MaxOut)
    BY <1>2, <1>4, <1>6
  <1>13. \E m0 \in 1 .. MaxOut : Stream!Read(m0)
    BY <1>8, <1>12
  <1>14. pc' \in {"idle", "squeeze"} /\ (pc' = "squeeze" => left' \in 1 .. MaxOut)
    BY <1>1, <1>12
  <1> QED
    BY <1>1, <1>2, <1>8, <1>9, <1>10, <1>11, <1>13, <1>14 DEF SpongeInv, Returned

\* The invariant is inductive, and a step is one of the abstract stream's or
\* leaves it alone.
LEMMA SpongeStep ==
  ASSUME SpongeInv, [Next]_vars
  PROVE  SpongeInv' /\ [Stream!Next]_Stream!vars
  <1>1. CASE UNCHANGED vars
    <2>1. UNCHANGED <<state, ctx, run, pc, left, calls, fed, out>>
      BY <1>1 DEF vars
    <2>2. SpongeInv'
      <3>1. Squeezing' = Squeezing /\ Returned' = Returned /\ Shapes' = Shapes /\ Rate' = Rate
        BY <2>1 DEF Squeezing, Spread, Rate, Returned, Shapes
      <3>2. ASSUME NEW b, NEW p, NEW e, Absorbing(b, p, e) PROVE Absorbing(b, p, e)'
        BY <2>1, <3>2 DEF Absorbing, Absorbed, Full, Begun, Rate
      <3>3. (\E b, p : Absorbing(b, p, Rate256)) => \E b, p : Absorbing(b, p, Rate256)'
        BY <3>2
      <3>4. ASSUME NEW b, NEW p, Absorbing(b, p, Len(fed.bytes))
            PROVE  Absorbing(b, p, Len(fed.bytes))'
        BY <2>1, <3>4 DEF Absorbing, Absorbed, Full, Begun, Rate
      <3>5. (\E b, p : Absorbing(b, p, Len(fed.bytes)))
              => \E b, p : Absorbing(b, p, Len(fed.bytes))'
        BY <3>4
      <3>6. Spread(0)' = Spread(0)
        BY <2>1 DEF Spread
      <3> QED
        BY <2>1, <3>1, <3>3, <3>5, <3>6 DEF SpongeInv
    <2> QED
      BY <2>1, <2>2 DEF Stream!vars
  <1>2. ASSUME NEW n \in 0 .. MaxIn, NEW rate \in {Rate256, Rate512}, Hash(rate, n)
        PROVE  SpongeInv' /\ [Stream!Next]_Stream!vars
    BY <1>2, HashStep DEF Stream!Next
  <1>3. ASSUME NEW n \in 0 .. MaxIn, NEW rate \in {Rate128, Rate256}, Expand(rate, n)
        PROVE  SpongeInv' /\ [Stream!Next]_Stream!vars
    BY <1>3, ExpandStep DEF Stream!Next
  <1>4. ASSUME NEW n \in 0 .. MaxIn, Fallback(n)
        PROVE  SpongeInv' /\ [Stream!Next]_Stream!vars
    BY <1>4, FallbackStep DEF Stream!Next
  <1>5. CASE Again
    BY <1>5, AgainStep DEF Stream!vars
  <1>6. CASE Rest
    BY <1>6, RestStep DEF Stream!vars
  <1>7. CASE Absorb
    BY <1>7, AbsorbStep DEF Stream!vars
  <1>8. CASE Finalize
    BY <1>8, FinalizeStep DEF Stream!vars
  <1>9. CASE SqueezeHash
    BY <1>9, SqueezeHashStep DEF Stream!Next
  <1>10. CASE Squeeze
    BY <1>10, SqueezeStep DEF Stream!Next
  <1> QED
    BY <1>1, <1>2, <1>3, <1>4, <1>5, <1>6, <1>7, <1>8, <1>9, <1>10 DEF Next, Call, Step

LEMMA SpongeStarts ==
  ASSUME Init
  PROVE  SpongeInv /\ Stream!Init
  <1>1. /\ fed = [by |-> "shake", rate |-> Rate256, bytes |-> Message(0)] /\ out = <<>>
        /\ run = "shake" /\ pc = "idle" /\ calls = 0
        /\ ctx = [c \in {"shake", "sha3"} |-> NewContext]
    BY DEF Init
  <1>2. fed \in Messages
    <2>1. 0 \in 0 .. MaxIn
      BY RatesFit
    <2> QED
      BY <1>1, <2>1 DEF Messages
  <1>3. Shapes
    BY <1>1 DEF Shapes, IsContext, NewContext
  <1> QED
    BY <1>1, <1>2, <1>3 DEF SpongeInv, Returned, Stream!Init

-----------------------------------------------------------------------------
(* The sponge implements the abstract stream *)

\* ImplementsXof: for every rate and every length of messages and outputs, what
\* the sponge delivers over all calls is the stream of the whole message as the
\* standard pads it, without gap or overlap: absorbed in one part or two, read
\* in any pieces, with pos alone to tell a continued call from a first one, and
\* on a state that served other messages before (ml_kem_shake.c, ml_kem_sha3.c).
THEOREM SpongeImplementsXof == StreamsSpec => ImplementsXof
  <1>1. StreamsInit => SpongeInv /\ Stream!Init
    BY SpongeStarts DEF StreamsInit
  <1>2. SpongeInv /\ [StreamsNext]_streamVars => SpongeInv' /\ [Stream!Next]_Stream!vars
    <2> SUFFICES ASSUME SpongeInv, [StreamsNext]_streamVars
                 PROVE  SpongeInv' /\ [Stream!Next]_Stream!vars
      OBVIOUS
    <2>1. [Next]_vars
      BY DEF StreamsNext, RunSponge, RunSampler, RunEntropy, streamVars
    <2> QED
      BY <2>1, SpongeStep
  <1> QED
    BY <1>1, <1>2, PTL DEF StreamsSpec, ImplementsXof, Stream!Spec
=============================================================================
