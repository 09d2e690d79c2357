---------------------------- MODULE MatrixSampler ----------------------------
(***************************************************************************)
(* Sampling one polynomial of the matrix A: shake128 fills a buffer,        *)
(* ml_kem_gen_polynomial_for_matrix takes 12-bit candidates from it and     *)
(* keeps those below q, and the caller asks for the next buffer until the   *)
(* polynomial is full (key generation, encapsulation and the full matrix    *)
(* have the same loop).  A candidate is its number in the endless stream of *)
(* SHAKE128; whether it is below q is up to the stream.                     *)
(***************************************************************************)
EXTENDS Integers, Sequences

CONSTANTS
  N,           \* coefficients of a polynomial, 256 in the code
  Triples,     \* ML_KEM_MATRIX_XOF_BYTES / 3, 192 in the code
  MaxRejects   \* bound: candidates of the stream that are not below q

BufBytes == 3 * Triples

\* The cells of the polynomial, and the two that follow it in memory.
Cells == 0 .. N + 1

\* The content of a cell nothing was written to; candidates count from 1.
Unset == 0

VARIABLES
  pc,            \* "squeeze", "sample", "done"
  taken,         \* candidates taken from the stream so far
  poly,          \* poly[c], the candidate in cell c
  poly_counter,  \* the caller's count of coefficients
  j, pos,        \* output index and input position in the current buffer
  suma_bytes,    \* bytes left in it
  need_coeff,    \* coefficients asked for in this call
  ret,           \* what the last call returned
  below_q,       \* history: the candidates below q, in the order of the stream
  rejects        \* candidates not below q so far

vars == <<pc, taken, poly, poly_counter, j, pos, suma_bytes, need_coeff, ret,
          below_q, rejects>>

Init ==
  /\ pc = "squeeze"
  /\ taken = 0
  /\ poly = [c \in Cells |-> Unset]
  /\ poly_counter = 0
  /\ j = 0 /\ pos = 0 /\ suma_bytes = 0 /\ need_coeff = 0
  /\ ret = 0
  /\ below_q = <<>>
  /\ rejects = 0

\* Slip used to test the properties: the second candidate of a triple is not
\* checked against the need.
SecondUnchecked(n) == TRUE

\* The coefficients the sampler is asked for.
Missing == N - poly_counter

\* shake128 fills the buffer, and the sampler is called for what is missing.
Squeeze ==
  /\ pc = "squeeze"
  /\ j' = 0 /\ pos' = 0
  /\ suma_bytes' = BufBytes
  /\ need_coeff' = Missing
  /\ pc' = "sample"
  /\ UNCHANGED <<taken, poly, poly_counter, ret, below_q, rejects>>

\* The cell behind output index n: the caller passes poly + poly_counter.
Target(n) == poly_counter + n

\* A triple gives up to two coefficients: the second only if one is needed.
SecondNeeded(n) == n < need_coeff

BytesLeft == suma_bytes >= 3

\* Candidate d, 1 or 2, of the triple at pos, by its number in the stream.
Candidate(d) == taken + d

Keep(s, ok, c) == IF ok THEN Append(s, c) ELSE s

\* One iteration of the while loop; ok1 and ok2 say whether d1 and d2 are
\* below q.
Sample(ok1, ok2) ==
  LET j1 == IF ok1 THEN j + 1 ELSE j
      take2 == ok2 /\ SecondNeeded(j1)
      first == IF ok1 THEN [poly EXCEPT ![Target(j)] = Candidate(1)] ELSE poly
      bad == (IF ok1 THEN 0 ELSE 1) + (IF ok2 THEN 0 ELSE 1)
  IN  /\ pc = "sample"
      /\ j < need_coeff /\ BytesLeft
      /\ rejects + bad <= MaxRejects
      /\ poly' = IF take2 THEN [first EXCEPT ![Target(j1)] = Candidate(2)]
                          ELSE first
      /\ j' = IF take2 THEN j1 + 1 ELSE j1
      /\ pos' = pos + 3
      /\ suma_bytes' = suma_bytes - 3
      /\ taken' = taken + 2
      /\ below_q' = Keep(Keep(below_q, ok1, Candidate(1)), ok2, Candidate(2))
      /\ rejects' = rejects + bad
      /\ UNCHANGED <<pc, poly_counter, need_coeff, ret>>

\* The loop ends and returns j; the caller adds it up and goes on or leaves.
Return ==
  /\ pc = "sample"
  /\ ~ (j < need_coeff /\ BytesLeft)
  /\ ret' = j
  /\ poly_counter' = poly_counter + j
  /\ pc' = IF poly_counter' >= N THEN "done" ELSE "squeeze"
  /\ UNCHANGED <<taken, poly, j, pos, suma_bytes, need_coeff, below_q, rejects>>

\* The next polynomial of the matrix: the buffer of coefficients is cleared.
NextPolynomial ==
  /\ pc = "done"
  /\ pc' = "squeeze"
  /\ taken' = 0
  /\ poly' = [c \in Cells |-> Unset]
  /\ poly_counter' = 0
  /\ below_q' = <<>>
  /\ rejects' = 0
  /\ suma_bytes' = 0
  /\ UNCHANGED <<j, pos, need_coeff, ret>>

Step == Squeeze \/ (\E ok1, ok2 \in BOOLEAN : Sample(ok1, ok2)) \/ Return

Next == Step \/ NextPolynomial

Spec == Init /\ [][Next]_vars

\* The thread runs on; MaxRejects says that the stream has candidates below q.
FairSpec == Spec /\ WF_vars(Step)

-----------------------------------------------------------------------------
\* Type invariant of the sampler and of the loop around it; no count of bytes or
\* of coefficients goes below zero.
TypeOK ==
  /\ pc \in {"squeeze", "sample", "done"}
  /\ taken \in Nat
  /\ poly \in [Cells -> Nat]
  /\ poly_counter \in 0 .. N
  /\ j \in 0 .. need_coeff
  /\ pos \in 0 .. BufBytes
  /\ suma_bytes \in 0 .. BufBytes
  /\ need_coeff \in 0 .. N
  /\ ret \in 0 .. N
  /\ below_q \in Seq(Nat)
  /\ rejects \in 0 .. MaxRejects

\* How many cells of the polynomial are final.
Filled == IF pc = "sample" THEN poly_counter + j ELSE poly_counter

\* The polynomial is the first candidates of the stream that are below q, in
\* the order of the stream, over all buffer boundaries: what Algorithm 7 of
\* FIPS 203 reads from one endless stream (ml_kem_encaps.c:459-463).
FirstAccepted ==
  /\ Filled <= Len(below_q)
  /\ \A n \in 0 .. Filled - 1 : poly[n] = below_q[n + 1]
  /\ pc = "done" => Filled = N

\* Nothing of the stream is lost before the polynomial is full: no candidate
\* below q, and no byte of a buffer when the next one is filled.
NothingSkipped ==
  /\ Filled < N => Len(below_q) = Filled
  /\ pc = "squeeze" => suma_bytes = 0

\* Nothing is written behind the polynomial, where the next array of the slot
\* begins, and nothing is read behind the XOF buffer, where the sponge's own
\* state begins.
StaysInside ==
  /\ \A c \in Cells : c >= Filled \/ c >= N => poly[c] = Unset
  /\ pc = "sample" => pos <= BufBytes /\ pos + suma_bytes = BufBytes

\* The three together: what a caller may rely on whatever the stream rejects.
SamplesStream == TypeOK /\ FirstAccepted /\ NothingSkipped /\ StaysInside

\* The loop of the callers ends on every stream that does not reject for ever.
PolynomialCompleted == pc # "done" ~> pc = "done"
=============================================================================
