------------------------------ MODULE Streams ------------------------------
(***************************************************************************)
(* The three parts of the library that take bytes in pieces: the sponge     *)
(* with its callers (Shake), rejection sampling from one XOF buffer after   *)
(* the other (MatrixSampler), and the entropy sources (Entropy).  They share *)
(* no state; each behaviour runs one of them and leaves the others at their  *)
(* start.                                                                   *)
(***************************************************************************)
EXTENDS Shake

CONSTANTS
  N, Triples, MaxRejects,    \* of MatrixSampler
  ML_KEM_SEED_BYTES          \* of Entropy

ASSUME StreamsAssumption ==
  /\ {N, Triples, ML_KEM_SEED_BYTES} \subseteq Nat \ {0}
  /\ MaxRejects \in Nat

VARIABLES
  part,                                              \* the part that runs
  sampling, taken, poly, poly_counter, j, pos,       \* of MatrixSampler
  suma_bytes, need_coeff, ret, below_q, rejects,
  port, callback, draw, drawing, offset, buf, err    \* of Entropy

Sampler == INSTANCE MatrixSampler WITH pc <- sampling
Random == INSTANCE Entropy WITH pc <- drawing

samplerVars == <<sampling, taken, poly, poly_counter, j, pos, suma_bytes,
                 need_coeff, ret, below_q, rejects>>
entropyVars == <<port, callback, draw, drawing, offset, buf, err>>
streamVars == <<part, vars, samplerVars, entropyVars>>

StreamsInit ==
  /\ part \in {"sponge", "sampler", "entropy"}
  /\ Init /\ Sampler!Init /\ Random!Init
  /\ part # "sponge" => state = Zero
  /\ part # "entropy" => port = "kernel" /\ ~callback /\ draw = "d"

RunSponge(A) == part = "sponge" /\ A /\ UNCHANGED <<part, samplerVars, entropyVars>>
RunSampler(A) == part = "sampler" /\ A /\ UNCHANGED <<part, vars, entropyVars>>
RunEntropy(A) == part = "entropy" /\ A /\ UNCHANGED <<part, vars, samplerVars>>

StreamsNext == RunSponge(Next) \/ RunSampler(Sampler!Next) \/ RunEntropy(Random!Next)

\* The fairness of the three parts: a thread inside a call runs on, and signals
\* do not interrupt getrandom for ever.
StreamsSpec ==
  /\ StreamsInit /\ [][StreamsNext]_streamVars
  /\ WF_streamVars(RunSponge(Step))
  /\ WF_streamVars(RunSampler(Sampler!Step))
  /\ WF_streamVars(RunEntropy(Random!Callback \/ Random!System \/ Random!Loop \/ Random!Derive))
  /\ SF_streamVars(RunEntropy(Random!Answer \/ Random!Refused))

-----------------------------------------------------------------------------
\* Over all XOF buffers a polynomial of the matrix is the first candidates of
\* the stream that are below q, in order; nothing is skipped, read or written
\* beside the buffers (ml_kem_core_header.h:486-515 and its callers' loops).
SamplesStream == part = "sampler" => Sampler!SamplesStream

\* A seed from which keys or a message are derived is random in every byte,
\* whatever pieces it came in; a draw that failed leaves nothing
\* (ml_kem_userspace_port.c:16-37 and the three places that draw).
SeedsSound == part = "entropy" => Random!SeedsSound

\* Every call ends: no loop of the sponge, of the sampler or of the entropy
\* source runs in place.
EveryCallEnds ==
  /\ EveryCallReturns
  /\ part = "sampler" => Sampler!PolynomialCompleted
  /\ part = "entropy" => Random!Returns
=============================================================================
