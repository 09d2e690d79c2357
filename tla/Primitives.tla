----------------------------- MODULE Primitives -----------------------------
(***************************************************************************)
(* The primitives at the bottom of the library: modular arithmetic          *)
(* (ModArithSweep), the number theoretic transform (Ntt), noise (Cbd), the  *)
(* Keccak permutation (Keccak); and the scheme made of them (KpkeFlow).     *)
(* They share no state; each behaviour runs one of them while the others    *)
(* are idle.                                                                *)
(***************************************************************************)
EXTENDS ModArithSweep

CONSTANTS
  Factors,             \* of Ntt
  CbdCoeffs,           \* of Cbd
  Rounds, Damages,     \* of KpkeFlow
  Levels               \* of Cbd and KpkeFlow

ASSUME PrimitivesAssumption ==
  /\ Factors \subseteq 0 .. 255
  /\ CbdCoeffs \in Nat \ {0} /\ CbdCoeffs % 8 = 0
  /\ Rounds \in Nat \ {0} /\ Damages \in Nat
  /\ Levels \subseteq {2, 3, 4}

VARIABLES
  part,                              \* the primitive that runs
  pc, m, n, f, len, start, i,        \* of Ntt
  eta, stream, iteration, poly,      \* of Cbd
  s, round, step, from0,             \* of Keccak
  k, full, keygen, secret, t,        \* of KpkeFlow
  full_matrix, job, y, u, v_poly,
  decrypt, wire, sent, damaged, results

Transforming == INSTANCE Ntt
Noise == INSTANCE Cbd WITH i <- iteration, ML_KEM_N <- CbdCoeffs
Permutation == INSTANCE Keccak
Scheme == INSTANCE KpkeFlow WITH v <- v_poly

nttVars == <<pc, m, n, f, len, start, i>>
cbdVars == <<eta, stream, iteration, poly>>
keccakVars == <<s, round, step, from0>>
schemeVars == <<k, full, keygen, secret, t, full_matrix, job, y, u, v_poly,
                decrypt, wire, sent, damaged, results>>
primitiveVars == <<part, v, nttVars, cbdVars, keccakVars, schemeVars>>

\* A part that does not run: nothing in its buffers.
NttIdle == pc = "done" /\ m = 0 /\ n = 0 /\ f = <<>> /\ len = 2 /\ start = 0 /\ i = 0
CbdIdle == eta = 2 /\ stream = <<>> /\ iteration = 0 /\ poly = <<>>
KeccakIdle == s = <<>> /\ round = 24 /\ step = "theta" /\ from0 = FALSE
SchemeIdle ==
  /\ k = 2 /\ full = FALSE /\ sent = 0 /\ damaged = 0
  /\ keygen = <<>> /\ secret = <<>> /\ t = <<>> /\ full_matrix = <<>> /\ job = <<>>
  /\ y = <<>> /\ u = <<>> /\ v_poly = <<>> /\ decrypt = <<>> /\ wire = <<>> /\ results = <<>>

PrimitivesInit ==
  /\ Init
  /\ \/ part = "residues" /\ NttIdle /\ CbdIdle /\ KeccakIdle /\ SchemeIdle
     \/ part = "ntt" /\ Transforming!Init /\ CbdIdle /\ KeccakIdle /\ SchemeIdle
     \/ part = "cbd" /\ NttIdle /\ Noise!Init /\ KeccakIdle /\ SchemeIdle
     \/ part = "keccak" /\ NttIdle /\ CbdIdle /\ Permutation!Init /\ SchemeIdle
     \/ part = "scheme" /\ NttIdle /\ CbdIdle /\ KeccakIdle /\ Scheme!Init

RunResidues(A) ==
  part = "residues" /\ A /\ UNCHANGED <<part, nttVars, cbdVars, keccakVars, schemeVars>>
RunNtt(A) == part = "ntt" /\ A /\ UNCHANGED <<part, v, cbdVars, keccakVars, schemeVars>>
RunCbd(A) == part = "cbd" /\ A /\ UNCHANGED <<part, v, nttVars, keccakVars, schemeVars>>
RunKeccak(A) == part = "keccak" /\ A /\ UNCHANGED <<part, v, nttVars, cbdVars, schemeVars>>
RunScheme(A) == part = "scheme" /\ A /\ UNCHANGED <<part, v, nttVars, cbdVars, keccakVars>>

PrimitivesNext ==
  \/ RunResidues(Next) \/ RunNtt(Transforming!Next)
  \/ RunCbd(Noise!Next) \/ RunKeccak(Permutation!Next) \/ RunScheme(Scheme!Next)

PrimitivesSpec == PrimitivesInit /\ [][PrimitivesNext]_primitiveVars

-----------------------------------------------------------------------------
\* Through the transform and back comes the product modulo X^256 + 1, with every
\* coefficient reduced on the way (ml_kem_ntt_main.c).
NegacyclicProduct == part = "ntt" => Transforming!NegacyclicProduct

\* The noise is the difference of bit counts of all bytes squeezed for it
\* (cbd2 and cbd3, ml_kem_core_header.h).
NoiseFromStream == part = "cbd" => Noise!NoiseFromStream

\* Every step mapping of keccak_1600.c is that of the standard, bit by bit, and
\* no bit leaves its lane.
PermutationIsKeccak ==
  /\ [][part = "keccak" => Permutation!StepsFollowStandard]_keccakVars
  /\ [](part = "keccak" => Permutation!TypeOK)

\* The steps together, in their order and number: the permutation of the zero
\* state is the published one (keccak_f1600).
ZeroStateKnown == part = "keccak" => Permutation!KnownAnswer

\* No seed and counter are used for two noise polynomials, in a key and in a
\* ciphertext (ml_kem.c, ml_kem_encaps.c: the counters behind the seed).
NoiseOnce == part = "scheme" => Scheme!NoiseOnce

\* Key generation, encapsulation and decapsulation use the same matrix, the same
\* seeds and clean buffers, so that both sides get the same key, or the receiver
\* the fallback for a changed ciphertext.
AlgorithmsAgree == part = "scheme" => Scheme!AlgorithmsAgree
=============================================================================
