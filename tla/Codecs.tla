------------------------------- MODULE Codecs -------------------------------
(***************************************************************************)
(* The three parts of the library that turn coefficients into bytes and     *)
(* back: keys (KeyCodec), ciphertexts (CiphertextCodec), and the arithmetic *)
(* of compression (CompressionSweep).  They share no state; each behaviour   *)
(* runs one of them and leaves the others at their start.                   *)
(***************************************************************************)
EXTENDS KeyCodec

CONSTANTS
  ML_KEM_N, CiphertextLevels, Samples    \* of CiphertextCodec

ASSUME CodecsAssumption ==
  /\ ML_KEM_N \in Nat \ {0} /\ ML_KEM_N % 8 = 0
  /\ CiphertextLevels \subseteq {2, 3, 4}
  /\ Samples \subseteq Residues

VARIABLES
  part,                                                  \* the part that runs
  side, k, polys, ciphertext, p, i, pos,                 \* of CiphertextCodec
  cursor, acc, acc_bits, result,
  x, d                                                   \* of CompressionSweep

Ciphertexts == INSTANCE CiphertextCodec WITH Levels <- CiphertextLevels
Compressing == INSTANCE CompressionSweep

ciphertextVars == <<side, k, polys, ciphertext, p, i, pos, cursor, acc, acc_bits, result>>
sweepVars == <<x, d>>
codecVars == <<part, vars, ciphertextVars, sweepVars>>

CodecsInit ==
  /\ part \in {"keys", "ciphertexts", "compression"}
  /\ Init /\ Ciphertexts!Init /\ Compressing!Init
  /\ part # "ciphertexts" => k = 2 /\ polys = [r \in 0 .. k |-> [c \in Ciphertexts!Coeffs |-> 0]]
  /\ part # "compression" => d = 4

RunKeys(A) == part = "keys" /\ A /\ UNCHANGED <<part, ciphertextVars, sweepVars>>
RunCiphertexts(A) == part = "ciphertexts" /\ A /\ UNCHANGED <<part, vars, sweepVars>>
RunCompression(A) == part = "compression" /\ A /\ UNCHANGED <<part, vars, ciphertextVars>>

CodecsNext ==
  \/ RunKeys(Next) \/ RunCiphertexts(Ciphertexts!Next) \/ RunCompression(Compressing!Next)

CodecsSpec == CodecsInit /\ [][CodecsNext]_codecVars

-----------------------------------------------------------------------------
\* A peer unpacks the public key that was packed, and the object stays
\* canonical.
PublicKeyReadable == TypeOK /\ PeerSeesKey

\* What is packed by one loop is what the other unpacks, for every width
\* (ml_kem_encaps.c:601-678 against ml_kem_decrypt.c:120-217).
PackAndUnpackAgree == part = "ciphertexts" => Ciphertexts!PackAndUnpackAgree

\* The reciprocals, masks and thresholds of compression and decoding give the
\* exact values for every coefficient (ml_kem_encaps.c, ml_kem_decrypt.c).
CompressionExact == part = "compression" => Compressing!CompressionExact
=============================================================================
