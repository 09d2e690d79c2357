------------------------------ MODULE KeyCodec ------------------------------
(***************************************************************************)
(* Keys as bytes.  A key object is made by the generator or by an import,   *)
(* exported into a buffer of the caller, destroyed, imported again from     *)
(* that buffer or from one of unknown origin; a peer unpacks the public     *)
(* key.  Vectors have k * N coefficients of twelve bits that straddle the   *)
(* bytes; a seed or a hash takes one element of a buffer in place of 32.    *)
(***************************************************************************)
EXTENDS ModArith, Sequences, SequencesExt

CONSTANTS
  Levels,     \* security levels
  N,          \* coefficients of a polynomial (256), even
  Coefs,      \* coefficients tried in generated keys
  Fields      \* twelve-bit fields tried in keys of unknown origin

ASSUME CodecAssumption ==
  /\ Levels \subseteq {2, 3, 4}
  /\ N \in Nat \ {0} /\ N % 2 = 0
  /\ Coefs \subseteq Residues
  /\ Fields \subseteq 0 .. 4095

VARIABLES
  key,      \* the key object in memory, or None
  buf,      \* the caller's buffer
  size,     \* the length the caller remembers of it
  written,  \* the object whose export buf holds, or None
  peer      \* what a peer unpacked from the public key of key, or None

vars == <<key, buf, size, written, peer>>

None == [k |-> 0]
Seed == 1                            \* ML_KEM_SEED_BYTES
VectorLen(k) == (3 * k * N) \div 2
PkLen(k) == VectorLen(k) + Seed      \* RES_PUBL_PART_LVL_*
SkLen(k) == VectorLen(k) + PkLen(k) + 2 * Seed     \* LEN_SK_*
U8(x) == x % 256

\* SHA3-256: a fingerprint, larger than any byte.
Fingerprint(bytes) == FoldLeft(LAMBDA h, b : (h * 257 + b) % 1000003, 1, bytes)
Hash(bytes) ==
  LET h == Fingerprint(bytes)
  IN  IF h \in Nat THEN 256 + h ELSE 256

\* Vectors of two values that differ in one place at most.
Vectors(k, values) ==
  {[j \in 1 .. k * N |-> IF j = p THEN a ELSE b] : p \in 1 .. k * N, a, b \in values}

Init ==
  /\ key = None /\ buf = <<>> /\ size = 0 /\ written = None /\ peer = None

-----------------------------------------------------------------------------
(* Packing and unpacking *)

\* Slips used to test the properties: only the first coefficient is looked at;
\* the secret is taken as it is.
ml_kem_validate_pk_First(bytes, k) == bytes[1] + (bytes[2] % 16) * 256 < ML_KEM_Q
unpack_s_vector_Raw(bytes, k) ==
  [j \in 1 .. k * N |-> LET p == 3 * ((j - 1) \div 2)
                        IN  IF j % 2 = 1 THEN U8(bytes[p + 1]) + (U8(bytes[p + 2]) % 16) * 256
                                         ELSE U8(bytes[p + 2]) \div 16 + U8(bytes[p + 3]) * 16]

\* Two coefficients in three bytes.
get_s_vector(v) ==
  [n \in 1 .. (3 * Len(v)) \div 2 |->
     LET p == (n - 1) \div 3
         c0 == v[2 * p + 1]
         c1 == v[2 * p + 2]
     IN  CASE n % 3 = 1 -> U8(c0)
           [] n % 3 = 2 -> U8(c0 \div 256 + c1 * 16)
           [] n % 3 = 0 -> U8(c1 \div 16)]

\* The same for the public vector; the middle byte is assigned, then or-ed to.
convert_to_bytes_format(v) ==
  [n \in 1 .. (3 * Len(v)) \div 2 |->
     LET p == (n - 1) \div 3
     IN  CASE n % 3 = 1 -> U8(v[2 * p + 1])
           [] n % 3 = 2 -> U8(v[2 * p + 1] \div 256) + U8(v[2 * p + 2] * 16)
           [] n % 3 = 0 -> U8(v[2 * p + 2] \div 16)]

\* The j-th twelve-bit field.
Field(bytes, j) ==
  LET p == 3 * ((j - 1) \div 2)
  IN  IF j % 2 = 1 THEN U8(bytes[p + 1]) + (U8(bytes[p + 2]) % 16) * 256
                   ELSE U8(bytes[p + 2]) \div 16 + U8(bytes[p + 3]) * 16

unpack_s_vector(bytes, k) ==
  [j \in 1 .. k * N |-> ml_kem_ct_sub_if_ge(Field(bytes, j))]

ml_kem_unpack_pk_t_u16(bytes, k) ==
  [j \in 1 .. k * N |-> Field(bytes, j)]

ml_kem_validate_pk(bytes, k) ==
  \A j \in 1 .. k * N : Field(bytes, j) < ML_KEM_Q

-----------------------------------------------------------------------------
(* Operations *)

\* ml_kem_create_object: the vectors as bytes, rho behind the public one.
Generate ==
  /\ key = None
  /\ \E k \in Levels : \E s \in Vectors(k, Coefs) : \E t \in {s, Reverse(s)} :
       LET pk == convert_to_bytes_format(t) \o <<7>>
       IN  /\ key' = [k |-> k, secret |-> s, pk |-> pk, rho |-> 7, h |-> Hash(pk), z |-> 9]
           /\ peer' = None
  /\ UNCHANGED <<buf, size, written>>

\* ml_kem_get_sk into a buffer that may be longer than it has to be; the caller
\* keeps the number it returned, or goes by the size of his buffer.
Export ==
  /\ key # None /\ written = None
  /\ \E room \in {SkLen(k) : k \in Levels} :
       /\ room >= SkLen(key.k)
       /\ buf' = get_s_vector(key.secret) \o key.pk \o <<key.h, key.z>>
                   \o [j \in 1 .. room - SkLen(key.k) |-> 0]
       /\ size' \in {SkLen(key.k), room}
  /\ written' = key
  /\ UNCHANGED <<key, peer>>

\* A buffer the library never wrote: any fields, a hash that may be wrong.
Receive ==
  /\ key = None /\ written = None /\ buf = <<>>
  /\ \E k \in Levels : \E s \in Vectors(k, Fields) :
       \E t \in {s, Reverse(s)} \cup Vectors(k, {0}) :
         \E h \in {Hash(get_s_vector(t) \o <<7>>), 256} :
           buf' = get_s_vector(s) \o get_s_vector(t) \o <<7, h, 9>>
  /\ size' = Len(buf')
  /\ UNCHANGED <<key, written, peer>>

LevelOf(len) == {k \in Levels : SkLen(k) = len}

\* What ml_kem_create_object_from_imported_sk reads out of the bytes.
Parsed(bytes, k) ==
  LET pk == SubSeq(bytes, VectorLen(k) + 1, VectorLen(k) + PkLen(k))
      ctr == VectorLen(k) + PkLen(k)
  IN  [k |-> k, secret |-> unpack_s_vector(bytes, k), pk |-> pk, rho |-> pk[PkLen(k)],
       h |-> bytes[ctr + 1], z |-> bytes[ctr + 2]]

Accepted(parsed) ==
  /\ Hash(parsed.pk) = parsed.h
  /\ ml_kem_validate_pk(parsed.pk, parsed.k)

\* The import; a refusal (-EINVAL) leaves nothing behind.
Import ==
  /\ key = None /\ buf # <<>>
  /\ \E k \in LevelOf(size) :
       /\ Accepted(Parsed(buf, k))
       /\ key' = Parsed(buf, k)
  /\ peer' = None
  /\ UNCHANGED <<buf, size, written>>

Refuse ==
  /\ key = None /\ buf # <<>>
  /\ \A k \in LevelOf(size) : ~Accepted(Parsed(buf, k))
  /\ buf' = <<>> /\ size' = 0 /\ written' = None
  /\ UNCHANGED <<key, peer>>

\* ml_kem_get_public_key, and the peer's ml_kem_unpack_pk_t_u16 and seed.
Publish ==
  /\ key # None /\ peer = None
  /\ peer' = [k |-> key.k, t |-> ml_kem_unpack_pk_t_u16(key.pk, key.k),
              rho |-> key.pk[PkLen(key.k)]]
  /\ UNCHANGED <<key, buf, size, written>>

Destroy ==
  /\ key # None
  /\ key' = None /\ peer' = None
  /\ UNCHANGED <<buf, size, written>>

Next == Generate \/ Export \/ Receive \/ Import \/ Refuse \/ Publish \/ Destroy

Spec == Init /\ [][Next]_vars

-----------------------------------------------------------------------------
(* Properties *)

\* The object in memory is canonical: residues, a hash of its own public key,
\* the seed that public key ends with.
TypeOK ==
  key # None =>
    /\ key.k \in Levels
    /\ key.secret \in Seq(Residues) /\ Len(key.secret) = key.k * N
    /\ key.h = Hash(key.pk) /\ key.rho = key.pk[PkLen(key.k)]

\* What the caller may do with bytes. An export can be imported whatever happened
\* in between and gives the same object, and by no length the caller may go by
\* does it give a different one; it is refused only by the length of a buffer
\* longer than the export. The secret taken from a foreign buffer is the one its
\* fields stand for, and exporting it again gives fields that stand for the same.
ImportRestores ==
  [][/\ Import /\ written # None => key' = written
     /\ Refuse => written = None \/ size # SkLen(written.k)
     /\ Import => \A j \in 1 .. key'.k * N :
          /\ key'.secret[j] = Field(buf, j) % ML_KEM_Q
          /\ Field(get_s_vector(key'.secret), j) = key'.secret[j]]_vars

\* A peer who unpacks the public key finds residues, those the packed bytes
\* were made from, with the seed behind them.
PeerSeesKey ==
  peer # None =>
    /\ peer.t \in Seq(Residues)
    /\ convert_to_bytes_format(peer.t) \o <<peer.rho>> = key.pk
=============================================================================
