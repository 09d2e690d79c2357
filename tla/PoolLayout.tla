----------------------------- MODULE PoolLayout -----------------------------
(***************************************************************************)
(* How the large blocks are cut into the buffers of the contexts, and what  *)
(* the wipes cover.  One loop pass per slot: the u16 buffers and the bytes  *)
(* of an encapsulation pool follow a running pointer, the bytes of a        *)
(* decapsulation pool are placed by multiplication.  Offsets and lengths    *)
(* are in elements of the block (u16 or bytes).                             *)
(***************************************************************************)
EXTENDS Integers

CONSTANTS Levels, Counts    \* security levels (the k of ML-KEM), pool sizes

ASSUME LayoutAssumption ==
  /\ Levels \subseteq {2, 3, 4}
  /\ Counts \subseteq 1 .. 128

VARIABLES
  kind,     \* whose memory: a pool's, a context of its own, the key generator's
  k, count,
  i,        \* slots that have their buffers
  next,     \* two_bytes_ptrs / work_mem_two_bytes and work_mem_one_byte
  slices    \* the buffers handed out

layoutVars == <<kind, k, count, i, next, slices>>

ML_KEM_N == 256
MatrixXof == 576                    \* ML_KEM_MATRIX_XOF_BYTES
KeccakState == 200                  \* ML_KEM_KECCAK_STATE_BYTES
Raw == MatrixXof + KeccakState
public_key_msg_len == IF k = 2 THEN 800 ELSE IF k = 3 THEN 1184 ELSE 1568
ciphertext_len == IF k = 2 THEN 768 ELSE IF k = 3 THEN 1088 ELSE 1568

Slice(slot, field, block, at, len) ==
  [slot |-> slot, field |-> field, block |-> block, at |-> at, len |-> len]

\* What is allocated, in elements.
BlockLen(block) ==
  CASE kind = "decaps" /\ block = "u16" -> (4 * k * ML_KEM_N + 4 * ML_KEM_N) * count
    [] kind = "decaps" /\ block = "ct"  -> ciphertext_len * 2 * count
    [] kind = "decaps" /\ block = "pk"  -> public_key_msg_len * count
    [] kind = "decaps" /\ block = "raw" -> Raw * count
    [] kind = "encaps" /\ block = "u16" -> (k * 3 + 2) * ML_KEM_N * count
    [] kind = "encaps" /\ block = "u8"  -> (public_key_msg_len + ciphertext_len + Raw) * count
    [] kind = "alone"  /\ block = "u16" -> ML_KEM_N * (3 * k + 2)
    [] kind = "alone"  /\ block = "ct"  -> ciphertext_len
    [] kind = "alone"  /\ block = "u8"  -> public_key_msg_len + Raw
    [] kind = "temp"   /\ block = "u16" -> ML_KEM_N * (2 * k + 1)
    [] kind = "temp"   /\ block = "raw" -> Raw

LayoutInit ==
  /\ kind \in {"decaps", "encaps", "alone", "temp"}
  /\ k \in Levels
  /\ count \in IF kind \in {"decaps", "encaps"} THEN Counts ELSE {1}
  /\ i = 0
  /\ next = [u16 |-> 0, u8 |-> 0]
  /\ slices = {}

\* Slips used to test the properties: k polynomials of y forgotten; the decrypt
\* context gets the first ciphertext of the next slot; the wipe counts two
\* polynomials too few.
EncapsPolysShort(slot, p) ==
  {Slice(slot, "public_key", "u16", p, k * ML_KEM_N),
   Slice(slot, "u", "u16", p + k * ML_KEM_N, k * ML_KEM_N),
   Slice(slot, "v", "u16", p + 2 * k * ML_KEM_N, ML_KEM_N),
   Slice(slot, "y", "u16", p + (2 * k + 1) * ML_KEM_N, k * ML_KEM_N),
   Slice(slot, "poly", "u16", p + (3 * k) * ML_KEM_N, ML_KEM_N)}
DecapsBytesShifted(slot) ==
  {Slice(slot, "d_ciphertext", "ct", (2 * slot + 2) * ciphertext_len, ciphertext_len),
   Slice(slot, "ciphertext", "ct", (2 * slot + 1) * ciphertext_len, ciphertext_len),
   Slice(slot, "public_key_msg", "pk", slot * public_key_msg_len, public_key_msg_len)}
PolysWipedShort == (2 * k + 1) * ML_KEM_N

\* The five u16 buffers of an encapsulation context, from p on.
EncapsPolys(slot, p) ==
  {Slice(slot, "public_key", "u16", p, k * ML_KEM_N),
   Slice(slot, "u", "u16", p + k * ML_KEM_N, k * ML_KEM_N),
   Slice(slot, "v", "u16", p + 2 * k * ML_KEM_N, ML_KEM_N),
   Slice(slot, "y", "u16", p + (2 * k + 1) * ML_KEM_N, k * ML_KEM_N),
   Slice(slot, "poly", "u16", p + (3 * k + 1) * ML_KEM_N, ML_KEM_N)}

\* The three of a decryption context.
DecryptPolys(slot, p) ==
  {Slice(slot, "d_u", "u16", p, k * ML_KEM_N),
   Slice(slot, "d_v", "u16", p + k * ML_KEM_N, ML_KEM_N),
   Slice(slot, "d_poly", "u16", p + (k + 1) * ML_KEM_N, ML_KEM_N)}

\* The XOF bytes and behind them the sponge state, shared by both hash contexts.
RawBuffers(slot, block, p) ==
  {Slice(slot, "raw_bytes", block, p, MatrixXof),
   Slice(slot, "state", block, p + MatrixXof, KeccakState)}

DecapsBytes(slot) ==
  {Slice(slot, "d_ciphertext", "ct", (2 * slot + 0) * ciphertext_len, ciphertext_len),
   Slice(slot, "ciphertext", "ct", (2 * slot + 1) * ciphertext_len, ciphertext_len),
   Slice(slot, "public_key_msg", "pk", slot * public_key_msg_len, public_key_msg_len)}

\* One pass of the loop in ml_kem_alloc_decaps_pool.
AssignDecapsSlot ==
  /\ kind = "decaps" /\ i < count
  /\ slices' = slices \cup EncapsPolys(i, next.u16)
                      \cup DecryptPolys(i, next.u16 + (3 * k + 2) * ML_KEM_N)
                      \cup DecapsBytes(i) \cup RawBuffers(i, "raw", i * Raw)
  /\ next' = [next EXCEPT !.u16 = @ + (4 * k + 4) * ML_KEM_N]
  /\ i' = i + 1
  /\ UNCHANGED <<kind, k, count>>

\* One pass of both loops in ml_kem_encaps_pool.c.
AssignEncapsSlot ==
  /\ kind = "encaps" /\ i < count
  /\ slices' = slices \cup EncapsPolys(i, next.u16)
       \cup {Slice(i, "public_key_msg", "u8", next.u8, public_key_msg_len),
             Slice(i, "ciphertext", "u8", next.u8 + public_key_msg_len, ciphertext_len)}
       \cup RawBuffers(i, "u8", next.u8 + public_key_msg_len + ciphertext_len)
  /\ next' = [u16 |-> next.u16 + (3 * k + 2) * ML_KEM_N,
              u8  |-> next.u8 + public_key_msg_len + ciphertext_len + Raw]
  /\ i' = i + 1
  /\ UNCHANGED <<kind, k, count>>

\* ml_kem_alloc_encaps: three blocks, used once.
AllocEncaps ==
  /\ kind = "alone" /\ i < count
  /\ slices' = EncapsPolys(0, 0)
       \cup {Slice(0, "ciphertext", "ct", 0, ciphertext_len),
             Slice(0, "public_key_msg", "u8", 0, public_key_msg_len)}
       \cup RawBuffers(0, "u8", public_key_msg_len)
  /\ i' = i + 1
  /\ UNCHANGED <<kind, k, count, next>>

\* ml_kem_temp_alloc: two blocks.
AllocTemp ==
  /\ kind = "temp" /\ i < count
  /\ slices' = {Slice(0, "poly", "u16", 0, ML_KEM_N),
                Slice(0, "t", "u16", ML_KEM_N, k * ML_KEM_N),
                Slice(0, "secret", "u16", ML_KEM_N + k * ML_KEM_N, k * ML_KEM_N)}
               \cup RawBuffers(0, "raw", 0)
  /\ i' = i + 1
  /\ UNCHANGED <<kind, k, count, next>>

LayoutNext == AssignDecapsSlot \/ AssignEncapsSlot \/ AllocEncaps \/ AllocTemp

LayoutSpec == LayoutInit /\ [][LayoutNext]_layoutVars

-----------------------------------------------------------------------------
(* The wipes *)

PolysWiped == (2 * k + 2) * ML_KEM_N

\* Buffers every wipe spares: they hold the key the slot works for.
Kept == {"public_key", "public_key_msg"}

\* From the start of the field, len elements.
WipedFrom(slot, field, len) ==
  {Slice(slot, field, s.block, s.at, len) : s \in {t \in slices : t.slot = slot /\ t.field = field}}

\* ml_kem_wipe_encaps, ml_kem_wipe_decrypt, and the wipe in
\* ml_kem_destroy_temp_struct.
EncapsWiped(slot) ==
  UNION {WipedFrom(slot, "ciphertext", ciphertext_len), WipedFrom(slot, "raw_bytes", Raw),
         WipedFrom(slot, "u", PolysWiped)}

DecryptWiped(slot) ==
  WipedFrom(slot, "d_u", (k + 2) * ML_KEM_N)
    \cup WipedFrom(slot, "d_ciphertext", ciphertext_len)

TempWiped ==
  WipedFrom(0, "poly", (k * 2 + 1) * ML_KEM_N) \cup WipedFrom(0, "raw_bytes", Raw)

Wiped(slot) ==
  IF kind = "temp" THEN TempWiped ELSE EncapsWiped(slot) \cup DecryptWiped(slot)

-----------------------------------------------------------------------------
(* Properties *)

Overlap(s, t) ==
  s.block = t.block /\ s.at < t.at + t.len /\ t.at < s.at + s.len

Covers(s, t) ==
  s.block = t.block /\ s.at <= t.at /\ t.at + t.len <= s.at + s.len

\* No element of a block belongs to two buffers, of one slot or of two: what a
\* thread writes in its slot changes nobody else's data.
SlicesDisjoint ==
  \A s, t \in slices : s # t => ~Overlap(s, t)

\* Every buffer lies inside its block.
SlicesInside ==
  \A s \in slices : 0 <= s.at /\ s.at + s.len <= BlockLen(s.block)

\* A wipe reaches every working buffer of its slot to the last element, spares
\* the key, and touches no buffer of another slot.
WipeExact ==
  \A s \in slices :
    /\ s.field \notin Kept => \E w \in Wiped(s.slot) : Covers(w, s)
    /\ \A slot \in 0 .. i - 1 :
         (s.field \in Kept \/ s.slot # slot) => \A w \in Wiped(slot) : ~Overlap(w, s)

\* The sponge state is read and written as u64 words: it starts at a multiple
\* of 8 bytes in a block the allocator aligned.
StateAligned ==
  \A s \in slices : s.field = "state" => s.at % 8 = 0

\* Every buffer is where it can be used: inside its block, the state aligned.
SlicesFit == SlicesInside /\ StateAligned
=============================================================================
