------------------------------ MODULE KeyObject ------------------------------
(***************************************************************************)
(* How a key object comes and goes: ml_kem_create_object and               *)
(* ml_kem_create_object_from_imported_sk with every allocation and entropy *)
(* request they make, any of which may fail, and ml_kem_destroy_core.      *)
(*                                                                         *)
(* The code jumps to a label that frees what was allocated so far, label   *)
(* falling through to label, and its caller cleans up after it.            *)
(***************************************************************************)
EXTENDS ObjectHeap, Naturals, Sequences

CONSTANTS
  KeyObjects,     \* the key objects
  FULL_MATRIX     \* whether their pools keep the expanded matrix

ASSUME KeyObjectAssumption == KeyObjects \subseteq Objects /\ FULL_MATRIX \in BOOLEAN

\* What the three allocators ask for, in order.
CtxBlocks == <<"ctx", "secret", "public_key_msg">>
TempBlocks == <<"temp", "poly", "raw_bytes">>
PoolBlocks == <<"head_pool", "ml_kem_pool", "encaps", "decrypt", "ciphertexts",
                "public_key_msgs", "pool_raw_bytes", "two_bytes_ptrs">>

PoolBuffers == {"encaps", "decrypt", "ciphertexts", "public_key_msgs",
                "pool_raw_bytes", "two_bytes_ptrs"}
Matrix == IF FULL_MATRIX THEN {"full_matrix"} ELSE {}
Persistent == Range(CtxBlocks) \cup Range(PoolBlocks) \cup Matrix
Blocks == Persistent \cup Range(TempBlocks)

VARIABLES
  pc, n,     \* the step of the routine working on the object, and the next block
  how,       \* whether the object is created or imported
  ok         \* ok[o]: FALSE once a step of the construction failed

vars == <<pc, n, how, ok, holds, fault, spilled>>

Init ==
  /\ pc = [o \in KeyObjects |-> "none"]
  /\ n = [o \in KeyObjects |-> 1]
  /\ how = [o \in KeyObjects |-> "create"]
  /\ ok = [o \in KeyObjects |-> TRUE]
  /\ HeapInit

Goto(o, from, to) == pc[o] = from /\ pc' = [pc EXCEPT ![o] = to]

-----------------------------------------------------------------------------
(* The allocators *)

\* The arguments pass the checks.
Begin(o, h) ==
  /\ Goto(o, "none", "ctx_alloc")
  /\ how' = [how EXCEPT ![o] = h]
  /\ ok' = [ok EXCEPT ![o] = TRUE]
  /\ UNCHANGED <<n, heapVars>>

\* The next block is allocated and zeroed; the last one ends the allocator.
Allocate(o, blocks, from, to) ==
  /\ Goto(o, from, IF n[o] = Len(blocks) THEN to ELSE from)
  /\ n' = [n EXCEPT ![o] = IF @ = Len(blocks) THEN 1 ELSE @ + 1]
  /\ New(o, blocks[n[o]], "nothing")
  /\ UNCHANGED <<how, ok>>

\* Slip used to test the properties: the jump leads one label too far.
FailTooFar(o, blocks, from, to) ==
  /\ Goto(o, from, to)
  /\ ok' = [ok EXCEPT ![o] = FALSE]
  /\ n' = [n EXCEPT ![o] = 1]
  /\ Clear(o, {}, {blocks[i] : i \in 1 .. n[o] - 2})
  /\ UNCHANGED how

\* It is not: the jump to the error label frees the blocks before it.
Fail(o, blocks, from, to) ==
  /\ Goto(o, from, to)
  /\ ok' = [ok EXCEPT ![o] = FALSE]
  /\ n' = [n EXCEPT ![o] = 1]
  /\ Clear(o, {}, {blocks[i] : i \in 1 .. n[o] - 1})
  /\ UNCHANGED how

CtxAlloc(o) ==
  \/ Allocate(o, CtxBlocks, "ctx_alloc", IF how[o] = "create" THEN "temp_alloc" ELSE "unpack")
  \/ Fail(o, CtxBlocks, "ctx_alloc", "none")

TempAlloc(o) ==
  \/ Allocate(o, TempBlocks, "temp_alloc", "seeds")
  \/ Fail(o, TempBlocks, "temp_alloc", "error_exit")

PoolAlloc(o) ==
  \/ Allocate(o, PoolBlocks, "pool_alloc", "bind")
  \/ Fail(o, PoolBlocks, "pool_alloc", "error_exit")

-----------------------------------------------------------------------------
(* Key generation *)

\* ml_kem_generation_entropy draws d and derives the two seeds.
Seeds(o) ==
  /\ \/ /\ Goto(o, "seeds", "keys")
        /\ Store(o, [b \in {"temp", "raw_bytes"} |-> "secret"])
        /\ UNCHANGED ok
     \/ /\ Goto(o, "seeds", "temp_destroy")
        /\ ok' = [ok EXCEPT ![o] = FALSE]
        /\ UNCHANGED heapVars
  /\ UNCHANGED <<n, how>>

\* s and t are sampled in temp and copied to the persistent context.
Keys(o) ==
  /\ Goto(o, "keys", "z")
  /\ Store(o, [b \in {"poly", "raw_bytes", "secret", "ctx", "public_key_msg"} |->
       IF b \in {"ctx", "public_key_msg"} THEN "public" ELSE "secret"])
  /\ UNCHANGED <<n, how, ok>>

\* ml_kem_finally_create_z_and_h_pk lets the entropy source write into the
\* context; a source that fails may have written a part.
FinallyZ(o) ==
  /\ Goto(o, "z", "temp_destroy")
  /\ Store(o, [b \in {"ctx"} |-> "secret"])
  /\ \E success \in BOOLEAN : ok' = [ok EXCEPT ![o] = success]
  /\ UNCHANGED <<n, how>>

\* Slip used to test the properties: the seeds are not wiped.
TempDestroyUnwiped(o) ==
  /\ Goto(o, "temp_destroy", IF ok[o] THEN "pool_alloc" ELSE "error_exit")
  /\ Clear(o, {"raw_bytes", "poly"}, Range(TempBlocks))
  /\ UNCHANGED <<n, how, ok>>

\* ml_kem_destroy_temp_struct, on success as on failure.
TempDestroy(o) ==
  /\ Goto(o, "temp_destroy", IF ok[o] THEN "pool_alloc" ELSE "error_exit")
  /\ Clear(o, Range(TempBlocks), Range(TempBlocks))
  /\ UNCHANGED <<n, how, ok>>

-----------------------------------------------------------------------------
(* Import *)

Unpack(o) ==
  /\ Goto(o, "unpack", "check")
  /\ Store(o, [b \in Range(CtxBlocks) |->
       IF b = "public_key_msg" THEN "public" ELSE "secret"])
  /\ UNCHANGED <<n, how, ok>>

\* The stored hash must be that of the key, whose coefficients must be below q.
Check(o) ==
  /\ \/ Goto(o, "check", "pool_alloc") /\ UNCHANGED ok
     \/ Goto(o, "check", "error_exit") /\ ok' = [ok EXCEPT ![o] = FALSE]
  /\ UNCHANGED <<n, how, heapVars>>

-----------------------------------------------------------------------------
(* The pool, and the end *)

\* The head, the descriptors and the buffers of the slots are filled; with
\* FULL_MATRIX one more block is asked for.
Bind(o) ==
  /\ Goto(o, "bind", IF FULL_MATRIX THEN "matrix" ELSE "ready")
  /\ Store(o, [b \in Range(PoolBlocks) \ {"ciphertexts", "pool_raw_bytes"} |-> "public"])
  /\ UNCHANGED <<n, how, ok>>

FullMatrix(o) ==
  /\ \/ /\ Goto(o, "matrix", "ready")
        /\ New(o, "full_matrix", "public")
        /\ UNCHANGED ok
     \/ /\ Goto(o, "matrix", "error_exit")
        /\ ok' = [ok EXCEPT ![o] = FALSE]
        /\ Clear(o, {}, Range(PoolBlocks))
  /\ UNCHANGED <<n, how>>

\* ml_kem_destroy_ctx_struct frees the packed key as it is.
CtxDestroy(o) == Clear(o, {"secret", "ctx"}, Range(CtxBlocks))

ErrorExit(o) ==
  /\ Goto(o, "error_exit", "none")
  /\ CtxDestroy(o)
  /\ UNCHANGED <<n, how, ok>>

\* ml_kem_destroy_core reads the pointer to the keys out of the first slot.
Destroy(o) ==
  /\ Goto(o, "ready", "pool_destroy")
  /\ Read(o, {"head_pool", "ml_kem_pool", "decrypt"})
  /\ UNCHANGED <<n, how, ok>>

PoolDestroy(o) ==
  /\ Goto(o, "pool_destroy", "keys_destroy")
  /\ Clear(o, PoolBuffers, Range(PoolBlocks) \cup Matrix)
  /\ UNCHANGED <<n, how, ok>>

KeysDestroy(o) ==
  /\ Goto(o, "keys_destroy", "none")
  /\ CtxDestroy(o)
  /\ UNCHANGED <<n, how, ok>>

Step(o) ==
  \/ Begin(o, "create") \/ Begin(o, "import")
  \/ CtxAlloc(o) \/ TempAlloc(o) \/ PoolAlloc(o)
  \/ Seeds(o) \/ Keys(o) \/ FinallyZ(o) \/ TempDestroy(o)
  \/ Unpack(o) \/ Check(o)
  \/ Bind(o) \/ FullMatrix(o) \/ ErrorExit(o)
  \/ Destroy(o) \/ PoolDestroy(o) \/ KeysDestroy(o)

Next == \E o \in KeyObjects : Step(o)

Spec == Init /\ [][Next]_vars

-----------------------------------------------------------------------------
(* Properties *)

TypeOK ==
  /\ pc \in [KeyObjects -> {"none", "ctx_alloc", "temp_alloc", "pool_alloc", "seeds",
                         "keys", "z", "temp_destroy", "unpack", "check", "bind",
                         "matrix", "ready", "error_exit", "pool_destroy", "keys_destroy"}]
  /\ n \in [KeyObjects -> 1 .. Len(PoolBlocks)]
  /\ how \in [KeyObjects -> {"create", "import"}]
  /\ ok \in [KeyObjects -> BOOLEAN]
  /\ HeapType(KeyObjects, Blocks)

\* Whichever request fails, nothing of the object stays allocated; a finished
\* object owns its keys and its pool and no temporary memory, and its secrets
\* are in its keys only.
KeysComplete ==
  \A o \in KeyObjects :
    /\ pc[o] = "none" => Live(o) = {}
    /\ pc[o] = "ready" =>
         /\ Live(o) = Persistent
         /\ {b \in Live(o) : holds[o][b] = "secret"} = {"ctx", "secret"}

\* The comment of ml_kem_pool_destroy (ml_kem_decaps_pool.c:311-318): "Destroy
\* the entire pool and securely wipe all associated memory", "slot descriptors
\* and the pool head itself" included.
DestroyWipesAll ==
  [][\A o \in KeyObjects : PoolDestroy(o) => spilled' = spilled]_vars
=============================================================================
