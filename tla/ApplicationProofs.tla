------------------------- MODULE ApplicationProofs --------------------------
(***************************************************************************)
(* Proofs about the memory of the application, for every number of key     *)
(* objects and encapsulation pools and for every number of slots.          *)
(* Application: whichever allocation or entropy request fails, no block is *)
(* lost, none is used while it is not allocated, and nothing secret is in  *)
(* a block that is freed.  PoolLayout: the slices the pools' blocks are    *)
(* cut into are disjoint, inside their blocks and aligned.                 *)
(***************************************************************************)
EXTENDS Application, PoolLayout, TLAPS

-----------------------------------------------------------------------------
(* The operations of the heap *)

\* The memory of the other objects is left alone.
HeapFrame(o) ==
  /\ DOMAIN holds' = Objects
  /\ \A p \in Objects \ {o} : holds'[p] = holds[p]

LEMMA NewBlock ==
  ASSUME DOMAIN holds = Objects, NEW o \in Objects, NEW b, NEW content,
         New(o, b, content)
  PROVE  /\ HeapFrame(o)
         /\ holds'[o] = [c \in Live(o) \cup {b} |-> IF c = b THEN content ELSE holds[o][c]]
         /\ fault' = fault /\ spilled' = spilled
  BY DEF New, HeapFrame, Live

\* A store into allocated blocks is no fault.
LEMMA StoreBlocks ==
  ASSUME DOMAIN holds = Objects, NEW o \in Objects, NEW content, Store(o, content),
         DOMAIN content \subseteq Live(o)
  PROVE  /\ HeapFrame(o)
         /\ holds'[o] = [b \in Live(o) |->
              IF b \in DOMAIN content THEN content[b] ELSE holds[o][b]]
         /\ fault' = fault /\ spilled' = spilled
  BY DEF Store, HeapFrame, Live, Missing

\* Wiping and freeing allocated blocks is no fault, and what it leaves behind
\* is recorded.
Cleared(o, wiped, freed) ==
  /\ HeapFrame(o)
  /\ holds'[o] = [b \in Live(o) \ freed |->
       IF b \in wiped THEN "nothing" ELSE holds[o][b]]
  /\ fault' = fault
  /\ \A w \in spilled' \ spilled :
       \E b \in freed \ wiped :
         w = <<o, b, holds[o][b]>> /\ holds[o][b] # "nothing"

LEMMA ClearBlocks ==
  ASSUME DOMAIN holds = Objects, NEW o \in Objects, NEW wiped, NEW freed,
         Clear(o, wiped, freed), wiped \subseteq Live(o), freed \subseteq Live(o)
  PROVE  Cleared(o, wiped, freed)
  BY DEF Clear, HeapFrame, Live, Missing, Cleared

-----------------------------------------------------------------------------
(* The blocks the allocators ask for *)

\* The first num - 1 of them.
Before(blocks, num) == {blocks[e] : e \in 1 .. num - 1}

LEMMA NextIndex ==
  \A m \in {3, 8} : \A num \in 1 .. m : num # m => num + 1 \in 1 .. 8
  OBVIOUS

LEMMA BeforeNext ==
  ASSUME NEW blocks, DOMAIN blocks = 1 .. Len(blocks), Len(blocks) \in Nat \ {0},
         NEW num \in 1 .. Len(blocks)
  PROVE  /\ Before(blocks, 1) = {}
         /\ Before(blocks, num) \subseteq Range(blocks)
         /\ blocks[num] \in Range(blocks)
         /\ Before(blocks, num + 1) = Before(blocks, num) \cup {blocks[num]}
         /\ Before(blocks, Len(blocks) + 1) = Range(blocks)
  BY DEF Before, Range

LEMMA Tuples ==
  /\ DOMAIN CtxBlocks = 1 .. 3 /\ Len(CtxBlocks) = 3
  /\ Range(CtxBlocks) = {"ctx", "secret", "public_key_msg"}
  /\ DOMAIN TempBlocks = 1 .. 3 /\ Len(TempBlocks) = 3
  /\ Range(TempBlocks) = {"temp", "poly", "raw_bytes"}
  /\ DOMAIN PoolBlocks = 1 .. 8 /\ Len(PoolBlocks) = 8
  /\ Range(PoolBlocks) = {"head_pool", "ml_kem_pool"} \cup PoolBuffers
  <1>1. /\ DOMAIN CtxBlocks = 1 .. 3 /\ Len(CtxBlocks) = 3
        /\ Range(CtxBlocks) = {"ctx", "secret", "public_key_msg"}
    BY DEF CtxBlocks, Range
  <1>2. /\ DOMAIN TempBlocks = 1 .. 3 /\ Len(TempBlocks) = 3
        /\ Range(TempBlocks) = {"temp", "poly", "raw_bytes"}
    BY DEF TempBlocks, Range
  <1>3. DOMAIN PoolBlocks = 1 .. 8 /\ Len(PoolBlocks) = 8
    BY DEF PoolBlocks
  <1>4. Range(PoolBlocks) = {"head_pool", "ml_kem_pool"} \cup PoolBuffers
    BY <1>3 DEF PoolBlocks, PoolBuffers, Range
  <1> QED
    BY <1>1, <1>2, <1>3, <1>4

\* No block has two parts, and the matrix is one of its own.
LEMMA BlocksApart ==
  /\ Range(CtxBlocks) \cap Range(TempBlocks) = {}
  /\ Range(CtxBlocks) \cap Range(PoolBlocks) = {}
  /\ Range(TempBlocks) \cap Range(PoolBlocks) = {}
  /\ "full_matrix" \notin Range(CtxBlocks) \cup Range(TempBlocks) \cup Range(PoolBlocks)
  /\ Matrix \subseteq {"full_matrix"}
  BY Tuples DEF PoolBuffers, Matrix

-----------------------------------------------------------------------------
(* Key objects *)

Ctx == Range(CtxBlocks)
Temp == Range(TempBlocks)
PoolMem == Range(PoolBlocks)

\* The key material of a finished object is in its blocks for it.
KeysHeld(o) == holds[o]["ctx"] = "secret" /\ holds[o]["secret"] = "secret"

\* Which blocks object o has at its step, and where secrets can be.
KeyStage(o) ==
  /\ pc[o] \in {"ctx_alloc", "temp_alloc"} => n[o] \in 1 .. 3
  /\ pc[o] \notin {"ctx_alloc", "temp_alloc", "pool_alloc"} => n[o] = 1
  /\ pc[o] = "none" => Live(o) = {}
  /\ pc[o] = "ctx_alloc" => Live(o) = Before(CtxBlocks, n[o])
  /\ pc[o] = "temp_alloc" => Live(o) = Ctx \cup Before(TempBlocks, n[o])
  /\ pc[o] \in {"seeds", "keys", "z", "temp_destroy"} => Live(o) = Ctx \cup Temp
  /\ pc[o] \in {"unpack", "check", "error_exit", "keys_destroy"} => Live(o) = Ctx
  /\ pc[o] = "pool_alloc" => Live(o) = Ctx \cup Before(PoolBlocks, n[o])
  /\ pc[o] \in {"bind", "matrix"} => Live(o) = Ctx \cup PoolMem
  /\ pc[o] \in {"ready", "pool_destroy"} => Live(o) = Persistent
  /\ pc[o] = "matrix" => FULL_MATRIX
  /\ \A b \in Live(o) : holds[o][b] = "secret" => b \in {"ctx", "secret"} \cup Temp
  /\ pc[o] = "temp_alloc" => \A b \in Live(o) : holds[o][b] # "secret"
  /\ pc[o] = "ctx_alloc" => \A b \in Live(o) : holds[o][b] # "secret"
  /\ pc[o] = "z" => holds[o]["secret"] = "secret"
  /\ pc[o] = "temp_destroy" /\ ok[o] => KeysHeld(o)
  /\ pc[o] \in {"check", "pool_alloc", "bind", "matrix", "ready"} => KeysHeld(o)

KeyInv == TypeOK /\ \A o \in KeyObjects : KeyStage(o)

\* A step of key object o: the other objects are left alone, no access goes
\* wrong and no secret is left behind.
KeyStepGood(o) ==
  /\ KeyInv'
  /\ HeapFrame(o)
  /\ fault' = fault
  /\ \A w \in spilled' \ spilled : w[1] = o /\ w[3] # "secret"

Contents == {"nothing", "public", "secret"}

\* The variables of o change, and o comes to step to.
Moves(o, to) ==
  /\ pc' = [pc EXCEPT ![o] = to]
  /\ n' \in [KeyObjects -> 1 .. 8]
  /\ how' \in [KeyObjects -> {"create", "import"}]
  /\ ok' \in [KeyObjects -> BOOLEAN]
  /\ \A p \in KeyObjects \ {o} : n'[p] = n[p] /\ how'[p] = how[p] /\ ok'[p] = ok[p]

LEMMA KeyLocal ==
  ASSUME KeyInv, NEW o \in KeyObjects, HeapFrame(o),
         NEW to \in {"none", "ctx_alloc", "temp_alloc", "pool_alloc", "seeds",
                     "keys", "z", "temp_destroy", "unpack", "check", "bind",
                     "matrix", "ready", "error_exit", "pool_destroy", "keys_destroy"},
         Moves(o, to),
         holds'[o] \in [Live(o)' -> Contents], Live(o)' \subseteq Blocks,
         KeyStage(o)'
  PROVE  KeyInv'
  <1> USE DEF KeyInv
  <1>1. TypeOK'
    <2>1. HeapType(KeyObjects, Blocks)'
      <3>1. ASSUME NEW p \in KeyObjects
            PROVE  Live(p)' \subseteq Blocks /\ holds'[p] \in [Live(p)' -> Contents]
        <4>1. CASE p = o
          BY <4>1
        <4>2. CASE p # o
          <5>1. holds'[p] = holds[p]
            BY <4>2, KeyObjectAssumption DEF HeapFrame
          <5>2. Live(p) \subseteq Blocks /\ holds[p] \in [Live(p) -> Contents]
            BY DEF TypeOK, HeapType, Contents
          <5> QED
            BY <5>1, <5>2 DEF Live
        <4> QED
          BY <4>1, <4>2
      <3> QED
        BY <3>1 DEF HeapType, HeapFrame, Contents
    <2>2. Len(PoolBlocks) = 8
      BY Tuples
    <2> QED
      BY <2>1, <2>2 DEF TypeOK, Moves
  <1>2. ASSUME NEW p \in KeyObjects PROVE KeyStage(p)'
    <2>1. CASE p = o
      BY <2>1
    <2>2. CASE p # o
      <3>1. holds'[p] = holds[p]
        BY <2>2, KeyObjectAssumption DEF HeapFrame
      <3>2. pc'[p] = pc[p] /\ n'[p] = n[p] /\ ok'[p] = ok[p]
        BY <2>2 DEF TypeOK, Moves
      <3>3. Live(p)' = Live(p) /\ KeysHeld(p)' = KeysHeld(p)
        BY <3>1 DEF Live, KeysHeld
      <3>4. KeyStage(p)
        OBVIOUS
      <3> QED
        BY <3>1, <3>2, <3>3, <3>4 DEF KeyStage
    <2> QED
      BY <2>1, <2>2
  <1> QED
    BY <1>1, <1>2

\* The memory of a key object is typed and every block in it is one of Blocks.
LEMMA KeyMemory ==
  ASSUME KeyInv, NEW o \in KeyObjects
  PROVE  /\ DOMAIN holds = Objects /\ o \in Objects
         /\ holds[o] \in [Live(o) -> Contents] /\ Live(o) \subseteq Blocks
         /\ KeyStage(o)
         /\ pc \in [KeyObjects -> {"none", "ctx_alloc", "temp_alloc", "pool_alloc", "seeds",
                     "keys", "z", "temp_destroy", "unpack", "check", "bind",
                     "matrix", "ready", "error_exit", "pool_destroy", "keys_destroy"}]
         /\ n \in [KeyObjects -> 1 .. 8]
         /\ how \in [KeyObjects -> {"create", "import"}]
         /\ ok \in [KeyObjects -> BOOLEAN]
  BY Tuples, KeyObjectAssumption DEF KeyInv, TypeOK, HeapType, Contents

LEMMA BlocksParts ==
  /\ Ctx \subseteq Blocks /\ Temp \subseteq Blocks /\ PoolMem \subseteq Blocks
  /\ Persistent = Ctx \cup PoolMem \cup Matrix /\ Matrix \subseteq Blocks
  BY DEF Blocks, Persistent, Ctx, Temp, PoolMem

\* A new block holds no secret.
LEMMA NewInKey ==
  ASSUME KeyInv, NEW o \in KeyObjects, NEW b \in Blocks, NEW content \in {"nothing", "public"},
         New(o, b, content)
  PROVE  /\ HeapFrame(o) /\ fault' = fault /\ spilled' = spilled
         /\ Live(o)' = Live(o) \cup {b}
         /\ holds'[o] \in [Live(o)' -> Contents] /\ Live(o)' \subseteq Blocks
         /\ \A c \in Live(o)' : holds'[o][c] = "secret" => c \in Live(o) /\ holds[o][c] = "secret"
         /\ KeysHeld(o) /\ b \notin Ctx /\ Ctx \subseteq Live(o) => KeysHeld(o)'
  <1>1. /\ HeapFrame(o) /\ fault' = fault /\ spilled' = spilled
        /\ holds'[o] = [c \in Live(o) \cup {b} |-> IF c = b THEN content ELSE holds[o][c]]
    <2>1. DOMAIN holds = Objects /\ o \in Objects
      BY KeyMemory
    <2> QED
      BY <2>1, NewBlock
  <1>2. Live(o)' = Live(o) \cup {b}
    BY <1>1 DEF Live
  <1>3. holds'[o] \in [Live(o)' -> Contents] /\ Live(o)' \subseteq Blocks
    BY <1>1, <1>2, KeyMemory DEF Contents
  <1>4. \A c \in Live(o)' : holds'[o][c] = "secret" => c \in Live(o) /\ holds[o][c] = "secret"
    BY <1>1, <1>2
  <1>5. KeysHeld(o) /\ b \notin Ctx /\ Ctx \subseteq Live(o) => KeysHeld(o)'
    BY <1>1, Tuples DEF KeysHeld, Ctx
  <1> QED
    BY <1>1, <1>2, <1>3, <1>4, <1>5

\* A step that stops at pc \in to with n = 1 and touches no memory.
LEMMA QuietStep ==
  ASSUME KeyInv, NEW o \in KeyObjects, UNCHANGED heapVars,
         NEW to \in {"none", "ctx_alloc", "temp_alloc", "pool_alloc", "seeds",
                     "keys", "z", "temp_destroy", "unpack", "check", "bind",
                     "matrix", "ready", "error_exit", "pool_destroy", "keys_destroy"},
         Moves(o, to), KeyStage(o)'
  PROVE  KeyStepGood(o)
  <1>1. HeapFrame(o) /\ fault' = fault /\ spilled' = spilled /\ Live(o)' = Live(o)
    BY KeyMemory DEF HeapFrame, heapVars, Live
  <1>2. holds'[o] \in [Live(o)' -> Contents] /\ Live(o)' \subseteq Blocks
    BY <1>1, KeyMemory DEF heapVars
  <1> QED
    BY <1>1, <1>2, KeyLocal DEF KeyStepGood

LEMMA BeginGood ==
  ASSUME KeyInv, NEW o \in KeyObjects, NEW h \in {"create", "import"}, Begin(o, h)
  PROVE  KeyStepGood(o)
  <1>1. pc[o] = "none" /\ n[o] = 1 /\ Live(o) = {} /\ Before(CtxBlocks, 1) = {}
    BY KeyMemory DEF Begin, Goto, KeyStage, Before
  <1>2. UNCHANGED heapVars /\ Live(o)' = Live(o) /\ n' = n
    BY DEF Begin, heapVars, Live
  <1>3. Moves(o, "ctx_alloc") /\ pc'[o] = "ctx_alloc"
    BY KeyMemory DEF Begin, Goto, Moves
  <1>4. KeyStage(o)'
    BY <1>1, <1>2, <1>3 DEF KeyStage
  <1> QED
    BY <1>2, <1>3, <1>4, QuietStep

\* An allocator gets one more block.
LEMMA AllocateGood ==
  ASSUME KeyInv, NEW o \in KeyObjects, NEW blocks, NEW from,
         NEW to, NEW base,
         \/ blocks = CtxBlocks /\ from = "ctx_alloc" /\ to \in {"temp_alloc", "unpack"}
            /\ base = {}
         \/ blocks = TempBlocks /\ from = "temp_alloc" /\ to = "seeds" /\ base = Ctx
         \/ blocks = PoolBlocks /\ from = "pool_alloc" /\ to = "bind" /\ base = Ctx,
         Allocate(o, blocks, from, to)
  PROVE  KeyStepGood(o)
  <1> DEFINE b == blocks[n[o]]
             target == IF n[o] = Len(blocks) THEN to ELSE from
  <1>0. /\ pc[o] = from /\ KeyStage(o)
        /\ DOMAIN blocks = 1 .. Len(blocks) /\ Len(blocks) \in {3, 8}
        /\ Range(blocks) \subseteq Blocks
        /\ n[o] \in 1 .. Len(blocks)
        /\ Live(o) = base \cup Before(blocks, n[o])
        /\ from = "pool_alloc" => Len(blocks) = 8 /\ Ctx \cap Range(blocks) = {}
        /\ from # "pool_alloc" => Len(blocks) = 3
    <2>1. pc[o] = from /\ KeyStage(o) /\ n[o] \in 1 .. 8
      BY KeyMemory DEF Allocate, Goto
    <2>2. Live(o) = base \cup Before(blocks, n[o])
      BY <2>1 DEF KeyStage
    <2>3. n[o] \in 1 .. IF from = "pool_alloc" THEN 8 ELSE 3
      BY <2>1 DEF KeyStage
    <2>4. /\ DOMAIN blocks = 1 .. Len(blocks)
          /\ Len(blocks) = IF from = "pool_alloc" THEN 8 ELSE 3
      BY Tuples
    <2>5. /\ Range(blocks) \subseteq Blocks
          /\ from = "pool_alloc" => Ctx \cap Range(blocks) = {}
      BY BlocksApart, BlocksParts DEF Ctx, Temp, PoolMem
    <2> QED
      BY <2>1, <2>2, <2>3, <2>4, <2>5
  <1>1. /\ Before(blocks, n[o] + 1) = Before(blocks, n[o]) \cup {b}
        /\ b \in Range(blocks)
        /\ Before(blocks, Len(blocks) + 1) = Range(blocks)
        /\ Before(TempBlocks, 1) = {} /\ Before(blocks, 1) = {}
    BY <1>0, BeforeNext DEF Before
  <1>2. New(o, b, "nothing") /\ b \in Blocks
    BY <1>0, <1>1 DEF Allocate
  <1>3. /\ HeapFrame(o) /\ fault' = fault /\ spilled' = spilled
        /\ Live(o)' = Live(o) \cup {b}
        /\ holds'[o] \in [Live(o)' -> Contents] /\ Live(o)' \subseteq Blocks
        /\ \A c \in Live(o)' : holds'[o][c] = "secret" => c \in Live(o) /\ holds[o][c] = "secret"
        /\ KeysHeld(o) /\ b \notin Ctx /\ Ctx \subseteq Live(o) => KeysHeld(o)'
    BY <1>2, NewInKey
  <1>4. /\ Moves(o, target) /\ pc'[o] = target
        /\ n'[o] = IF n[o] = Len(blocks) THEN 1 ELSE n[o] + 1
    <2>1. n'[o] \in 1 .. 8 /\ n'[o] = IF n[o] = Len(blocks) THEN 1 ELSE n[o] + 1
      <3>1. n \in [KeyObjects -> 1 .. 8]
        BY KeyMemory
      <3>2. n' = [n EXCEPT ![o] = IF n[o] = Len(blocks) THEN 1 ELSE n[o] + 1]
        BY DEF Allocate
      <3>3. n'[o] = IF n[o] = Len(blocks) THEN 1 ELSE n[o] + 1
        BY <3>1, <3>2
      <3>4. n[o] \in 1 .. Len(blocks) /\ Len(blocks) \in {3, 8}
        BY <1>0
      <3>5. n[o] # Len(blocks) => n[o] + 1 \in 1 .. 8
        BY <3>4, NextIndex
      <3>6. n[o] = Len(blocks) => 1 \in 1 .. 8
        OBVIOUS
      <3> QED
        BY <3>3, <3>5, <3>6
    <2>2. n' \in [KeyObjects -> 1 .. 8]
      BY <2>1, KeyMemory DEF Allocate
    <2> QED
      BY <2>1, <2>2, KeyMemory DEF Allocate, Goto, Moves
  <1>5. Live(o)' = IF n[o] = Len(blocks) THEN base \cup Range(blocks)
                   ELSE base \cup Before(blocks, n'[o])
    BY <1>0, <1>1, <1>3, <1>4
  <1> HIDE DEF b
  <1>6. KeyStage(o)'
    <2>1. CASE blocks = CtxBlocks /\ from = "ctx_alloc" /\ to \in {"temp_alloc", "unpack"}
               /\ base = {}
      <3>1. \A c \in Live(o)' : holds'[o][c] # "secret"
        BY <1>0, <1>3, <2>1 DEF KeyStage
      <3>2. CASE n[o] = Len(blocks)
        BY <1>0, <1>1, <1>4, <1>5, <2>1, <3>1, <3>2 DEF KeyStage, Ctx
      <3>3. CASE n[o] # Len(blocks)
        BY <1>0, <1>4, <1>5, <2>1, <3>1, <3>3 DEF KeyStage
      <3> QED
        BY <3>2, <3>3
    <2>2. CASE blocks = TempBlocks /\ from = "temp_alloc" /\ to = "seeds" /\ base = Ctx
      <3>1. \A c \in Live(o)' : holds'[o][c] # "secret"
        BY <1>0, <1>3, <2>2 DEF KeyStage
      <3>2. CASE n[o] = Len(blocks)
        BY <1>0, <1>4, <1>5, <2>2, <3>1, <3>2 DEF KeyStage, Temp
      <3>3. CASE n[o] # Len(blocks)
        BY <1>0, <1>4, <1>5, <2>2, <3>1, <3>3 DEF KeyStage
      <3> QED
        BY <3>2, <3>3
    <2>3. CASE blocks = PoolBlocks /\ from = "pool_alloc" /\ to = "bind" /\ base = Ctx
      <3>1. \A c \in Live(o)' : holds'[o][c] = "secret" => c \in {"ctx", "secret"} \cup Temp
        BY <1>0, <1>3, <2>3 DEF KeyStage
      <3>2. KeysHeld(o)'
        BY <1>0, <1>1, <1>3, <2>3 DEF KeyStage
      <3>3. CASE n[o] = Len(blocks)
        BY <1>0, <1>4, <1>5, <2>3, <3>1, <3>2, <3>3 DEF KeyStage, PoolMem
      <3>4. CASE n[o] # Len(blocks)
        BY <1>0, <1>4, <1>5, <2>3, <3>1, <3>2, <3>4 DEF KeyStage
      <3> QED
        BY <3>3, <3>4
    <2> QED
      BY <2>1, <2>2, <2>3
  <1>7. target \in {"ctx_alloc", "temp_alloc", "pool_alloc", "seeds", "unpack", "bind"}
    OBVIOUS
  <1> HIDE DEF target
  <1> QED
    BY <1>3, <1>4, <1>6, <1>7, KeyLocal DEF KeyStepGood

\* A clear of the blocks of a key object that leaves no secret in a freed block.
LEMMA ClearInKey ==
  ASSUME KeyInv, NEW o \in KeyObjects, NEW wiped, NEW freed, Clear(o, wiped, freed),
         wiped \subseteq Live(o), freed \subseteq Live(o),
         \A b \in freed \ wiped : holds[o][b] # "secret"
  PROVE  /\ HeapFrame(o) /\ fault' = fault
         /\ \A w \in spilled' \ spilled : w[1] = o /\ w[3] # "secret"
         /\ Live(o)' = Live(o) \ freed
         /\ holds'[o] \in [Live(o)' -> Contents] /\ Live(o)' \subseteq Blocks
         /\ \A b \in Live(o)' : b \in Live(o) /\ (b \notin wiped => holds'[o][b] = holds[o][b])
         /\ \A b \in Live(o)' : holds'[o][b] = "secret" => holds[o][b] = "secret"
  <1>1. /\ HeapFrame(o) /\ fault' = fault
        /\ holds'[o] = [b \in Live(o) \ freed |->
             IF b \in wiped THEN "nothing" ELSE holds[o][b]]
        /\ \A w \in spilled' \ spilled :
             \E b \in freed \ wiped :
               w = <<o, b, holds[o][b]>> /\ holds[o][b] # "nothing"
    <2>1. DOMAIN holds = Objects /\ o \in Objects
      BY KeyMemory
    <2>2. Cleared(o, wiped, freed)
      BY <2>1, ClearBlocks
    <2> QED
      BY <2>2 DEF Cleared
  <1>2. Live(o)' = Live(o) \ freed
    BY <1>1 DEF Live
  <1>3. holds[o] \in [Live(o) -> Contents] /\ Live(o) \subseteq Blocks
    BY KeyMemory
  <1>4. holds'[o] \in [Live(o)' -> Contents] /\ Live(o)' \subseteq Blocks
    BY <1>1, <1>2, <1>3 DEF Contents
  <1>5. /\ \A b \in Live(o)' : b \in Live(o) /\ (b \notin wiped => holds'[o][b] = holds[o][b])
        /\ \A b \in Live(o)' : holds'[o][b] = "secret" => holds[o][b] = "secret"
    BY <1>1, <1>2
  <1>6. \A w \in spilled' \ spilled : w[1] = o /\ w[3] # "secret"
    BY <1>1
  <1> QED
    BY <1>1, <1>2, <1>4, <1>5, <1>6

\* A store into the blocks of a key object.
LEMMA StoreInKey ==
  ASSUME KeyInv, NEW o \in KeyObjects, NEW content, Store(o, content),
         DOMAIN content \subseteq Live(o),
         \A b \in DOMAIN content : content[b] \in Contents
  PROVE  /\ HeapFrame(o) /\ fault' = fault /\ spilled' = spilled
         /\ Live(o)' = Live(o)
         /\ holds'[o] \in [Live(o)' -> Contents] /\ Live(o)' \subseteq Blocks
         /\ \A b \in Live(o) :
              holds'[o][b] = IF b \in DOMAIN content THEN content[b] ELSE holds[o][b]
  <1>1. /\ HeapFrame(o) /\ fault' = fault /\ spilled' = spilled
        /\ holds'[o] = [b \in Live(o) |->
             IF b \in DOMAIN content THEN content[b] ELSE holds[o][b]]
    <2>1. DOMAIN holds = Objects /\ o \in Objects
      BY KeyMemory
    <2> QED
      BY <2>1, StoreBlocks
  <1>2. Live(o)' = Live(o)
    BY <1>1 DEF Live
  <1>3. holds[o] \in [Live(o) -> Contents] /\ Live(o) \subseteq Blocks
    BY KeyMemory
  <1> QED
    BY <1>1, <1>2, <1>3

\* A step of o to the step to with changes to ok alone, or to none.
LEMMA PlainMove ==
  ASSUME KeyInv, NEW o \in KeyObjects, NEW from, NEW to, Goto(o, from, to),
         n' = n, how' = how, ok' = ok \/ (\E v \in BOOLEAN : ok' = [ok EXCEPT ![o] = v])
  PROVE  Moves(o, to) /\ pc'[o] = to /\ pc[o] = from /\ KeyStage(o)
  <1>1. ok' \in [KeyObjects -> BOOLEAN] /\ \A p \in KeyObjects \ {o} : ok'[p] = ok[p]
    <2>1. ok \in [KeyObjects -> BOOLEAN]
      BY KeyMemory
    <2> QED
      BY <2>1
  <1> QED
    BY <1>1, KeyMemory DEF Goto, Moves

\* An allocator fails and frees exactly what it got.
LEMMA FailGood ==
  ASSUME KeyInv, NEW o \in KeyObjects, NEW blocks, NEW from, NEW to, NEW base,
         \/ blocks = CtxBlocks /\ from = "ctx_alloc" /\ to = "none" /\ base = {}
         \/ blocks = TempBlocks /\ from = "temp_alloc" /\ to = "error_exit" /\ base = Ctx
         \/ blocks = PoolBlocks /\ from = "pool_alloc" /\ to = "error_exit" /\ base = Ctx,
         Fail(o, blocks, from, to)
  PROVE  KeyStepGood(o)
  <1> DEFINE freed == Before(blocks, n[o])
  <1>1. pc[o] = from /\ KeyStage(o) /\ Clear(o, {}, freed)
    BY KeyMemory DEF Fail, Goto, Before
  <1>2. Live(o) = base \cup freed /\ freed \subseteq Live(o)
    BY <1>1 DEF KeyStage
  <1>3. freed \subseteq Range(blocks) /\ base \cap freed = {}
    <2>1. n[o] \in 1 .. Len(blocks) /\ DOMAIN blocks = 1 .. Len(blocks) /\ Len(blocks) \in {3, 8}
      BY <1>1, KeyMemory, Tuples DEF KeyStage
    <2>2. freed \subseteq Range(blocks)
      BY <2>1, BeforeNext
    <2> QED
      BY <2>2, BlocksApart DEF Ctx
  <1>4. \A b \in freed \ {} : holds[o][b] # "secret"
    <2>1. CASE from # "pool_alloc"
      BY <1>1, <1>2, <2>1 DEF KeyStage
    <2>2. CASE from = "pool_alloc"
      <3>1. freed \subseteq Range(PoolBlocks)
        BY <1>3, <2>2
      <3>2. \A b \in Range(PoolBlocks) : b \notin {"ctx", "secret"} \cup Temp
        BY Tuples, BlocksApart DEF Temp
      <3> QED
        BY <1>1, <1>2, <3>1, <3>2 DEF KeyStage
    <2> QED
      BY <2>1, <2>2
  <1> HIDE DEF freed
  <1>5. /\ HeapFrame(o) /\ fault' = fault
        /\ \A w \in spilled' \ spilled : w[1] = o /\ w[3] # "secret"
        /\ Live(o)' = Live(o) \ freed
        /\ holds'[o] \in [Live(o)' -> Contents] /\ Live(o)' \subseteq Blocks
        /\ \A b \in Live(o)' : holds'[o][b] = "secret" => b \in Live(o) /\ holds[o][b] = "secret"
    BY <1>1, <1>2, <1>4, ClearInKey
  <1>6. Live(o)' = base
    BY <1>2, <1>3, <1>5
  <1>7. Moves(o, to) /\ pc'[o] = to /\ n'[o] = 1
    BY KeyMemory DEF Fail, Goto, Moves
  <1>8. KeyStage(o)'
    <2>1. \A b \in Live(o)' : holds'[o][b] = "secret" => b \in {"ctx", "secret"} \cup Temp
      BY <1>1, <1>5 DEF KeyStage
    <2> QED
      BY <1>6, <1>7, <2>1 DEF KeyStage
  <1>9. to \in {"none", "error_exit"}
    OBVIOUS
  <1> QED
    BY <1>5, <1>7, <1>8, <1>9, KeyLocal DEF KeyStepGood

\* Membership and disjointness of the single blocks, for the steps below.
LEMMA BlockNames ==
  /\ {"ctx", "secret", "public_key_msg"} = Ctx
  /\ {"temp", "poly", "raw_bytes"} = Temp
  /\ Ctx \cap Temp = {} /\ Ctx \cap PoolMem = {} /\ Temp \cap PoolMem = {}
  /\ {"head_pool", "ml_kem_pool", "decrypt"} \subseteq PoolMem
  /\ PoolBuffers \subseteq PoolMem
  /\ "full_matrix" \notin Ctx \cup Temp \cup PoolMem /\ Matrix \subseteq {"full_matrix"}
  BY Tuples, BlocksApart DEF Ctx, Temp, PoolMem, PoolBuffers

LEMMA SeedsGood ==
  ASSUME KeyInv, NEW o \in KeyObjects, Seeds(o)
  PROVE  KeyStepGood(o)
  <1> DEFINE content == [b \in {"temp", "raw_bytes"} |-> "secret"]
  <1>1. CASE Goto(o, "seeds", "keys") /\ Store(o, content) /\ UNCHANGED ok
    <2>1. /\ Moves(o, "keys") /\ pc'[o] = "keys" /\ pc[o] = "seeds" /\ KeyStage(o)
          /\ n' = n
      BY <1>1, PlainMove DEF Seeds
    <2>2. Live(o) = Ctx \cup Temp
      BY <2>1 DEF KeyStage
    <2>3. /\ DOMAIN content \subseteq Live(o) /\ DOMAIN content \subseteq Temp
          /\ \A b \in DOMAIN content : content[b] \in Contents
      BY <2>2, BlockNames DEF Contents
    <2> HIDE DEF content
    <2>4. /\ HeapFrame(o) /\ fault' = fault /\ spilled' = spilled
          /\ Live(o)' = Live(o)
          /\ holds'[o] \in [Live(o)' -> Contents] /\ Live(o)' \subseteq Blocks
          /\ \A b \in Live(o) :
               holds'[o][b] = IF b \in DOMAIN content THEN content[b] ELSE holds[o][b]
      BY <1>1, <2>3, StoreInKey
    <2>5. \A b \in Live(o)' : holds'[o][b] = "secret" => b \in {"ctx", "secret"} \cup Temp
      BY <2>1, <2>3, <2>4 DEF KeyStage
    <2>6. KeyStage(o)'
      BY <2>1, <2>2, <2>4, <2>5 DEF KeyStage
    <2> QED
      BY <2>1, <2>4, <2>6, KeyLocal DEF KeyStepGood
  <1>2. CASE /\ Goto(o, "seeds", "temp_destroy") /\ ok' = [ok EXCEPT ![o] = FALSE]
             /\ UNCHANGED heapVars
    <2>1. /\ Moves(o, "temp_destroy") /\ pc'[o] = "temp_destroy" /\ pc[o] = "seeds"
          /\ KeyStage(o) /\ n' = n
      BY <1>2, PlainMove DEF Seeds
    <2>2. ~ok'[o]
      BY <1>2, KeyMemory
    <2>3. Live(o)' = Live(o) /\ holds' = holds
      BY <1>2 DEF heapVars, Live
    <2>4. KeyStage(o)'
      BY <2>1, <2>2, <2>3 DEF KeyStage
    <2> QED
      BY <1>2, <2>1, <2>4, QuietStep
  <1> QED
    BY <1>1, <1>2 DEF Seeds

LEMMA KeysGood ==
  ASSUME KeyInv, NEW o \in KeyObjects, Keys(o)
  PROVE  KeyStepGood(o)
  <1> DEFINE content == [b \in {"poly", "raw_bytes", "secret", "ctx", "public_key_msg"} |->
                           IF b \in {"ctx", "public_key_msg"} THEN "public" ELSE "secret"]
  <1>1. /\ Moves(o, "z") /\ pc'[o] = "z" /\ pc[o] = "keys" /\ KeyStage(o) /\ n' = n
        /\ Store(o, content)
    BY PlainMove DEF Keys
  <1>2. Live(o) = Ctx \cup Temp
    BY <1>1 DEF KeyStage
  <1>3. /\ DOMAIN content \subseteq Live(o)
        /\ \A b \in DOMAIN content : content[b] \in Contents
        /\ \A b \in DOMAIN content : content[b] = "secret" => b \in {"secret"} \cup Temp
        /\ "secret" \in DOMAIN content /\ content["secret"] = "secret"
    BY <1>2, BlockNames DEF Contents
  <1> HIDE DEF content
  <1>4. /\ HeapFrame(o) /\ fault' = fault /\ spilled' = spilled
        /\ Live(o)' = Live(o)
        /\ holds'[o] \in [Live(o)' -> Contents] /\ Live(o)' \subseteq Blocks
        /\ \A b \in Live(o) :
             holds'[o][b] = IF b \in DOMAIN content THEN content[b] ELSE holds[o][b]
    BY <1>1, <1>3, StoreInKey
  <1>5. /\ \A b \in Live(o)' : holds'[o][b] = "secret" => b \in {"ctx", "secret"} \cup Temp
        /\ holds'[o]["secret"] = "secret"
    BY <1>1, <1>3, <1>4 DEF KeyStage
  <1>6. KeyStage(o)'
    BY <1>1, <1>2, <1>4, <1>5 DEF KeyStage
  <1> QED
    BY <1>1, <1>4, <1>6, KeyLocal DEF KeyStepGood

LEMMA FinallyZGood ==
  ASSUME KeyInv, NEW o \in KeyObjects, FinallyZ(o)
  PROVE  KeyStepGood(o)
  <1> DEFINE content == [b \in {"ctx"} |-> "secret"]
  <1>1. /\ Moves(o, "temp_destroy") /\ pc'[o] = "temp_destroy" /\ pc[o] = "z"
        /\ KeyStage(o) /\ n' = n /\ Store(o, content)
    BY PlainMove DEF FinallyZ
  <1>2. Live(o) = Ctx \cup Temp
    BY <1>1 DEF KeyStage
  <1>3. /\ DOMAIN content \subseteq Live(o)
        /\ \A b \in DOMAIN content : content[b] \in Contents
        /\ DOMAIN content = {"ctx"} /\ content["ctx"] = "secret"
    BY <1>2, BlockNames DEF Contents
  <1> HIDE DEF content
  <1>4. /\ HeapFrame(o) /\ fault' = fault /\ spilled' = spilled
        /\ Live(o)' = Live(o)
        /\ holds'[o] \in [Live(o)' -> Contents] /\ Live(o)' \subseteq Blocks
        /\ \A b \in Live(o) :
             holds'[o][b] = IF b \in DOMAIN content THEN content[b] ELSE holds[o][b]
    BY <1>1, <1>3, StoreInKey
  <1>5. /\ \A b \in Live(o)' : holds'[o][b] = "secret" => b \in {"ctx", "secret"} \cup Temp
        /\ KeysHeld(o)'
    BY <1>1, <1>2, <1>3, <1>4, BlockNames DEF KeyStage, KeysHeld
  <1>6. KeyStage(o)'
    BY <1>1, <1>2, <1>4, <1>5 DEF KeyStage
  <1> QED
    BY <1>1, <1>4, <1>6, KeyLocal DEF KeyStepGood

LEMMA TempDestroyGood ==
  ASSUME KeyInv, NEW o \in KeyObjects, TempDestroy(o)
  PROVE  KeyStepGood(o)
  <1> DEFINE to == IF ok[o] THEN "pool_alloc" ELSE "error_exit"
  <1>1. /\ Moves(o, to) /\ pc'[o] = to /\ pc[o] = "temp_destroy" /\ KeyStage(o)
        /\ n' = n /\ ok' = ok /\ n[o] = 1 /\ Clear(o, Temp, Temp)
    BY PlainMove DEF TempDestroy, Temp, KeyStage
  <1>2. Live(o) = Ctx \cup Temp
    BY <1>1 DEF KeyStage
  <1>3. Temp \subseteq Live(o) /\ \A b \in Temp \ Temp : holds[o][b] # "secret"
    BY <1>2
  <1>4. /\ HeapFrame(o) /\ fault' = fault
        /\ \A w \in spilled' \ spilled : w[1] = o /\ w[3] # "secret"
        /\ Live(o)' = Live(o) \ Temp
        /\ holds'[o] \in [Live(o)' -> Contents] /\ Live(o)' \subseteq Blocks
        /\ \A b \in Live(o)' : b \in Live(o) /\ (b \notin Temp => holds'[o][b] = holds[o][b])
    BY <1>1, <1>3, ClearInKey
  <1>5. Live(o)' = Ctx /\ \A b \in Ctx : holds'[o][b] = holds[o][b]
    BY <1>2, <1>4, BlockNames
  <1>6. /\ \A b \in Live(o)' : holds'[o][b] = "secret" => b \in {"ctx", "secret"} \cup Temp
        /\ ok[o] => KeysHeld(o)'
    BY <1>1, <1>2, <1>5, BlockNames DEF KeyStage, KeysHeld
  <1>7. Before(PoolBlocks, 1) = {}
    BY DEF Before
  <1>8. KeyStage(o)'
    BY <1>1, <1>5, <1>6, <1>7 DEF KeyStage
  <1>9. to \in {"pool_alloc", "error_exit"}
    OBVIOUS
  <1> HIDE DEF to
  <1> QED
    BY <1>1, <1>4, <1>8, <1>9, KeyLocal DEF KeyStepGood

LEMMA UnpackGood ==
  ASSUME KeyInv, NEW o \in KeyObjects, Unpack(o)
  PROVE  KeyStepGood(o)
  <1> DEFINE content == [b \in Range(CtxBlocks) |->
                           IF b = "public_key_msg" THEN "public" ELSE "secret"]
  <1>1. /\ Moves(o, "check") /\ pc'[o] = "check" /\ pc[o] = "unpack" /\ KeyStage(o)
        /\ n' = n /\ Store(o, content)
    BY PlainMove DEF Unpack
  <1>2. Live(o) = Ctx
    BY <1>1 DEF KeyStage
  <1>3. /\ DOMAIN content = Ctx
        /\ \A b \in DOMAIN content : content[b] \in Contents
        /\ \A b \in DOMAIN content : content[b] = "secret" => b \in {"ctx", "secret"}
        /\ content["ctx"] = "secret" /\ content["secret"] = "secret"
        /\ "ctx" \in Ctx /\ "secret" \in Ctx
    BY BlockNames DEF Contents, Ctx
  <1> HIDE DEF content
  <1>4. /\ HeapFrame(o) /\ fault' = fault /\ spilled' = spilled
        /\ Live(o)' = Live(o)
        /\ holds'[o] \in [Live(o)' -> Contents] /\ Live(o)' \subseteq Blocks
        /\ \A b \in Live(o) :
             holds'[o][b] = IF b \in DOMAIN content THEN content[b] ELSE holds[o][b]
    BY <1>1, <1>2, <1>3, StoreInKey
  <1>5. /\ \A b \in Live(o)' : holds'[o][b] = "secret" => b \in {"ctx", "secret"} \cup Temp
        /\ KeysHeld(o)'
    BY <1>2, <1>3, <1>4 DEF KeysHeld
  <1>6. KeyStage(o)'
    BY <1>1, <1>2, <1>4, <1>5 DEF KeyStage
  <1> QED
    BY <1>1, <1>4, <1>6, KeyLocal DEF KeyStepGood

LEMMA CheckGood ==
  ASSUME KeyInv, NEW o \in KeyObjects, Check(o)
  PROVE  KeyStepGood(o)
  <1>1. UNCHANGED heapVars /\ n' = n /\ how' = how
    BY DEF Check
  <1>2. Live(o)' = Live(o) /\ holds' = holds /\ KeysHeld(o)' = KeysHeld(o)
    BY <1>1 DEF heapVars, Live, KeysHeld
  <1>3. ASSUME NEW to \in {"pool_alloc", "error_exit"}, Goto(o, "check", to),
               ok' = ok \/ ok' = [ok EXCEPT ![o] = FALSE]
        PROVE  KeyStepGood(o)
    <2>1. /\ Moves(o, to) /\ pc'[o] = to /\ pc[o] = "check" /\ KeyStage(o)
      BY <1>1, <1>3, PlainMove
    <2>2. Before(PoolBlocks, 1) = {}
      BY DEF Before
    <2>3. KeyStage(o)'
      BY <1>1, <1>2, <2>1, <2>2 DEF KeyStage
    <2> QED
      BY <1>1, <2>1, <2>3, QuietStep
  <1> QED
    BY <1>3 DEF Check

LEMMA BindGood ==
  ASSUME KeyInv, NEW o \in KeyObjects, Bind(o)
  PROVE  KeyStepGood(o)
  <1> DEFINE content == [b \in Range(PoolBlocks) \ {"ciphertexts", "pool_raw_bytes"} |-> "public"]
             to == IF FULL_MATRIX THEN "matrix" ELSE "ready"
  <1>1. /\ Moves(o, to) /\ pc'[o] = to /\ pc[o] = "bind" /\ KeyStage(o) /\ n' = n
        /\ Store(o, content)
    BY PlainMove DEF Bind
  <1>2. Live(o) = Ctx \cup PoolMem
    BY <1>1 DEF KeyStage
  <1>3. /\ DOMAIN content \subseteq PoolMem
        /\ \A b \in DOMAIN content : content[b] \in Contents /\ content[b] # "secret"
    BY DEF Contents, PoolMem
  <1> HIDE DEF content
  <1>4. /\ HeapFrame(o) /\ fault' = fault /\ spilled' = spilled
        /\ Live(o)' = Live(o)
        /\ holds'[o] \in [Live(o)' -> Contents] /\ Live(o)' \subseteq Blocks
        /\ \A b \in Live(o) :
             holds'[o][b] = IF b \in DOMAIN content THEN content[b] ELSE holds[o][b]
    BY <1>1, <1>2, <1>3, StoreInKey
  <1>5. /\ \A b \in Live(o)' : holds'[o][b] = "secret" => b \in {"ctx", "secret"} \cup Temp
        /\ KeysHeld(o)'
    BY <1>1, <1>2, <1>3, <1>4, BlockNames DEF KeyStage, KeysHeld
  <1>6. ~FULL_MATRIX => Live(o)' = Persistent
    BY <1>2, <1>4, BlocksParts DEF Matrix
  <1>7. KeyStage(o)'
    BY <1>1, <1>2, <1>4, <1>5, <1>6 DEF KeyStage
  <1>8. to \in {"matrix", "ready"}
    OBVIOUS
  <1> HIDE DEF to
  <1> QED
    BY <1>1, <1>4, <1>7, <1>8, KeyLocal DEF KeyStepGood

LEMMA FullMatrixGood ==
  ASSUME KeyInv, NEW o \in KeyObjects, FullMatrix(o)
  PROVE  KeyStepGood(o)
  <1>1. CASE Goto(o, "matrix", "ready") /\ New(o, "full_matrix", "public") /\ UNCHANGED ok
    <2>1. /\ Moves(o, "ready") /\ pc'[o] = "ready" /\ pc[o] = "matrix" /\ KeyStage(o)
          /\ n' = n
      BY <1>1, PlainMove DEF FullMatrix
    <2>2. /\ Live(o) = Ctx \cup PoolMem /\ Persistent = Live(o) \cup {"full_matrix"}
          /\ "full_matrix" \in Blocks
      BY <2>1, BlocksParts DEF KeyStage, Matrix
    <2>3. /\ HeapFrame(o) /\ fault' = fault /\ spilled' = spilled
          /\ Live(o)' = Live(o) \cup {"full_matrix"}
          /\ holds'[o] \in [Live(o)' -> Contents] /\ Live(o)' \subseteq Blocks
          /\ \A c \in Live(o)' : holds'[o][c] = "secret" => c \in Live(o) /\ holds[o][c] = "secret"
          /\ KeysHeld(o) => KeysHeld(o)'
      BY <1>1, <2>2, NewInKey, BlockNames
    <2>4. KeyStage(o)'
      BY <2>1, <2>2, <2>3 DEF KeyStage
    <2> QED
      BY <2>1, <2>3, <2>4, KeyLocal DEF KeyStepGood
  <1>2. CASE /\ Goto(o, "matrix", "error_exit") /\ ok' = [ok EXCEPT ![o] = FALSE]
             /\ Clear(o, {}, PoolMem)
    <2>1. /\ Moves(o, "error_exit") /\ pc'[o] = "error_exit" /\ pc[o] = "matrix"
          /\ KeyStage(o) /\ n' = n
      BY <1>2, PlainMove DEF FullMatrix
    <2>2. Live(o) = Ctx \cup PoolMem
      BY <2>1 DEF KeyStage
    <2>3. \A b \in PoolMem \ {} : holds[o][b] # "secret"
      BY <2>1, <2>2, BlockNames DEF KeyStage
    <2>4. /\ HeapFrame(o) /\ fault' = fault
          /\ \A w \in spilled' \ spilled : w[1] = o /\ w[3] # "secret"
          /\ Live(o)' = Live(o) \ PoolMem
          /\ holds'[o] \in [Live(o)' -> Contents] /\ Live(o)' \subseteq Blocks
          /\ \A b \in Live(o)' : b \in Live(o) /\ (b \notin {} => holds'[o][b] = holds[o][b])
      BY <1>2, <2>2, <2>3, ClearInKey
    <2>5. Live(o)' = Ctx /\ \A b \in Ctx : holds'[o][b] = holds[o][b]
      BY <2>2, <2>4, BlockNames
    <2>6. KeyStage(o)'
      BY <2>1, <2>2, <2>5 DEF KeyStage
    <2> QED
      BY <2>1, <2>4, <2>6, KeyLocal DEF KeyStepGood
  <1> QED
    BY <1>1, <1>2 DEF FullMatrix, PoolMem

LEMMA CtxDestroyGood ==
  ASSUME KeyInv, NEW o \in KeyObjects, NEW from \in {"error_exit", "keys_destroy"},
         Goto(o, from, "none"), CtxDestroy(o), UNCHANGED <<n, how, ok>>
  PROVE  KeyStepGood(o)
  <1>1. /\ Moves(o, "none") /\ pc'[o] = "none" /\ pc[o] = from /\ KeyStage(o) /\ n' = n
        /\ Clear(o, {"secret", "ctx"}, Ctx)
    BY PlainMove DEF CtxDestroy, Ctx
  <1>2. Live(o) = Ctx /\ {"secret", "ctx"} \subseteq Live(o) /\ Ctx \subseteq Live(o)
    BY <1>1, BlockNames DEF KeyStage
  <1>3. \A b \in Ctx \ {"secret", "ctx"} : holds[o][b] # "secret"
    BY <1>1, <1>2, BlockNames DEF KeyStage
  <1>4. /\ HeapFrame(o) /\ fault' = fault
        /\ \A w \in spilled' \ spilled : w[1] = o /\ w[3] # "secret"
        /\ Live(o)' = Live(o) \ Ctx
        /\ holds'[o] \in [Live(o)' -> Contents] /\ Live(o)' \subseteq Blocks
    BY <1>1, <1>2, <1>3, ClearInKey
  <1>5. Live(o)' = {}
    BY <1>2, <1>4
  <1>6. KeyStage(o)'
    BY <1>1, <1>5 DEF KeyStage
  <1> QED
    BY <1>1, <1>4, <1>6, KeyLocal DEF KeyStepGood

\* The pointer to the keys is read out of blocks that are there.
LEMMA DestroyGood ==
  ASSUME KeyInv, NEW o \in KeyObjects, Destroy(o)
  PROVE  KeyStepGood(o)
  <1>1. /\ Moves(o, "pool_destroy") /\ pc'[o] = "pool_destroy" /\ pc[o] = "ready"
        /\ KeyStage(o) /\ n' = n
        /\ Read(o, {"head_pool", "ml_kem_pool", "decrypt"})
    BY PlainMove DEF Destroy
  <1>2. {"head_pool", "ml_kem_pool", "decrypt"} \subseteq Live(o)
    BY <1>1, BlockNames, BlocksParts DEF KeyStage
  <1>3. UNCHANGED heapVars
    BY <1>1, <1>2 DEF Read, Missing, heapVars
  <1>4. holds' = holds /\ Live(o)' = Live(o)
    BY <1>3 DEF heapVars, Live
  <1>5. KeyStage(o)'
    BY <1>1, <1>4 DEF KeyStage
  <1> QED
    BY <1>1, <1>3, <1>5, QuietStep

LEMMA PoolDestroyGood ==
  ASSUME KeyInv, NEW o \in KeyObjects, PoolDestroy(o)
  PROVE  KeyStepGood(o)
  <1>1. /\ Moves(o, "keys_destroy") /\ pc'[o] = "keys_destroy" /\ pc[o] = "pool_destroy"
        /\ KeyStage(o) /\ n' = n
        /\ Clear(o, PoolBuffers, PoolMem \cup Matrix)
    BY PlainMove DEF PoolDestroy, PoolMem
  <1>2. /\ Live(o) = Ctx \cup PoolMem \cup Matrix
        /\ PoolBuffers \subseteq Live(o) /\ PoolMem \cup Matrix \subseteq Live(o)
    BY <1>1, BlockNames, BlocksParts DEF KeyStage
  <1>3. \A b \in (PoolMem \cup Matrix) \ PoolBuffers : holds[o][b] # "secret"
    BY <1>1, <1>2, BlockNames DEF KeyStage
  <1> HIDE DEF PoolBuffers
  <1>4. /\ HeapFrame(o) /\ fault' = fault
        /\ \A w \in spilled' \ spilled : w[1] = o /\ w[3] # "secret"
        /\ Live(o)' = Live(o) \ (PoolMem \cup Matrix)
        /\ holds'[o] \in [Live(o)' -> Contents] /\ Live(o)' \subseteq Blocks
        /\ \A b \in Live(o)' : b \in Live(o) /\ (b \notin PoolBuffers => holds'[o][b] = holds[o][b])
    BY <1>1, <1>2, <1>3, ClearInKey
  <1>5. Live(o)' = Ctx /\ \A b \in Ctx : holds'[o][b] = holds[o][b]
    BY <1>2, <1>4, BlockNames
  <1>6. \A b \in Live(o)' : holds'[o][b] = "secret" => b \in {"ctx", "secret"} \cup Temp
    BY <1>1, <1>4, <1>5 DEF KeyStage
  <1>7. KeyStage(o)'
    BY <1>1, <1>5, <1>6 DEF KeyStage
  <1> QED
    BY <1>1, <1>4, <1>7, KeyLocal DEF KeyStepGood

LEMMA KeyStep ==
  ASSUME KeyInv, NEW o \in KeyObjects, Step(o)
  PROVE  KeyStepGood(o)
  <1>1. CASE Begin(o, "create") \/ Begin(o, "import")
    BY <1>1, BeginGood
  <1>2. CASE CtxAlloc(o)
    <2>1. CASE Allocate(o, CtxBlocks, "ctx_alloc",
                        IF how[o] = "create" THEN "temp_alloc" ELSE "unpack")
      BY <2>1, AllocateGood
    <2>2. CASE Fail(o, CtxBlocks, "ctx_alloc", "none")
      BY <2>2, FailGood
    <2> QED
      BY <1>2, <2>1, <2>2 DEF CtxAlloc
  <1>3. CASE TempAlloc(o)
    BY <1>3, AllocateGood, FailGood DEF TempAlloc
  <1>4. CASE PoolAlloc(o)
    BY <1>4, AllocateGood, FailGood DEF PoolAlloc
  <1>5. CASE ErrorExit(o)
    BY <1>5, CtxDestroyGood DEF ErrorExit
  <1>6. CASE KeysDestroy(o)
    BY <1>6, CtxDestroyGood DEF KeysDestroy
  <1>7. CASE \/ Seeds(o) \/ Keys(o) \/ FinallyZ(o) \/ TempDestroy(o) \/ Unpack(o) \/ Check(o)
    BY <1>7, SeedsGood, KeysGood, FinallyZGood, TempDestroyGood, UnpackGood, CheckGood
  <1>8. CASE Bind(o) \/ FullMatrix(o) \/ Destroy(o) \/ PoolDestroy(o)
    BY <1>8, BindGood, FullMatrixGood, DestroyGood, PoolDestroyGood
  <1> QED
    BY <1>1, <1>2, <1>3, <1>4, <1>5, <1>6, <1>7, <1>8 DEF Step

-----------------------------------------------------------------------------
(* Encapsulation pools *)

PoolLevels == Pool!Levels

\* The requested levels whose subpools are built, and what the pool already
\* points to of the one being built.
Done(o) == Before(PoolLevels, at[o]) \cap requested[o]
Building(o) ==
  CASE pool_pc[o] = "u16_mem" -> {"slots"} \X {Pool!Level(o)}
    [] pool_pc[o] = "u8_mem" -> {"slots", "u16_mem"} \X {Pool!Level(o)}
    [] OTHER -> {}

\* The descriptors that are not registered in the pool yet.
Loose(o) == IF pool_pc[o] = "contexts" THEN {<<"slots", Pool!Level(o)>>} ELSE {}

\* Which blocks pool o has at its step: all it points to, directly or by way of
\* the descriptors, and the loose descriptors.  Its pointers are those of the
\* finished subpools and of the one being built.
PoolStage(o) ==
  /\ pool_pc[o] = "none" => Live(o) = {} /\ ptrs[o] = {}
  /\ pool_pc[o] # "none" =>
       Live(o) = {Pool!Root} \cup Pool!Found(o) \cup ptrs[o] \cup Loose(o)
  /\ pool_pc[o] \in {"slots", "contexts", "u16_mem", "u8_mem"} =>
       at[o] \in 1 .. 3 /\ Pool!Level(o) \in requested[o]
  /\ pool_pc[o] \notin {"none", "destroy"} =>
       ptrs[o] = ({"slots", "u16_mem", "u8_mem"} \X Done(o)) \cup Building(o)
  /\ pool_pc[o] = "ready" => at[o] = 4
  /\ \A b \in Live(o) : b[1] \in {"pool", "slots"} => holds[o][b] = "nothing"

PoolInv == Pool!TypeOK /\ \A o \in Pools : PoolStage(o)

AppInv == KeyInv /\ PoolInv /\ NoBadAccess /\ NoSecretFreed

\* The pools live in the same heap as the key objects.
LEMMA SameHeap ==
  /\ \A o, b, content : Pool!New(o, b, content) <=> New(o, b, content)
  /\ \A o, content : Pool!Store(o, content) <=> Store(o, content)
  /\ \A o, wiped, freed : Pool!Clear(o, wiped, freed) <=> Clear(o, wiped, freed)
  /\ \A o : Pool!Live(o) = Live(o)
  /\ Pool!heapVars = heapVars
  /\ \A f : Pool!Range(f) = Range(f)
  <1>1. \A o : Pool!Live(o) = Live(o)
    BY DEF Pool!Live, Live
  <1>2. \A o, b, content : Pool!New(o, b, content) <=> New(o, b, content)
    BY DEF Pool!New, New
  <1>3. \A o, content : Pool!Store(o, content) <=> Store(o, content)
    BY DEF Pool!Store, Store, Pool!Missing, Missing, Pool!Live, Live
  <1>4. \A o, wiped, freed : Pool!Clear(o, wiped, freed) <=> Clear(o, wiped, freed)
    BY DEF Pool!Clear, Clear, Pool!Missing, Missing, Pool!Live, Live
  <1>5. Pool!heapVars = heapVars /\ \A f : Pool!Range(f) = Range(f)
    BY DEF Pool!heapVars, heapVars, Pool!Range, Range
  <1> QED
    BY <1>1, <1>2, <1>3, <1>4, <1>5

AllLevels == {512, 768, 1024}
PoolSteps == {"none", "next", "slots", "contexts", "u16_mem", "u8_mem", "ready", "destroy"}

LEMMA LevelOrder ==
  /\ Len(PoolLevels) = 3 /\ Range(PoolLevels) = AllLevels
  /\ Before(PoolLevels, 1) = {} /\ Before(PoolLevels, 4) = AllLevels
  /\ \A num \in 1 .. 3 :
       /\ PoolLevels[num] \in AllLevels
       /\ PoolLevels[num] \notin Before(PoolLevels, num)
       /\ Before(PoolLevels, num + 1) = Before(PoolLevels, num) \cup {PoolLevels[num]}
  <1>1. DOMAIN PoolLevels = 1 .. 3 /\ Len(PoolLevels) = 3
    BY DEF PoolLevels, Pool!Levels
  <1>2. PoolLevels[1] = 512 /\ PoolLevels[2] = 768 /\ PoolLevels[3] = 1024
    BY DEF PoolLevels, Pool!Levels
  <1>3. Range(PoolLevels) = AllLevels
    BY <1>1, <1>2 DEF Range, AllLevels
  <1> HIDE DEF PoolLevels
  <1>4. Before(PoolLevels, 1) = {} /\ Before(PoolLevels, 4) = AllLevels
    BY <1>1, <1>2 DEF Before, AllLevels
  <1>5. ASSUME NEW num \in 1 .. 3
        PROVE  /\ PoolLevels[num] \in AllLevels
               /\ PoolLevels[num] \notin Before(PoolLevels, num)
               /\ Before(PoolLevels, num + 1) = Before(PoolLevels, num) \cup {PoolLevels[num]}
    <2>1. PoolLevels[num] \in AllLevels
      BY <1>2 DEF AllLevels
    <2>2. PoolLevels[num] \notin Before(PoolLevels, num)
      BY <1>2 DEF Before
    <2>3. Before(PoolLevels, num + 1) = Before(PoolLevels, num) \cup {PoolLevels[num]}
      <3>1. DOMAIN PoolLevels = 1 .. Len(PoolLevels) /\ Len(PoolLevels) \in Nat \ {0}
        BY <1>1
      <3>2. num \in 1 .. Len(PoolLevels)
        BY <1>1
      <3> QED
        BY <3>1, <3>2, BeforeNext
    <2> QED
      BY <2>1, <2>2, <2>3
  <1> QED
    BY <1>1, <1>3, <1>4, <1>5

\* The memory of a pool is typed.
LEMMA PoolMemory ==
  ASSUME PoolInv, NEW o \in Pools
  PROVE  /\ DOMAIN holds = Objects /\ o \in Objects
         /\ holds[o] \in [Live(o) -> Contents] /\ Live(o) \subseteq Pool!Blocks
         /\ PoolStage(o)
         /\ pool_pc \in [Pools -> PoolSteps]
         /\ at \in [Pools -> 1 .. 4]
         /\ requested \in [Pools -> SUBSET AllLevels]
         /\ ptrs \in [Pools -> SUBSET Pool!Blocks]
  <1>1. Pool!TypeOK /\ PoolStage(o)
    BY DEF PoolInv
  <1>2. o \in Objects
    BY ApplicationAssumption
  <1>3. /\ DOMAIN holds = Objects
        /\ holds[o] \in [Live(o) -> Contents] /\ Live(o) \subseteq Pool!Blocks
    BY <1>1 DEF Pool!TypeOK, Pool!HeapType, Pool!Live, Live, Contents
  <1>4. pool_pc \in [Pools -> PoolSteps] /\ ptrs \in [Pools -> SUBSET Pool!Blocks]
    BY <1>1 DEF Pool!TypeOK, PoolSteps
  <1>5. at \in [Pools -> 1 .. 4] /\ requested \in [Pools -> SUBSET AllLevels]
    BY <1>1, LevelOrder, SameHeap DEF Pool!TypeOK, PoolLevels
  <1> QED
    BY <1>1, <1>2, <1>3, <1>4, <1>5

\* A step of pool o: the other objects are left alone, no access goes wrong and
\* nothing at all is left behind.
PoolStepGood(o) ==
  /\ PoolInv'
  /\ HeapFrame(o)
  /\ fault' = fault
  /\ spilled' = spilled

\* The variables of o change as far as their types allow.
PoolMoves(o) ==
  /\ pool_pc' \in [Pools -> PoolSteps]
  /\ at' \in [Pools -> 1 .. 4]
  /\ requested' \in [Pools -> SUBSET AllLevels]
  /\ ptrs' \in [Pools -> SUBSET Pool!Blocks]
  /\ \A p \in Pools \ {o} :
       /\ pool_pc'[p] = pool_pc[p] /\ at'[p] = at[p]
       /\ requested'[p] = requested[p] /\ ptrs'[p] = ptrs[p]

LEMMA PoolLocal ==
  ASSUME PoolInv, NEW o \in Pools, HeapFrame(o), PoolMoves(o),
         holds'[o] \in [Live(o)' -> Contents], Live(o)' \subseteq Pool!Blocks,
         PoolStage(o)'
  PROVE  PoolInv'
  <1>1. Pool!TypeOK'
    <2>1. Pool!HeapType(Pools, Pool!Blocks)'
      <3>1. ASSUME NEW p \in Pools
            PROVE  Live(p)' \subseteq Pool!Blocks /\ holds'[p] \in [Live(p)' -> Contents]
        <4>1. CASE p = o
          BY <4>1
        <4>2. CASE p # o
          <5>1. holds'[p] = holds[p]
            BY <4>2, ApplicationAssumption DEF HeapFrame
          <5>2. Live(p) \subseteq Pool!Blocks /\ holds[p] \in [Live(p) -> Contents]
            BY PoolMemory
          <5> QED
            BY <5>1, <5>2 DEF Live
        <4> QED
          BY <4>1, <4>2
      <3> QED
        BY <3>1 DEF Pool!HeapType, HeapFrame, Contents, Pool!Live, Live
    <2>2. Len(Pool!Levels) + 1 = 4 /\ Pool!Range(Pool!Levels) = AllLevels
      BY LevelOrder, SameHeap DEF PoolLevels
    <2> QED
      BY <2>1, <2>2 DEF Pool!TypeOK, PoolMoves, PoolSteps
  <1>2. ASSUME NEW p \in Pools PROVE PoolStage(p)'
    <2>1. CASE p = o
      BY <2>1
    <2>2. CASE p # o
      <3>1. holds'[p] = holds[p] /\ Live(p)' = Live(p)
        BY <2>2, ApplicationAssumption DEF HeapFrame, Live
      <3>2. /\ pool_pc'[p] = pool_pc[p] /\ at'[p] = at[p]
            /\ requested'[p] = requested[p] /\ ptrs'[p] = ptrs[p]
        BY <2>2 DEF PoolMoves
      <3>3. /\ Done(p)' = Done(p) /\ Building(p)' = Building(p) /\ Loose(p)' = Loose(p)
            /\ Pool!Level(p)' = Pool!Level(p) /\ Pool!Found(p)' = Pool!Found(p)
        BY <3>2 DEF Done, Building, Loose, Pool!Level, Pool!Found
      <3>4. PoolStage(p)
        BY DEF PoolInv
      <3> QED
        BY <3>1, <3>2, <3>3, <3>4 DEF PoolStage
    <2> QED
      BY <2>1, <2>2
  <1> QED
    BY <1>1, <1>2 DEF PoolInv

LEMMA PoolBlocksNames ==
  /\ Pool!Root = <<"pool", 0>> /\ Pool!Root \in Pool!Blocks
  /\ \A part \in {"slots", "contexts", "u16_mem", "u8_mem"} : \A l \in AllLevels :
       <<part, l>> \in Pool!Blocks
  /\ Pool!Parts = {"slots", "contexts", "u16_mem", "u8_mem"}
  <1>1. Pool!Range(Pool!Levels) = AllLevels
    BY LevelOrder, SameHeap DEF PoolLevels
  <1> QED
    BY <1>1 DEF Pool!Blocks, Pool!Root, Pool!Parts

\* A new block in a pool.
LEMMA NewInPool ==
  ASSUME PoolInv, NEW o \in Pools, NEW b \in Pool!Blocks,
         NEW content \in {"nothing", "public"}, Pool!New(o, b, content),
         b[1] \in {"pool", "slots"} => content = "nothing"
  PROVE  /\ HeapFrame(o) /\ fault' = fault /\ spilled' = spilled
         /\ Live(o)' = Live(o) \cup {b}
         /\ holds'[o] \in [Live(o)' -> Contents] /\ Live(o)' \subseteq Pool!Blocks
         /\ \A c \in Live(o)' : c[1] \in {"pool", "slots"} => holds'[o][c] = "nothing"
  <1>1. /\ HeapFrame(o) /\ fault' = fault /\ spilled' = spilled
        /\ holds'[o] = [c \in Live(o) \cup {b} |-> IF c = b THEN content ELSE holds[o][c]]
    <2>1. DOMAIN holds = Objects /\ o \in Objects /\ New(o, b, content)
      BY PoolMemory, SameHeap
    <2> QED
      BY <2>1, NewBlock
  <1>2. Live(o)' = Live(o) \cup {b}
    BY <1>1 DEF Live
  <1>3. holds'[o] \in [Live(o)' -> Contents] /\ Live(o)' \subseteq Pool!Blocks
    BY <1>1, <1>2, PoolMemory DEF Contents
  <1>4. \A c \in Live(o) : c[1] \in {"pool", "slots"} => holds[o][c] = "nothing"
    BY PoolMemory DEF PoolStage
  <1>5. \A c \in Live(o)' : c[1] \in {"pool", "slots"} => holds'[o][c] = "nothing"
    BY <1>1, <1>2, <1>4
  <1> QED
    BY <1>1, <1>2, <1>3, <1>5

\* Blocks of a pool are freed, those not wiped before with nothing in them.
LEMMA ClearInPool ==
  ASSUME PoolInv, NEW o \in Pools, NEW wiped, NEW freed, Pool!Clear(o, wiped, freed),
         wiped \subseteq Live(o), freed \subseteq Live(o),
         \A b \in freed \ wiped : b[1] \in {"pool", "slots"}
  PROVE  /\ HeapFrame(o) /\ fault' = fault /\ spilled' = spilled
         /\ Live(o)' = Live(o) \ freed
         /\ holds'[o] \in [Live(o)' -> Contents] /\ Live(o)' \subseteq Pool!Blocks
         /\ \A c \in Live(o)' : c[1] \in {"pool", "slots"} => holds'[o][c] = "nothing"
  <1>0. \A c \in Live(o) : c[1] \in {"pool", "slots"} => holds[o][c] = "nothing"
    BY PoolMemory DEF PoolStage
  <1>1. /\ HeapFrame(o) /\ fault' = fault
        /\ holds'[o] = [b \in Live(o) \ freed |->
             IF b \in wiped THEN "nothing" ELSE holds[o][b]]
        /\ \A w \in spilled' \ spilled :
             \E b \in freed \ wiped :
               w = <<o, b, holds[o][b]>> /\ holds[o][b] # "nothing"
    <2>1. DOMAIN holds = Objects /\ o \in Objects /\ Clear(o, wiped, freed)
      BY PoolMemory, SameHeap
    <2>2. Cleared(o, wiped, freed)
      BY <2>1, ClearBlocks
    <2> QED
      BY <2>2 DEF Cleared
  <1>2. Live(o)' = Live(o) \ freed
    BY <1>1 DEF Live
  <1>3. holds'[o] \in [Live(o)' -> Contents] /\ Live(o)' \subseteq Pool!Blocks
    BY <1>1, <1>2, PoolMemory DEF Contents
  <1>4. spilled' = spilled
    <2>1. \A w : w \notin spilled' \ spilled
      BY <1>0, <1>1
    <2>2. spilled \subseteq spilled'
      BY SameHeap DEF Clear
    <2> QED
      BY <2>1, <2>2
  <1>5. \A c \in Live(o)' : c[1] \in {"pool", "slots"} => holds'[o][c] = "nothing"
    BY <1>0, <1>1, <1>2
  <1> QED
    BY <1>1, <1>2, <1>3, <1>4, <1>5

LEMMA CreateGood ==
  ASSUME PoolInv, NEW o \in Pools, NEW levels \in SUBSET AllLevels, Pool!Create(o, levels)
  PROVE  PoolStepGood(o)
  <1>1. /\ pool_pc[o] = "none" /\ Live(o) = {}
        /\ Pool!New(o, Pool!Root, "nothing")
    BY PoolMemory DEF Pool!Create, Pool!Goto, PoolStage
  <1>2. /\ HeapFrame(o) /\ fault' = fault /\ spilled' = spilled
        /\ Live(o)' = {Pool!Root}
        /\ holds'[o] \in [Live(o)' -> Contents] /\ Live(o)' \subseteq Pool!Blocks
        /\ \A c \in Live(o)' : c[1] \in {"pool", "slots"} => holds'[o][c] = "nothing"
    BY <1>1, NewInPool, PoolBlocksNames
  <1>3. /\ PoolMoves(o)
        /\ pool_pc'[o] = "next" /\ at'[o] = 1 /\ requested'[o] = levels /\ ptrs'[o] = {}
    BY PoolMemory DEF Pool!Create, Pool!Goto, PoolMoves, PoolSteps
  <1>4. /\ Done(o)' = {} /\ Building(o)' = {} /\ Loose(o)' = {} /\ Pool!Found(o)' = {}
    BY <1>3, LevelOrder DEF Done, Building, Loose, Pool!Found
  <1>5. PoolStage(o)'
    BY <1>2, <1>3, <1>4 DEF PoolStage
  <1> QED
    BY <1>2, <1>3, <1>5, PoolLocal DEF PoolStepGood

\* The heap is left alone and the pointers too.
LEMMA QuietPoolStep ==
  ASSUME PoolInv, NEW o \in Pools, UNCHANGED heapVars, PoolMoves(o), PoolStage(o)'
  PROVE  PoolStepGood(o)
  <1>1. HeapFrame(o) /\ fault' = fault /\ spilled' = spilled /\ Live(o)' = Live(o)
    BY PoolMemory DEF HeapFrame, heapVars, Live
  <1>2. holds'[o] \in [Live(o)' -> Contents] /\ Live(o)' \subseteq Pool!Blocks
    BY <1>1, PoolMemory DEF heapVars
  <1> QED
    BY <1>1, <1>2, PoolLocal DEF PoolStepGood

LEMMA NextLevelGood ==
  ASSUME PoolInv, NEW o \in Pools, Pool!NextLevel(o)
  PROVE  PoolStepGood(o)
  <1>1. /\ pool_pc[o] = "next" /\ PoolStage(o)
        /\ requested' = requested /\ ptrs' = ptrs /\ UNCHANGED heapVars
        /\ holds' = holds /\ Live(o)' = Live(o)
    BY PoolMemory DEF Pool!NextLevel, Pool!Goto, Pool!heapVars, heapVars, Live
  <1>2. /\ ptrs[o] = ({"slots", "u16_mem", "u8_mem"} \X Done(o)) \cup {}
        /\ Live(o) = {Pool!Root} \cup Pool!Found(o) \cup ptrs[o] \cup {}
        /\ Pool!Found(o)' = Pool!Found(o)
    BY <1>1 DEF PoolStage, Building, Loose, Pool!Found
  <1>3. Len(Pool!Levels) = 3
    BY LevelOrder DEF PoolLevels
  <1>4. CASE at[o] > 3 /\ Pool!Goto(o, "next", "ready") /\ at' = at
    <2>1. PoolMoves(o) /\ pool_pc'[o] = "ready" /\ at[o] = 4
      BY <1>1, <1>4, PoolMemory DEF Pool!Goto, PoolMoves, PoolSteps
    <2>2. Done(o)' = Done(o) /\ Building(o)' = {} /\ Loose(o)' = {}
      BY <1>1, <1>4, <2>1 DEF Done, Building, Loose
    <2>3. PoolStage(o)'
      BY <1>1, <1>2, <1>4, <2>1, <2>2 DEF PoolStage
    <2> QED
      BY <1>1, <2>1, <2>3, QuietPoolStep
  <1>5. CASE /\ at[o] <= 3 /\ Pool!Level(o) \in requested[o]
             /\ Pool!Goto(o, "next", "slots") /\ at' = at
    <2>1. PoolMoves(o) /\ pool_pc'[o] = "slots" /\ at[o] \in 1 .. 3
      BY <1>1, <1>5, PoolMemory DEF Pool!Goto, PoolMoves, PoolSteps
    <2>2. /\ Done(o)' = Done(o) /\ Building(o)' = {} /\ Loose(o)' = {}
          /\ Pool!Level(o)' = Pool!Level(o)
      BY <1>1, <1>5, <2>1 DEF Done, Building, Loose, Pool!Level
    <2>3. PoolStage(o)'
      BY <1>1, <1>2, <1>5, <2>1, <2>2 DEF PoolStage
    <2> QED
      BY <1>1, <2>1, <2>3, QuietPoolStep
  <1>6. CASE /\ at[o] <= 3 /\ Pool!Level(o) \notin requested[o]
             /\ at' = [at EXCEPT ![o] = @ + 1] /\ pool_pc' = pool_pc
    <2>1. PoolMoves(o) /\ pool_pc'[o] = "next" /\ at[o] \in 1 .. 3 /\ at'[o] = at[o] + 1
      <3>1. at \in [Pools -> 1 .. 4]
        BY PoolMemory
      <3>2. at[o] \in 1 .. 3 /\ at'[o] = at[o] + 1 /\ at' \in [Pools -> 1 .. 4]
        BY <1>6, <3>1
      <3> QED
        BY <1>1, <1>6, <3>2, PoolMemory DEF PoolMoves
    <2>2. Done(o)' = Done(o)
      <3>1. Before(PoolLevels, at'[o]) = Before(PoolLevels, at[o]) \cup {Pool!Level(o)}
        BY <2>1, LevelOrder DEF PoolLevels, Pool!Level
      <3> QED
        BY <1>1, <1>6, <3>1 DEF Done
    <2>3. Building(o)' = {} /\ Loose(o)' = {}
      BY <2>1 DEF Building, Loose
    <2>4. PoolStage(o)'
      BY <1>1, <1>2, <2>1, <2>2, <2>3 DEF PoolStage
    <2> QED
      BY <1>1, <2>1, <2>4, QuietPoolStep
  <1> QED
    BY <1>1, <1>3, <1>4, <1>5, <1>6 DEF Pool!NextLevel

\* The subpool being built is that of a requested level not built yet.
LEMMA BuildingLevel ==
  ASSUME PoolInv, NEW o \in Pools,
         pool_pc[o] \in {"slots", "contexts", "u16_mem", "u8_mem"}
  PROVE  /\ at[o] \in 1 .. 3 /\ Pool!Level(o) \in AllLevels
         /\ Pool!Level(o) \in requested[o] /\ Pool!Level(o) \notin Done(o)
         /\ at' = at => Pool!Level(o)' = Pool!Level(o)
         /\ at' = at /\ requested' = requested => Done(o)' = Done(o)
         /\ at' = [at EXCEPT ![o] = @ + 1] /\ requested' = requested =>
              /\ at'[o] = at[o] + 1 /\ at' \in [Pools -> 1 .. 4]
              /\ Done(o)' = Done(o) \cup {Pool!Level(o)}
  <1>1. at[o] \in 1 .. 3 /\ Pool!Level(o) \in requested[o]
    BY PoolMemory DEF PoolStage
  <1>2. /\ Pool!Level(o) \in AllLevels /\ Pool!Level(o) \notin Before(PoolLevels, at[o])
        /\ Before(PoolLevels, at[o] + 1) = Before(PoolLevels, at[o]) \cup {Pool!Level(o)}
    BY <1>1, LevelOrder DEF PoolLevels, Pool!Level
  <1>3. ASSUME at' = [at EXCEPT ![o] = @ + 1], requested' = requested
        PROVE  /\ at'[o] = at[o] + 1 /\ at' \in [Pools -> 1 .. 4]
               /\ Done(o)' = Done(o) \cup {Pool!Level(o)}
    <2>1. at \in [Pools -> 1 .. 4]
      BY PoolMemory
    <2>2. at'[o] = at[o] + 1 /\ at' \in [Pools -> 1 .. 4]
      BY <1>1, <1>3, <2>1
    <2> QED
      BY <1>1, <1>2, <1>3, <2>2 DEF Done
  <1>4. Pool!Level(o) \notin Done(o)
    BY <1>2 DEF Done
  <1>5. at' = at => Pool!Level(o)' = Pool!Level(o)
    BY DEF Pool!Level
  <1>6. at' = at /\ requested' = requested => Done(o)' = Done(o)
    BY DEF Done
  <1> QED
    BY <1>1, <1>2, <1>3, <1>4, <1>5, <1>6

LEMMA SlotsGood ==
  ASSUME PoolInv, NEW o \in Pools, Pool!Slots(o)
  PROVE  PoolStepGood(o)
  <1>1. /\ pool_pc[o] = "slots" /\ PoolStage(o)
        /\ at' = at /\ requested' = requested /\ ptrs' = ptrs
    BY PoolMemory DEF Pool!Slots, Pool!Goto
  <1>2. /\ ptrs[o] = {"slots", "u16_mem", "u8_mem"} \X Done(o)
        /\ Live(o) = {Pool!Root} \cup Pool!Found(o) \cup ptrs[o]
        /\ Pool!Found(o)' = Pool!Found(o)
    BY <1>1 DEF PoolStage, Building, Loose, Pool!Found
  <1>3. /\ at[o] \in 1 .. 3 /\ Pool!Level(o) \in requested[o] /\ Pool!Level(o) \in AllLevels
        /\ Pool!Level(o)' = Pool!Level(o) /\ Done(o)' = Done(o)
    BY <1>1, BuildingLevel
  <1>4. CASE /\ Pool!Goto(o, "slots", "contexts")
             /\ Pool!New(o, <<"slots", Pool!Level(o)>>, "nothing")
    <2>1. PoolMoves(o) /\ pool_pc'[o] = "contexts"
      BY <1>1, <1>4, PoolMemory DEF Pool!Goto, PoolMoves, PoolSteps
    <2>2. /\ HeapFrame(o) /\ fault' = fault /\ spilled' = spilled
          /\ Live(o)' = Live(o) \cup {<<"slots", Pool!Level(o)>>}
          /\ holds'[o] \in [Live(o)' -> Contents] /\ Live(o)' \subseteq Pool!Blocks
          /\ \A c \in Live(o)' : c[1] \in {"pool", "slots"} => holds'[o][c] = "nothing"
      BY <1>3, <1>4, NewInPool, PoolBlocksNames
    <2>3. Building(o)' = {} /\ Loose(o)' = {<<"slots", Pool!Level(o)>>}
      BY <1>3, <2>1 DEF Building, Loose
    <2>4. PoolStage(o)'
      BY <1>1, <1>2, <1>3, <2>1, <2>2, <2>3 DEF PoolStage
    <2> QED
      BY <2>1, <2>2, <2>4, PoolLocal DEF PoolStepGood
  <1>5. CASE Pool!Goto(o, "slots", "destroy") /\ UNCHANGED heapVars
    <2>1. PoolMoves(o) /\ pool_pc'[o] = "destroy"
      BY <1>1, <1>5, PoolMemory DEF Pool!Goto, PoolMoves, PoolSteps
    <2>2. holds' = holds /\ Live(o)' = Live(o) /\ Loose(o)' = {}
      BY <1>5, <2>1 DEF heapVars, Live, Loose
    <2>3. PoolStage(o)'
      BY <1>1, <1>2, <2>1, <2>2 DEF PoolStage
    <2> QED
      BY <1>5, <2>1, <2>3, QuietPoolStep
  <1> QED
    BY <1>4, <1>5 DEF Pool!Slots, Pool!heapVars, heapVars

LEMMA ContextsGood ==
  ASSUME PoolInv, NEW o \in Pools, Pool!Contexts(o)
  PROVE  PoolStepGood(o)
  <1> DEFINE l == Pool!Level(o)
  <1>1. /\ pool_pc[o] = "contexts" /\ PoolStage(o)
        /\ at' = at /\ requested' = requested
    BY PoolMemory DEF Pool!Contexts, Pool!Goto
  <1>2. /\ ptrs[o] = {"slots", "u16_mem", "u8_mem"} \X Done(o)
        /\ Live(o) = {Pool!Root} \cup Pool!Found(o) \cup ptrs[o] \cup {<<"slots", l>>}
    BY <1>1 DEF PoolStage, Building, Loose
  <1>3. /\ at[o] \in 1 .. 3 /\ l \in requested[o] /\ l \in AllLevels /\ l \notin Done(o)
        /\ Pool!Level(o)' = l /\ Done(o)' = Done(o)
    BY <1>1, BuildingLevel
  <1> HIDE DEF l
  <1>4. CASE /\ Pool!Goto(o, "contexts", "u16_mem")
             /\ Pool!New(o, <<"contexts", l>>, "public")
             /\ ptrs' = [ptrs EXCEPT ![o] = @ \cup {<<"slots", l>>}]
    <2>1. /\ PoolMoves(o) /\ pool_pc'[o] = "u16_mem"
          /\ ptrs'[o] = ptrs[o] \cup {<<"slots", l>>}
      <3>1. <<"slots", l>> \in Pool!Blocks /\ ptrs \in [Pools -> SUBSET Pool!Blocks]
        BY <1>3, PoolBlocksNames, PoolMemory
      <3>2. /\ ptrs' \in [Pools -> SUBSET Pool!Blocks]
            /\ ptrs'[o] = ptrs[o] \cup {<<"slots", l>>}
        BY <1>4, <3>1
      <3> QED
        BY <1>1, <1>4, <3>2, PoolMemory DEF Pool!Goto, PoolMoves, PoolSteps
    <2>2. /\ HeapFrame(o) /\ fault' = fault /\ spilled' = spilled
          /\ Live(o)' = Live(o) \cup {<<"contexts", l>>}
          /\ holds'[o] \in [Live(o)' -> Contents] /\ Live(o)' \subseteq Pool!Blocks
          /\ \A c \in Live(o)' : c[1] \in {"pool", "slots"} => holds'[o][c] = "nothing"
      <3>1. <<"contexts", l>> \in Pool!Blocks /\ <<"contexts", l>>[1] \notin {"pool", "slots"}
        BY <1>3, PoolBlocksNames
      <3> QED
        BY <1>4, <3>1, NewInPool
    <2>3. Building(o)' = {"slots"} \X {l} /\ Loose(o)' = {}
      BY <1>3, <2>1 DEF Building, Loose
    <2>4. Pool!Found(o)' = Pool!Found(o) \cup {<<"contexts", l>>}
      <3>1. \A b : b \in Pool!Found(o)' <=>
              \/ \E c \in ptrs'[o] : c[1] = "slots" /\ b = <<"contexts", c[2]>>
              \/ b \in ptrs'[o] /\ b[1] # "slots"
        BY DEF Pool!Found
      <3>2. \A b : b \in Pool!Found(o) <=>
              \/ \E c \in ptrs[o] : c[1] = "slots" /\ b = <<"contexts", c[2]>>
              \/ b \in ptrs[o] /\ b[1] # "slots"
        BY DEF Pool!Found
      <3>3. <<"slots", l>>[1] = "slots" /\ <<"slots", l>>[2] = l
        OBVIOUS
      <3>4. \A b : b \in Pool!Found(o)' <=> b \in Pool!Found(o) \cup {<<"contexts", l>>}
        BY <2>1, <3>1, <3>2, <3>3
      <3> QED
        BY <3>4
    <2>5. Live(o)' = {Pool!Root} \cup Pool!Found(o)' \cup ptrs'[o] \cup Loose(o)'
      BY <1>2, <2>1, <2>2, <2>3, <2>4
    <2>6. ptrs'[o] = ({"slots", "u16_mem", "u8_mem"} \X Done(o)') \cup Building(o)'
      BY <1>2, <1>3, <2>1, <2>3
    <2>7. PoolStage(o)'
      BY <1>1, <1>3, <2>1, <2>2, <2>5, <2>6 DEF PoolStage
    <2> QED
      BY <2>1, <2>2, <2>7, PoolLocal DEF PoolStepGood
  <1>5. CASE /\ Pool!Goto(o, "contexts", "destroy")
             /\ Pool!Clear(o, {}, {<<"slots", l>>})
             /\ ptrs' = ptrs
    <2>1. PoolMoves(o) /\ pool_pc'[o] = "destroy"
      BY <1>1, <1>5, PoolMemory DEF Pool!Goto, PoolMoves, PoolSteps
    <2>2. /\ HeapFrame(o) /\ fault' = fault /\ spilled' = spilled
          /\ Live(o)' = Live(o) \ {<<"slots", l>>}
          /\ holds'[o] \in [Live(o)' -> Contents] /\ Live(o)' \subseteq Pool!Blocks
          /\ \A c \in Live(o)' : c[1] \in {"pool", "slots"} => holds'[o][c] = "nothing"
      <3>1. {<<"slots", l>>} \subseteq Live(o) /\ <<"slots", l>>[1] = "slots"
        BY <1>2
      <3> QED
        BY <1>5, <3>1, ClearInPool
    <2>3. /\ <<"slots", l>> \notin ptrs[o]
          /\ <<"slots", l>> \notin Pool!Found(o)
          /\ <<"slots", l>> # Pool!Root
      <3>1. <<"slots", l>> \notin ptrs[o]
        BY <1>2, <1>3
      <3>2. <<"slots", l>> \notin Pool!Found(o)
        BY DEF Pool!Found
      <3>3. <<"slots", l>> # Pool!Root
        BY PoolBlocksNames
      <3> QED
        BY <3>1, <3>2, <3>3
    <2>4. Pool!Found(o)' = Pool!Found(o) /\ Loose(o)' = {}
      BY <1>5, <2>1 DEF Pool!Found, Loose
    <2>5. Live(o)' = {Pool!Root} \cup Pool!Found(o)' \cup ptrs'[o] \cup Loose(o)'
      BY <1>2, <1>5, <2>2, <2>3, <2>4
    <2>6. PoolStage(o)'
      BY <2>1, <2>2, <2>5 DEF PoolStage
    <2> QED
      BY <2>1, <2>2, <2>6, PoolLocal DEF PoolStepGood
  <1> QED
    BY <1>4, <1>5 DEF Pool!Contexts, l

\* A buffer is allocated and the pool points to it, and with the second one the
\* subpool is finished.
LEMMA BufferGood ==
  ASSUME PoolInv, NEW o \in Pools, NEW part \in {"u16_mem", "u8_mem"}, NEW to,
         to = (IF part = "u16_mem" THEN "u8_mem" ELSE "next"),
         Pool!Buffer(o, part, to)
  PROVE  PoolStepGood(o)
  <1> DEFINE l == Pool!Level(o)
  <1>1. pool_pc[o] = part /\ PoolStage(o) /\ requested' = requested
    BY PoolMemory DEF Pool!Buffer, Pool!Goto
  <1>2. /\ ptrs[o] = ({"slots", "u16_mem", "u8_mem"} \X Done(o)) \cup Building(o)
        /\ Building(o) = (IF part = "u16_mem" THEN {"slots"} ELSE {"slots", "u16_mem"}) \X {l}
        /\ Live(o) = {Pool!Root} \cup Pool!Found(o) \cup ptrs[o]
    BY <1>1 DEF PoolStage, Building, Loose
  <1>3. /\ at[o] \in 1 .. 3 /\ l \in requested[o] /\ l \in AllLevels
        /\ at' = at => Pool!Level(o)' = l /\ Done(o)' = Done(o)
        /\ at' = [at EXCEPT ![o] = @ + 1] =>
             at'[o] = at[o] + 1 /\ at' \in [Pools -> 1 .. 4] /\ Done(o)' = Done(o) \cup {l}
    BY <1>1, BuildingLevel
  <1> HIDE DEF l
  <1>4. CASE /\ Pool!Goto(o, part, to)
             /\ Pool!New(o, <<part, l>>, "nothing")
             /\ ptrs' = [ptrs EXCEPT ![o] = @ \cup {<<part, l>>}]
             /\ at' = [at EXCEPT ![o] = IF part = "u8_mem" THEN @ + 1 ELSE @]
    <2>1. /\ part = "u8_mem" => at' = [at EXCEPT ![o] = @ + 1]
          /\ part = "u16_mem" => at' = at
      <3>1. at \in [Pools -> 1 .. 4]
        BY PoolMemory
      <3>2. part = "u8_mem" => at' = [at EXCEPT ![o] = @ + 1]
        BY <1>4
      <3>3. part = "u16_mem" => at' = at
        BY <1>4, <3>1
      <3> QED
        BY <3>2, <3>3
    <2>2. /\ PoolMoves(o) /\ pool_pc'[o] = to
          /\ ptrs'[o] = ptrs[o] \cup {<<part, l>>}
      <3>1. <<part, l>> \in Pool!Blocks /\ ptrs \in [Pools -> SUBSET Pool!Blocks]
        BY <1>3, PoolBlocksNames, PoolMemory
      <3>2. /\ ptrs' \in [Pools -> SUBSET Pool!Blocks]
            /\ ptrs'[o] = ptrs[o] \cup {<<part, l>>}
        BY <1>4, <3>1
      <3>3. at' \in [Pools -> 1 .. 4] /\ \A p \in Pools \ {o} : at'[p] = at[p]
        BY <1>3, <1>4, <2>1, PoolMemory
      <3> QED
        BY <1>1, <1>4, <3>2, <3>3, PoolMemory DEF Pool!Goto, PoolMoves, PoolSteps
    <2>3. /\ HeapFrame(o) /\ fault' = fault /\ spilled' = spilled
          /\ Live(o)' = Live(o) \cup {<<part, l>>}
          /\ holds'[o] \in [Live(o)' -> Contents] /\ Live(o)' \subseteq Pool!Blocks
          /\ \A c \in Live(o)' : c[1] \in {"pool", "slots"} => holds'[o][c] = "nothing"
      BY <1>3, <1>4, NewInPool, PoolBlocksNames
    <2>4. Pool!Found(o)' = Pool!Found(o) \cup {<<part, l>>} /\ Loose(o)' = {}
      BY <2>2 DEF Pool!Found, Loose
    <2>5. Live(o)' = {Pool!Root} \cup Pool!Found(o)' \cup ptrs'[o] \cup Loose(o)'
      BY <1>2, <2>2, <2>3, <2>4
    <2>6. ptrs'[o] = ({"slots", "u16_mem", "u8_mem"} \X Done(o)') \cup Building(o)'
      <3>1. CASE part = "u16_mem"
        <4>1. Building(o)' = {"slots", "u16_mem"} \X {l} /\ Done(o)' = Done(o)
          BY <1>3, <2>1, <2>2, <3>1 DEF Building
        <4> QED
          BY <1>2, <2>2, <3>1, <4>1
      <3>2. CASE part = "u8_mem"
        <4>1. Building(o)' = {} /\ Done(o)' = Done(o) \cup {l}
          BY <1>3, <2>1, <2>2, <3>2 DEF Building
        <4> QED
          BY <1>2, <2>2, <3>2, <4>1
      <3> QED
        BY <3>1, <3>2
    <2>7. PoolStage(o)'
      BY <1>1, <1>3, <2>1, <2>2, <2>3, <2>5, <2>6 DEF PoolStage
    <2> QED
      BY <2>2, <2>3, <2>7, PoolLocal DEF PoolStepGood
  <1>5. CASE Pool!Goto(o, part, "destroy") /\ UNCHANGED heapVars /\ ptrs' = ptrs /\ at' = at
    <2>1. PoolMoves(o) /\ pool_pc'[o] = "destroy"
      BY <1>1, <1>5, PoolMemory DEF Pool!Goto, PoolMoves, PoolSteps
    <2>2. /\ holds' = holds /\ Live(o)' = Live(o) /\ Loose(o)' = {}
          /\ Pool!Found(o)' = Pool!Found(o)
      BY <1>5, <2>1 DEF heapVars, Live, Loose, Pool!Found
    <2>3. PoolStage(o)'
      BY <1>1, <1>2, <1>5, <2>1, <2>2 DEF PoolStage
    <2> QED
      BY <1>5, <2>1, <2>3, QuietPoolStep
  <1> QED
    BY <1>4, <1>5 DEF Pool!Buffer, Pool!heapVars, heapVars, l

\* An encapsulation works in buffers that are there.
LEMMA EncapsulateGood ==
  ASSUME PoolInv, NEW o \in Pools, NEW l \in AllLevels, Pool!Encapsulate(o, l)
  PROVE  PoolStepGood(o)
  <1> DEFINE content == [b \in {"u16_mem", "u8_mem"} \X {l} |-> "public"]
  <1>1. /\ pool_pc[o] = "ready" /\ PoolStage(o) /\ l \in requested[o]
        /\ pool_pc' = pool_pc /\ at' = at /\ requested' = requested /\ ptrs' = ptrs
        /\ Store(o, content)
    BY PoolMemory, SameHeap DEF Pool!Encapsulate
  <1>2. l \in Done(o)
    BY <1>1, LevelOrder DEF PoolStage, Done
  <1>3. DOMAIN content = {"u16_mem", "u8_mem"} \X {l}
    OBVIOUS
  <1>4. DOMAIN content \subseteq Live(o)
    BY <1>1, <1>2, <1>3 DEF PoolStage
  <1>5. \A b \in DOMAIN content : content[b] = "public" /\ b[1] \notin {"pool", "slots"}
    OBVIOUS
  <1> HIDE DEF content
  <1>6. /\ HeapFrame(o) /\ fault' = fault /\ spilled' = spilled
        /\ holds'[o] = [b \in Live(o) |->
             IF b \in DOMAIN content THEN content[b] ELSE holds[o][b]]
    <2>1. DOMAIN holds = Objects /\ o \in Objects
      BY PoolMemory
    <2> QED
      BY <1>1, <1>4, <2>1, StoreBlocks
  <1>7. Live(o)' = Live(o)
    BY <1>6 DEF Live
  <1>8. holds'[o] \in [Live(o)' -> Contents] /\ Live(o)' \subseteq Pool!Blocks
    BY <1>5, <1>6, <1>7, PoolMemory DEF Contents
  <1>9. \A b \in Live(o)' : b[1] \in {"pool", "slots"} => holds'[o][b] = "nothing"
    BY <1>1, <1>5, <1>6, <1>7 DEF PoolStage
  <1>10. PoolMoves(o)
    BY <1>1, PoolMemory DEF PoolMoves
  <1>11. /\ Done(o)' = Done(o) /\ Building(o)' = Building(o) /\ Loose(o)' = Loose(o)
         /\ Pool!Found(o)' = Pool!Found(o)
    BY <1>1 DEF Done, Building, Loose, Pool!Found, Pool!Level
  <1>12. PoolStage(o)'
    BY <1>1, <1>7, <1>9, <1>11 DEF PoolStage
  <1> QED
    BY <1>6, <1>8, <1>10, <1>12, PoolLocal DEF PoolStepGood

LEMMA CloseGood ==
  ASSUME PoolInv, NEW o \in Pools, Pool!Close(o)
  PROVE  PoolStepGood(o)
  <1>1. /\ pool_pc[o] = "ready" /\ PoolStage(o) /\ UNCHANGED heapVars
        /\ at' = at /\ requested' = requested /\ ptrs' = ptrs
    BY PoolMemory DEF Pool!Close, Pool!Goto, Pool!heapVars, heapVars
  <1>2. PoolMoves(o) /\ pool_pc'[o] = "destroy"
    BY <1>1, PoolMemory DEF Pool!Close, Pool!Goto, PoolMoves, PoolSteps
  <1>3. /\ holds' = holds /\ Live(o)' = Live(o) /\ Loose(o) = {} /\ Loose(o)' = {}
        /\ Pool!Found(o)' = Pool!Found(o)
    BY <1>1, <1>2 DEF heapVars, Live, Loose, Pool!Found
  <1>4. PoolStage(o)'
    BY <1>1, <1>2, <1>3 DEF PoolStage
  <1> QED
    BY <1>1, <1>2, <1>4, QuietPoolStep

\* The destructor finds all there is, and what it does not wipe is empty.
LEMMA PoolGone ==
  ASSUME PoolInv, NEW o \in Pools, Pool!Destroy(o)
  PROVE  PoolStepGood(o)
  <1> DEFINE freed == Pool!Found(o) \cup ptrs[o] \cup {Pool!Root}
  <1>1. /\ pool_pc[o] = "destroy" /\ PoolStage(o)
        /\ at' = at /\ requested' = requested
        /\ Pool!Clear(o, Pool!Found(o), freed)
    BY PoolMemory DEF Pool!Destroy, Pool!Goto
  <1>2. Live(o) = freed
    BY <1>1 DEF PoolStage, Loose
  <1>3. \A b \in freed \ Pool!Found(o) : b[1] \in {"pool", "slots"}
    BY PoolBlocksNames DEF Pool!Found
  <1>4. Pool!Found(o) \subseteq Live(o) /\ freed \subseteq Live(o)
    BY <1>2
  <1> HIDE DEF freed
  <1>5. /\ HeapFrame(o) /\ fault' = fault /\ spilled' = spilled
        /\ Live(o)' = Live(o) \ freed
        /\ holds'[o] \in [Live(o)' -> Contents] /\ Live(o)' \subseteq Pool!Blocks
    BY <1>1, <1>3, <1>4, ClearInPool
  <1>6. PoolMoves(o) /\ pool_pc'[o] = "none" /\ ptrs'[o] = {}
    BY <1>1, PoolMemory DEF Pool!Destroy, Pool!Goto, PoolMoves, PoolSteps
  <1>7. Live(o)' = {}
    BY <1>2, <1>5
  <1>8. PoolStage(o)'
    BY <1>6, <1>7 DEF PoolStage
  <1> QED
    BY <1>5, <1>6, <1>8, PoolLocal DEF PoolStepGood

LEMMA PoolStep ==
  ASSUME PoolInv, NEW o \in Pools, Pool!Step(o)
  PROVE  PoolStepGood(o)
  <1>1. Pool!Range(Pool!Levels) = AllLevels
    BY LevelOrder, SameHeap DEF PoolLevels
  <1>2. CASE \E levels \in SUBSET AllLevels : Pool!Create(o, levels)
    BY <1>2, CreateGood
  <1>3. CASE Pool!NextLevel(o) \/ Pool!Slots(o) \/ Pool!Contexts(o)
    BY <1>3, NextLevelGood, SlotsGood, ContextsGood
  <1>4. CASE Pool!Buffer(o, "u16_mem", "u8_mem") \/ Pool!Buffer(o, "u8_mem", "next")
    <2>1. CASE Pool!Buffer(o, "u16_mem", "u8_mem")
      BY <2>1, BufferGood
    <2>2. CASE Pool!Buffer(o, "u8_mem", "next")
      BY <2>2, BufferGood
    <2> QED
      BY <1>4, <2>1, <2>2
  <1>5. CASE \E l \in AllLevels : Pool!Encapsulate(o, l)
    BY <1>5, EncapsulateGood
  <1>6. CASE Pool!Close(o) \/ Pool!Destroy(o)
    BY <1>6, CloseGood, PoolGone
  <1> QED
    BY <1>1, <1>2, <1>3, <1>4, <1>5, <1>6 DEF Pool!Step

-----------------------------------------------------------------------------
(* Key objects and encapsulation pools side by side *)

\* What no step of the key objects touches holds of the pools as before.
LEMMA PoolsFramed ==
  ASSUME PoolInv, DOMAIN holds' = Objects, \A p \in Pools : holds'[p] = holds[p],
         UNCHANGED poolVars
  PROVE  PoolInv'
  <1>1. Pool!TypeOK'
    <2>1. ASSUME NEW p \in Pools
          PROVE  Live(p)' \subseteq Pool!Blocks /\ holds'[p] \in [Live(p)' -> Contents]
      BY <2>1, PoolMemory DEF Live
    <2>2. Pool!HeapType(Pools, Pool!Blocks)'
      BY <2>1 DEF Pool!HeapType, Contents, Pool!Live, Live
    <2> QED
      BY <2>2 DEF PoolInv, Pool!TypeOK, poolVars
  <1>2. ASSUME NEW p \in Pools PROVE PoolStage(p)'
    <2>1. holds'[p] = holds[p] /\ Live(p)' = Live(p)
      BY DEF Live
    <2>2. /\ pool_pc' = pool_pc /\ at' = at /\ requested' = requested /\ ptrs' = ptrs
      BY DEF poolVars
    <2>3. /\ Done(p)' = Done(p) /\ Building(p)' = Building(p) /\ Loose(p)' = Loose(p)
          /\ Pool!Level(p)' = Pool!Level(p) /\ Pool!Found(p)' = Pool!Found(p)
      BY <2>2 DEF Done, Building, Loose, Pool!Level, Pool!Found
    <2>4. PoolStage(p)
      BY DEF PoolInv
    <2> QED
      BY <2>1, <2>2, <2>3, <2>4 DEF PoolStage
  <1> QED
    BY <1>1, <1>2 DEF PoolInv

LEMMA KeysFramed ==
  ASSUME KeyInv, DOMAIN holds' = Objects, \A p \in KeyObjects : holds'[p] = holds[p],
         UNCHANGED keyVars
  PROVE  KeyInv'
  <1>1. TypeOK'
    <2>1. ASSUME NEW p \in KeyObjects
          PROVE  Live(p)' \subseteq Blocks /\ holds'[p] \in [Live(p)' -> Contents]
      BY <2>1, KeyMemory DEF Live
    <2>2. HeapType(KeyObjects, Blocks)'
      BY <2>1 DEF HeapType, Contents
    <2> QED
      BY <2>2 DEF KeyInv, TypeOK, keyVars
  <1>2. ASSUME NEW p \in KeyObjects PROVE KeyStage(p)'
    <2>1. holds'[p] = holds[p] /\ Live(p)' = Live(p) /\ KeysHeld(p)' = KeysHeld(p)
      BY DEF Live, KeysHeld
    <2>2. pc' = pc /\ n' = n /\ ok' = ok
      BY DEF keyVars
    <2>3. KeyStage(p)
      BY KeyMemory
    <2> QED
      BY <2>1, <2>2, <2>3 DEF KeyStage
  <1> QED
    BY <1>1, <1>2 DEF KeyInv

LEMMA AppInitial == AppInit => AppInv
  <1> SUFFICES ASSUME AppInit PROVE AppInv
    OBVIOUS
  <1> USE DEF AppInit
  <1>1. holds = [o \in Objects |-> [b \in {} |-> "nothing"]] /\ fault = {} /\ spilled = {}
    BY DEF Init, HeapInit
  <1>2. \A o \in Objects : Live(o) = {} /\ holds[o] \in [Live(o) -> Contents]
    BY <1>1 DEF Live
  <1>3. KeyInv
    <2>1. HeapType(KeyObjects, Blocks)
      BY <1>1, <1>2, KeyObjectAssumption DEF HeapType, Contents
    <2>2. TypeOK
      BY <2>1, Tuples DEF TypeOK, Init
    <2>3. ASSUME NEW o \in KeyObjects PROVE KeyStage(o)
      <3>1. pc[o] = "none" /\ n[o] = 1 /\ Live(o) = {}
        BY <1>2, KeyObjectAssumption DEF Init
      <3> QED
        BY <3>1 DEF KeyStage
    <2> QED
      BY <2>2, <2>3 DEF KeyInv
  <1>4. PoolInv
    <2>1. Pool!HeapType(Pools, Pool!Blocks)
      BY <1>1, <1>2, ApplicationAssumption DEF Pool!HeapType, Contents, Pool!Live, Live
    <2>2. Pool!TypeOK
      <3>1. Len(Pool!Levels) + 1 = 4
        BY LevelOrder DEF PoolLevels
      <3> QED
        BY <2>1, <3>1 DEF Pool!TypeOK, Pool!Init
    <2>3. ASSUME NEW o \in Pools PROVE PoolStage(o)
      <3>1. pool_pc[o] = "none" /\ ptrs[o] = {} /\ Live(o) = {}
        BY <1>2, ApplicationAssumption DEF Pool!Init
      <3> QED
        BY <3>1 DEF PoolStage
    <2> QED
      BY <2>2, <2>3 DEF PoolInv
  <1> QED
    BY <1>1, <1>3, <1>4 DEF AppInv, NoBadAccess, NoSecretFreed

LEMMA AppStep == AppInv /\ [AppNext]_appVars => AppInv'
  <1> SUFFICES ASSUME AppInv, [AppNext]_appVars PROVE AppInv'
    OBVIOUS
  <1> USE DEF AppInv
  <1>1. CASE Next /\ UNCHANGED poolVars
    <2>1. PICK o \in KeyObjects : Step(o)
      BY <1>1 DEF Next
    <2>2. KeyStepGood(o)
      BY <2>1, KeyStep
    <2>3. KeyInv' /\ fault' = fault
      BY <2>2 DEF KeyStepGood
    <2>4. PoolInv'
      <3>1. DOMAIN holds' = Objects /\ \A p \in Pools : holds'[p] = holds[p]
        BY <2>2, ApplicationAssumption DEF KeyStepGood, HeapFrame
      <3> QED
        BY <1>1, <3>1, PoolsFramed
    <2>5. NoSecretFreed'
      BY <2>2 DEF KeyStepGood, NoSecretFreed
    <2> QED
      BY <2>3, <2>4, <2>5 DEF NoBadAccess
  <1>2. CASE Pool!Next /\ UNCHANGED keyVars
    <2>1. PICK o \in Pools : Pool!Step(o)
      BY <1>2 DEF Pool!Next
    <2>2. PoolStepGood(o)
      BY <2>1, PoolStep
    <2>3. PoolInv' /\ fault' = fault /\ spilled' = spilled
      BY <2>2 DEF PoolStepGood
    <2>4. KeyInv'
      <3>1. DOMAIN holds' = Objects /\ \A p \in KeyObjects : holds'[p] = holds[p]
        BY <2>2, ApplicationAssumption DEF PoolStepGood, HeapFrame
      <3> QED
        BY <1>2, <3>1, KeysFramed
    <2> QED
      BY <2>3, <2>4 DEF NoBadAccess, NoSecretFreed
  <1>3. CASE UNCHANGED appVars
    <2>1. UNCHANGED keyVars /\ UNCHANGED poolVars /\ UNCHANGED heapVars
      BY <1>3 DEF appVars, vars, keyVars, heapVars
    <2>2. DOMAIN holds = Objects
      BY DEF KeyInv, TypeOK, HeapType
    <2>3. holds' = holds /\ fault' = fault /\ spilled' = spilled
      BY <2>1 DEF heapVars
    <2>4. KeyInv' /\ PoolInv'
      BY <2>1, <2>2, <2>3, KeysFramed, PoolsFramed
    <2> QED
      BY <2>3, <2>4 DEF NoBadAccess, NoSecretFreed
  <1> QED
    BY <1>1, <1>2, <1>3 DEF AppNext

\* The blocks of every object are those its step says, in every behaviour of any
\* number of key objects and encapsulation pools.
THEOREM Invariance == AppSpec => []AppInv
  <1> QED
    BY AppInitial, AppStep, PTL DEF AppSpec

\* NothingLeaks: whichever allocation or entropy request of a constructor fails,
\* nothing of the object stays allocated, and a finished object has all its
\* blocks, nothing temporary, and its secrets in its keys alone.
THEOREM NoLeaks == AppSpec => []NothingLeaks
  <1>1. AppInv => NothingLeaks
    <2> SUFFICES ASSUME AppInv PROVE NothingLeaks
      OBVIOUS
    <2> USE DEF AppInv
    <2>1. ASSUME NEW o \in KeyObjects
          PROVE  /\ pc[o] = "none" => Live(o) = {}
                 /\ pc[o] = "ready" =>
                      /\ Live(o) = Persistent
                      /\ {b \in Live(o) : holds[o][b] = "secret"} = {"ctx", "secret"}
      <3>1. KeyStage(o)
        BY KeyMemory
      <3>2. pc[o] = "none" => Live(o) = {}
        BY <3>1 DEF KeyStage
      <3>3. CASE pc[o] = "ready"
        <4>1. Live(o) = Ctx \cup PoolMem \cup Matrix /\ Live(o) = Persistent
          BY <3>1, <3>3, BlocksParts DEF KeyStage
        <4>2. "ctx" \in Live(o) /\ "secret" \in Live(o)
          BY <4>1, BlockNames
        <4>3. holds[o]["ctx"] = "secret" /\ holds[o]["secret"] = "secret"
          BY <3>1, <3>3 DEF KeyStage, KeysHeld
        <4>4. \A b \in Live(o) : holds[o][b] = "secret" => b \in {"ctx", "secret"}
          BY <3>1, <4>1, BlockNames DEF KeyStage
        <4>5. {b \in Live(o) : holds[o][b] = "secret"} = {"ctx", "secret"}
          BY <4>2, <4>3, <4>4
        <4> QED
          BY <3>3, <4>1, <4>5
      <3> QED
        BY <3>2, <3>3
    <2>2. KeysComplete
      BY <2>1 DEF KeysComplete
    <2>3. ASSUME NEW o \in Pools
          PROVE  /\ pool_pc[o] = "none" => Live(o) = {}
                 /\ pool_pc[o] = "ready" =>
                      Live(o) = {Pool!Root} \cup Pool!Parts \X requested[o]
      <3>1. PoolStage(o) /\ requested[o] \subseteq AllLevels
        BY PoolMemory
      <3>2. CASE pool_pc[o] = "ready"
        <4>1. Done(o) = requested[o]
          BY <3>1, <3>2, LevelOrder DEF PoolStage, Done
        <4>2. /\ ptrs[o] = {"slots", "u16_mem", "u8_mem"} \X requested[o]
              /\ Live(o) = {Pool!Root} \cup Pool!Found(o) \cup ptrs[o]
          BY <3>1, <3>2, <4>1 DEF PoolStage, Building, Loose
        <4>3. Pool!Found(o) = {"contexts", "u16_mem", "u8_mem"} \X requested[o]
          <5>1. \A b : b \in Pool!Found(o) <=>
                  \/ \E c \in ptrs[o] : c[1] = "slots" /\ b = <<"contexts", c[2]>>
                  \/ b \in ptrs[o] /\ b[1] # "slots"
            BY DEF Pool!Found
          <5>2. \A l \in requested[o] : <<"contexts", l>> \in Pool!Found(o)
            <6>1. ASSUME NEW l \in requested[o] PROVE <<"contexts", l>> \in Pool!Found(o)
              <7>1. /\ <<"slots", l>> \in ptrs[o]
                    /\ <<"slots", l>>[1] = "slots" /\ <<"slots", l>>[2] = l
                BY <4>2
              <7> QED
                BY <5>1, <7>1
            <6> QED
              BY <6>1
          <5>3. Pool!Found(o) \subseteq {"contexts", "u16_mem", "u8_mem"} \X requested[o]
            BY <4>2, <5>1
          <5>4. {"u16_mem", "u8_mem"} \X requested[o] \subseteq Pool!Found(o)
            BY <4>2, <5>1
          <5> QED
            BY <5>2, <5>3, <5>4
        <4>4. Live(o) = {Pool!Root} \cup Pool!Parts \X requested[o]
          BY <4>2, <4>3, PoolBlocksNames
        <4> QED
          BY <3>2, <4>4
      <3> QED
        BY <3>1, <3>2 DEF PoolStage
    <2>4. Pool!PoolsComplete
      BY <2>3, SameHeap DEF Pool!PoolsComplete
    <2> QED
      BY <2>2, <2>4 DEF NothingLeaks, KeyInv, PoolInv
  <1> QED
    BY <1>1, Invariance, PTL

\* NoBadAccess: no path frees, wipes or reads a block that is not allocated, the
\* chain of error labels and the destructors of partly built pools included.
THEOREM NoFaults == AppSpec => []NoBadAccess
  <1>1. AppInv => NoBadAccess
    BY DEF AppInv
  <1> QED
    BY <1>1, Invariance, PTL

\* NoSecretFreed: a block that is freed holds nothing secret, and a block of an
\* encapsulation pool nothing at all.
THEOREM SecretsWiped == AppSpec => []NoSecretFreed
  <1>1. AppInv => NoSecretFreed
    BY DEF AppInv
  <1> QED
    BY <1>1, Invariance, PTL

-----------------------------------------------------------------------------
(* The layout of the blocks: the buffers of slot j lie in window j of their *)
(* block, windows do not meet, and within a window the buffers follow each  *)
(* other.                                                                   *)

\* All of S belongs to the slot and lies in the block between lo and hi.
Within(S, slot, block, lo, hi) ==
  \A s \in S : /\ s.slot = slot /\ s.block = block
               /\ s.at \in Int /\ s.len \in Int
               /\ lo <= s.at /\ s.at + s.len <= hi

\* No sponge state among S, or only aligned ones.
Unhashed(S) == \A s \in S : s.field # "state"
Aligned(S) == \A s \in S : s.field = "state" => s.at % 8 = 0

Apart(S) == \A s, t \in S : s # t => ~Overlap(s, t)

LEMMA WindowsApart ==
  ASSUME NEW S, NEW T, NEW m, NEW m2, NEW b, NEW c, NEW lo \in Int, NEW hi \in Int,
         NEW lo2 \in Int, NEW hi2 \in Int,
         Within(S, m, b, lo, hi), Within(T, m2, c, lo2, hi2),
         b # c \/ hi <= lo2 \/ hi2 <= lo
  PROVE  \A s \in S, t \in T : ~Overlap(s, t) /\ ~Overlap(t, s)
  BY DEF Within, Overlap

LEMMA UnionApart ==
  ASSUME NEW S, NEW T, Apart(S), Apart(T),
         \A s \in S, t \in T : ~Overlap(s, t) /\ ~Overlap(t, s)
  PROVE  Apart(S \cup T)
  BY Zenon DEF Apart

LEMMA EncapsPolysFit ==
  ASSUME k \in {2, 3, 4}, NEW slot \in Nat, NEW p \in Nat
  PROVE  /\ Within(EncapsPolys(slot, p), slot, "u16", p, p + (3 * k + 2) * ML_KEM_N)
         /\ Apart(EncapsPolys(slot, p))
         /\ Unhashed(EncapsPolys(slot, p))
  <1>1. CASE k = 2
    BY <1>1, SMTT(60) DEF Unhashed, EncapsPolys, Slice, Within, Apart, Overlap, ML_KEM_N
  <1>2. CASE k = 3
    BY <1>2, SMTT(60) DEF Unhashed, EncapsPolys, Slice, Within, Apart, Overlap, ML_KEM_N
  <1>3. CASE k = 4
    BY <1>3, SMTT(60) DEF Unhashed, EncapsPolys, Slice, Within, Apart, Overlap, ML_KEM_N
  <1>4. QED
    BY <1>1, <1>2, <1>3

LEMMA DecryptPolysFit ==
  ASSUME k \in {2, 3, 4}, NEW slot \in Nat, NEW p \in Nat
  PROVE  /\ Within(DecryptPolys(slot, p), slot, "u16", p, p + (k + 2) * ML_KEM_N)
         /\ Apart(DecryptPolys(slot, p))
         /\ Unhashed(DecryptPolys(slot, p))
  BY SMTT(60) DEF Unhashed, DecryptPolys, Slice, Within, Apart, Overlap, ML_KEM_N

LEMMA RawBuffersFit ==
  ASSUME NEW slot \in Nat, NEW block, NEW p \in Nat, p % 8 = 0
  PROVE  /\ Within(RawBuffers(slot, block, p), slot, block, p, p + Raw)
         /\ Apart(RawBuffers(slot, block, p))
         /\ Aligned(RawBuffers(slot, block, p))
  BY SMTT(60) DEF Aligned, RawBuffers, Slice, Within, Apart, Overlap, Raw, MatrixXof, KeccakState

-----------------------------------------------------------------------------
(* Windows: what one slot takes of each block. *)

LayoutBlocks ==
  CASE kind = "decaps" -> {"u16", "ct", "pk", "raw"}
    [] kind = "encaps" -> {"u16", "u8"}
    [] kind = "alone"  -> {"u16", "ct", "u8"}
    [] kind = "temp"   -> {"u16", "raw"}

Stride(block) ==
  IF block = "u16"
  THEN CASE kind = "decaps" -> (4 * k + 4) * ML_KEM_N
         [] kind = "temp" -> (2 * k + 1) * ML_KEM_N
         [] OTHER -> (3 * k + 2) * ML_KEM_N
  ELSE IF block = "ct" THEN (IF kind = "decaps" THEN 2 * ciphertext_len ELSE ciphertext_len)
  ELSE IF block = "pk" THEN public_key_msg_len
  ELSE IF block = "raw" THEN Raw
  ELSE IF kind = "encaps" THEN public_key_msg_len + ciphertext_len + Raw
                          ELSE public_key_msg_len + Raw

Kinds == {"decaps", "encaps", "alone", "temp"}

\* The buffers S of slot j are in window j of their blocks, the state aligned.
FitsSlot(S, j) ==
  \A s \in S : /\ s.slot = j /\ s.block \in LayoutBlocks
               /\ s.at \in Int /\ s.len \in Int
               /\ Stride(s.block) * j <= s.at
               /\ s.at + s.len <= Stride(s.block) * (j + 1)
               /\ s.field = "state" => s.at % 8 = 0

Shape ==
  /\ kind \in Kinds /\ k \in {2, 3, 4} /\ count \in Nat \ {0} /\ i \in 0 .. count
  /\ kind \in {"alone", "temp"} => count = 1

Pointers ==
  /\ next \in [u16 : Int, u8 : Int]
  /\ kind \in {"decaps", "encaps"} => next.u16 = Stride("u16") * i
  /\ kind = "encaps" => next.u8 = Stride("u8") * i

InWindows == \A s \in slices : s.slot \in 0 .. i - 1 /\ FitsSlot({s}, s.slot)

LayoutInv == Shape /\ Pointers /\ InWindows /\ Apart(slices)

LEMMA Sizes ==
  ASSUME k \in {2, 3, 4}
  PROVE  /\ public_key_msg_len \in Nat /\ public_key_msg_len % 8 = 0
         /\ ciphertext_len \in Nat /\ ciphertext_len % 8 = 0
         /\ Raw = 776
         /\ \A b : Stride(b) \in Nat
  <1>1. public_key_msg_len \in Nat /\ public_key_msg_len % 8 = 0
    BY SMT DEF public_key_msg_len
  <1>2. ciphertext_len \in Nat /\ ciphertext_len % 8 = 0
    BY SMT DEF ciphertext_len
  <1>3. Raw = 776
    BY SMT DEF Raw, MatrixXof, KeccakState
  <1>4. ASSUME NEW b PROVE Stride(b) \in Nat
    BY <1>1, <1>2, <1>3, SMT DEF Stride, ML_KEM_N
  <1>5. QED
    BY <1>1, <1>2, <1>3, <1>4

\* A loop pass adds the buffers of the next window.
LEMMA NextWindow ==
  ASSUME LayoutInv, NEW Fresh, FitsSlot(Fresh, i), Apart(Fresh), i < count,
         slices' = slices \cup Fresh, i' = i + 1, UNCHANGED <<kind, k, count>>
  PROVE  Shape' /\ InWindows' /\ Apart(slices)'
  <1>1. \A b : Stride(b) \in Nat /\ Stride(b)' = Stride(b)
    BY Sizes DEF LayoutInv, Shape, Stride, public_key_msg_len, ciphertext_len
  <1>2. Shape'
    BY DEF LayoutInv, Shape
  <1>3. LayoutBlocks' = LayoutBlocks
    BY DEF LayoutBlocks
  <1>4. ASSUME NEW s \in slices' PROVE s.slot \in 0 .. i' - 1 /\ FitsSlot({s}, s.slot)'
    BY <1>1, <1>3 DEF LayoutInv, Shape, InWindows, FitsSlot
  <1>5. ASSUME NEW s \in slices, NEW t \in Fresh PROVE ~Overlap(s, t) /\ ~Overlap(t, s)
    <2>0. s.slot \in 0 .. i - 1 /\ FitsSlot({s}, s.slot)
      BY DEF LayoutInv, InWindows
    <2>1. s.slot \in 0 .. i - 1 /\ FitsSlot({s}, s.slot) /\ i \in Int
      BY <2>0 DEF LayoutInv, Shape
    <2>2. CASE s.block = t.block
      <3> DEFINE w == Stride(s.block)
                 m == s.slot
      <3>1. w \in Nat /\ m \in Int /\ m + 1 <= i
        BY <1>1, <2>1
      <3>2. s.at \in Int /\ s.len \in Int /\ s.at + s.len <= w * (m + 1)
        BY <2>1 DEF FitsSlot
      <3>3. t.at \in Int /\ t.len \in Int /\ w * i <= t.at
        BY <2>2 DEF FitsSlot
      <3> HIDE DEF w, m
      <3>4. w * (m + 1) <= w * i
        BY <2>1, <3>1, SMTT(30)
      <3>5. w * (m + 1) \in Int /\ w * i \in Int
        BY <2>1, <3>1
      <3>6. s.at + s.len <= t.at
        BY <3>2, <3>3, <3>4, <3>5
      <3>7. QED
        BY <3>2, <3>3, <3>6 DEF Overlap
    <2>3. QED
      BY <2>2 DEF Overlap
  <1>6. Apart(slices \cup Fresh)
    BY <1>5, UnionApart DEF LayoutInv
  <1>7. QED
    BY <1>2, <1>4, <1>6 DEF InWindows, Apart, Overlap

LEMMA WithinFits ==
  ASSUME NEW S, NEW j \in Nat, NEW b \in LayoutBlocks, NEW lo \in Int, NEW hi \in Int,
         Within(S, j, b, lo, hi), Aligned(S),
         Stride(b) * j <= lo, hi <= Stride(b) * (j + 1), Stride(b) \in Nat
  PROVE  FitsSlot(S, j)
  <1> DEFINE w == Stride(b) * j
             x == Stride(b) * (j + 1)
  <1>1. w \in Int /\ x \in Int
    OBVIOUS
  <1> HIDE DEF w, x
  <1>2. w <= lo /\ hi <= x
    BY DEF w, x
  <1>3. ASSUME NEW s \in S
        PROVE  s.slot = j /\ s.block = b /\ s.at \in Int /\ s.len \in Int
               /\ w <= s.at /\ s.at + s.len <= x
    BY <1>1, <1>2 DEF Within
  <1>4. QED
    BY <1>3 DEF FitsSlot, Aligned, w, x

LEMMA DecapsBytesFit ==
  ASSUME kind = "decaps", k \in {2, 3, 4}, NEW j \in Nat,
         LayoutBlocks = {"u16", "ct", "pk", "raw"},
         Stride("ct") = 2 * ciphertext_len, Stride("pk") = public_key_msg_len
  PROVE  /\ FitsSlot(DecapsBytes(j), j) /\ Apart(DecapsBytes(j))
         /\ \A s \in DecapsBytes(j) : s.block \in {"ct", "pk"}
  <1> DEFINE c == ciphertext_len
             l == public_key_msg_len
             m == c * j
             m2 == l * j
  <1>1. c \in Nat /\ l \in Nat
    BY Sizes
  <1> HIDE DEF c, l
  <1>2. /\ m \in Nat /\ m2 \in Nat
        /\ (2 * j + 0) * c = 2 * m /\ (2 * j + 1) * c = 2 * m + c /\ j * l = m2
        /\ 2 * c * j = 2 * m /\ 2 * c * (j + 1) = 2 * m + 2 * c
        /\ l * j = m2 /\ l * (j + 1) = m2 + l
    BY <1>1, SMTT(30)
  <1> HIDE DEF m, m2
  <1>3. DecapsBytes(j) =
          {[slot |-> j, field |-> "d_ciphertext", block |-> "ct", at |-> 2 * m, len |-> c],
           [slot |-> j, field |-> "ciphertext", block |-> "ct", at |-> 2 * m + c, len |-> c],
           [slot |-> j, field |-> "public_key_msg", block |-> "pk", at |-> m2, len |-> l]}
    BY <1>2, Zenon DEF DecapsBytes, Slice, c, l
  <1>4. Stride("ct") = 2 * c /\ Stride("pk") = l
    BY DEF c, l
  <1>5. FitsSlot(DecapsBytes(j), j)
    BY <1>1, <1>2, <1>3, <1>4 DEF FitsSlot
  <1>6. Apart(DecapsBytes(j))
    BY <1>1, <1>2, <1>3 DEF Apart, Overlap
  <1>7. QED
    BY <1>3, <1>5, <1>6

\* The four ways buffers are handed out, each within its window.
LEMMA DecapsSlotFits ==
  ASSUME LayoutInv, AssignDecapsSlot
  PROVE  LayoutInv'
  <1> DEFINE p == next.u16
             A == EncapsPolys(i, p)
             B == DecryptPolys(i, p + (3 * k + 2) * ML_KEM_N)
             C == DecapsBytes(i)
             D == RawBuffers(i, "raw", i * Raw)
             Fresh == A \cup B \cup C \cup D
             c == ciphertext_len
             l == public_key_msg_len
  <1>1. kind = "decaps" /\ k \in {2, 3, 4} /\ i \in Nat /\ count \in Nat /\ i < count
    BY DEF LayoutInv, Shape, AssignDecapsSlot
  <1>2. c \in Nat /\ l \in Nat /\ Raw = 776
    BY <1>1, Sizes
  <1>3. Stride("u16") = (4 * k + 4) * ML_KEM_N /\ Stride("ct") = 2 * c
        /\ Stride("pk") = l /\ Stride("raw") = 776
    BY <1>1, <1>2, SMT DEF Stride
  <1>4. LayoutBlocks = {"u16", "ct", "pk", "raw"}
    BY <1>1 DEF LayoutBlocks
  <1>5. p = (4 * k + 4) * ML_KEM_N * i /\ p \in Nat
    BY <1>1, <1>3 DEF LayoutInv, Pointers, ML_KEM_N
  <1>6. p + (3 * k + 2) * ML_KEM_N \in Nat
    BY <1>1, <1>5 DEF ML_KEM_N
  <1>7. i * Raw \in Nat /\ (i * Raw) % 8 = 0
    BY <1>1, <1>2
  <1>8. /\ Within(A, i, "u16", p, p + (3 * k + 2) * ML_KEM_N) /\ Apart(A) /\ Unhashed(A)
        /\ Within(B, i, "u16", p + (3 * k + 2) * ML_KEM_N,
                  p + (3 * k + 2) * ML_KEM_N + (k + 2) * ML_KEM_N) /\ Apart(B) /\ Unhashed(B)
        /\ Within(D, i, "raw", i * Raw, i * Raw + Raw) /\ Apart(D) /\ Aligned(D)
    BY <1>1, <1>2, <1>5, <1>6, <1>7, EncapsPolysFit, DecryptPolysFit, RawBuffersFit
  <1>9. FitsSlot(C, i) /\ Apart(C) /\ \A s \in C : s.block \in {"ct", "pk"}
    BY <1>1, <1>2, <1>3, <1>4, DecapsBytesFit
  <1>10. FitsSlot(A, i) /\ FitsSlot(B, i)
    <2>1. /\ Stride("u16") * i <= p
          /\ Stride("u16") * i <= p + (3 * k + 2) * ML_KEM_N
          /\ p + (3 * k + 2) * ML_KEM_N <= Stride("u16") * (i + 1)
          /\ p + (3 * k + 2) * ML_KEM_N + (k + 2) * ML_KEM_N <= Stride("u16") * (i + 1)
      BY <1>1, <1>3, <1>5, SMTT(30) DEF ML_KEM_N
    <2> DEFINE q == p + (3 * k + 2) * ML_KEM_N
               r == q + (k + 2) * ML_KEM_N
    <2>2. q \in Int /\ r \in Int /\ Stride("u16") \in Nat /\ "u16" \in LayoutBlocks
      BY <1>1, <1>3, <1>4, <1>5 DEF ML_KEM_N
    <2>3. Aligned(A) /\ Aligned(B)
      BY <1>8 DEF Unhashed, Aligned
    <2>4. Within(A, i, "u16", p, q) /\ Within(B, i, "u16", q, r)
      BY <1>8
    <2>5. Stride("u16") * i <= p /\ q <= Stride("u16") * (i + 1)
          /\ Stride("u16") * i <= q /\ r <= Stride("u16") * (i + 1)
      BY <2>1
    <2> HIDE DEF p, q, r, A, B
    <2>6. FitsSlot(A, i)
      BY <1>1, <1>5, <2>2, <2>3, <2>4, <2>5, WithinFits
    <2>7. FitsSlot(B, i)
      BY <1>1, <2>2, <2>3, <2>4, <2>5, WithinFits
    <2>8. QED
      BY <2>6, <2>7
  <1>11. FitsSlot(D, i)
    BY <1>1, <1>2, <1>3, <1>4, <1>7, <1>8, WithinFits
  <1>12. Apart(A \cup B)
    BY <1>1, <1>5, <1>6, <1>8, WindowsApart, UnionApart DEF ML_KEM_N
  <1>13. Apart(A \cup B \cup C)
    <2>1. \A s \in A \cup B, t \in C : ~Overlap(s, t) /\ ~Overlap(t, s)
      BY <1>8, <1>9 DEF Within, Overlap
    <2>2. QED
      BY <1>9, <1>12, <2>1, UnionApart
  <1>14. Apart(Fresh)
    <2>1. \A s \in A \cup B \cup C, t \in D : ~Overlap(s, t) /\ ~Overlap(t, s)
      BY <1>8, <1>9 DEF Within, Overlap
    <2>2. QED
      BY <1>8, <1>13, <2>1, UnionApart
  <1> HIDE DEF A, B, C, D
  <1>15. FitsSlot(Fresh, i)
    BY <1>9, <1>10, <1>11 DEF FitsSlot
  <1>16. slices' = slices \cup Fresh /\ i' = i + 1 /\ UNCHANGED <<kind, k, count>>
         /\ next' = [next EXCEPT !.u16 = @ + (4 * k + 4) * ML_KEM_N]
    BY DEF AssignDecapsSlot, A, B, C, D
  <1> HIDE DEF Fresh
  <1>17. Shape' /\ InWindows' /\ Apart(slices)'
    BY <1>1, <1>14, <1>15, <1>16, NextWindow
  <1>18. Pointers'
    <2>1. next \in [u16 : Int, u8 : Int]
      BY DEF LayoutInv, Pointers
    <2>2. next' \in [u16 : Int, u8 : Int] /\ next'.u16 = p + (4 * k + 4) * ML_KEM_N
      BY <1>1, <1>16, <2>1 DEF ML_KEM_N
    <2>3. Stride("u16")' = (4 * k + 4) * ML_KEM_N /\ kind' = "decaps"
      BY <1>1, <1>3, <1>16 DEF Stride
    <2>4. p + (4 * k + 4) * ML_KEM_N = (4 * k + 4) * ML_KEM_N * (i + 1)
      BY <1>1, <1>5, SMTT(30) DEF ML_KEM_N
    <2>5. QED
      BY <1>16, <2>2, <2>3, <2>4 DEF Pointers
  <1>19. QED
    BY <1>17, <1>18 DEF LayoutInv

LEMMA EncapsSlotFits ==
  ASSUME LayoutInv, AssignEncapsSlot
  PROVE  LayoutInv'
  <1> DEFINE p == next.u16
             b == next.u8
             c == ciphertext_len
             l == public_key_msg_len
             A == EncapsPolys(i, p)
             C == {Slice(i, "public_key_msg", "u8", b, l), Slice(i, "ciphertext", "u8", b + l, c)}
             D == RawBuffers(i, "u8", b + l + c)
             Fresh == A \cup C \cup D
  <1>1. kind = "encaps" /\ k \in {2, 3, 4} /\ i \in Nat /\ count \in Nat /\ i < count
    BY DEF LayoutInv, Shape, AssignEncapsSlot
  <1>2. c \in Nat /\ l \in Nat /\ Raw = 776 /\ c % 8 = 0 /\ l % 8 = 0
    BY <1>1, Sizes
  <1>3. Stride("u16") = (3 * k + 2) * ML_KEM_N /\ Stride("u8") = l + c + 776
    BY <1>1, <1>2, SMT DEF Stride
  <1>4. LayoutBlocks = {"u16", "u8"}
    BY <1>1 DEF LayoutBlocks
  <1>5. p = (3 * k + 2) * ML_KEM_N * i /\ p \in Nat /\ b = (l + c + 776) * i /\ b \in Nat
    BY <1>1, <1>2, <1>3 DEF LayoutInv, Pointers, ML_KEM_N
  <1>6. b % 8 = 0
    <2>1. CASE k = 2
      BY <1>1, <1>5, <2>1 DEF public_key_msg_len, ciphertext_len
    <2>2. CASE k = 3
      BY <1>1, <1>5, <2>2 DEF public_key_msg_len, ciphertext_len
    <2>3. CASE k = 4
      BY <1>1, <1>5, <2>3 DEF public_key_msg_len, ciphertext_len
    <2>4. QED
      BY <1>1, <2>1, <2>2, <2>3
  <1> HIDE DEF c, l
  <1>7. b + l + c \in Nat /\ (b + l + c) % 8 = 0
    BY <1>2, <1>5, <1>6
  <1>8. p + (3 * k + 2) * ML_KEM_N = Stride("u16") * (i + 1)
        /\ b + l + c + Raw = Stride("u8") * (i + 1)
        /\ p = Stride("u16") * i /\ b = Stride("u8") * i
    BY <1>1, <1>2, <1>3, <1>5, SMTT(30) DEF ML_KEM_N
  <1> HIDE DEF p, b
  <1>9. /\ Within(A, i, "u16", p, p + (3 * k + 2) * ML_KEM_N) /\ Apart(A) /\ Unhashed(A)
        /\ Within(D, i, "u8", b + l + c, b + l + c + Raw) /\ Apart(D) /\ Aligned(D)
    BY <1>1, <1>5, <1>7, EncapsPolysFit, RawBuffersFit
  <1>10. Within(C, i, "u8", b, b + l + c) /\ Apart(C) /\ Unhashed(C)
    BY <1>2, <1>5 DEF Within, Apart, Unhashed, Slice, Overlap
  <1> HIDE DEF A, C, D
  <1>11. FitsSlot(A, i)
    <2>1. Aligned(A) /\ "u16" \in LayoutBlocks /\ Stride("u16") \in Nat
          /\ p + (3 * k + 2) * ML_KEM_N \in Int
      BY <1>1, <1>3, <1>4, <1>5, <1>9 DEF Aligned, Unhashed, ML_KEM_N
    <2> DEFINE q == p + (3 * k + 2) * ML_KEM_N
    <2>2. Within(A, i, "u16", p, q) /\ q \in Int /\ Stride("u16") * i <= p
          /\ q <= Stride("u16") * (i + 1)
      BY <1>1, <1>5, <1>8, <1>9, <2>1
    <2> HIDE DEF q
    <2>3. QED
      BY <1>1, <1>5, <2>1, <2>2, WithinFits
  <1>12. FitsSlot(C, i) /\ FitsSlot(D, i)
    <2> DEFINE q == b + l + c
               r == b + l + c + Raw
    <2>0. Aligned(C) /\ "u8" \in LayoutBlocks
      BY <1>4, <1>10 DEF Aligned, Unhashed
    <2>1. Stride("u8") \in Nat /\ q \in Int /\ r \in Int /\ b <= q /\ q <= r
      BY <1>2, <1>3, <1>5
    <2>2. Within(C, i, "u8", b, q) /\ Within(D, i, "u8", q, r)
      BY <1>9, <1>10
    <2>3. Stride("u8") * i <= b /\ Stride("u8") * i <= q /\ q <= Stride("u8") * (i + 1)
          /\ r <= Stride("u8") * (i + 1)
      BY <1>5, <1>8, <2>1
    <2> HIDE DEF q, r
    <2>4. FitsSlot(C, i)
      BY <1>1, <1>5, <2>0, <2>1, <2>2, <2>3, WithinFits
    <2>5. FitsSlot(D, i)
      BY <1>1, <1>9, <2>0, <2>1, <2>2, <2>3, WithinFits
    <2>6. QED
      BY <2>4, <2>5
  <1>13. Apart(A \cup C)
    <2>1. \A s \in A, t \in C : ~Overlap(s, t) /\ ~Overlap(t, s)
      BY <1>9, <1>10 DEF Within, Overlap
    <2>2. QED
      BY <1>9, <1>10, <2>1, UnionApart
  <1>14. Apart(Fresh)
    <2>1. \A s \in C, t \in D : ~Overlap(s, t) /\ ~Overlap(t, s)
      BY <1>2, <1>5, <1>9, <1>10 DEF Within, Overlap
    <2>2. \A s \in A, t \in D : ~Overlap(s, t) /\ ~Overlap(t, s)
      BY <1>9 DEF Within, Overlap
    <2>3. \A s \in A \cup C, t \in D : ~Overlap(s, t) /\ ~Overlap(t, s)
      BY <2>1, <2>2
    <2>4. QED
      BY <1>9, <1>13, <2>3, UnionApart
  <1>15. FitsSlot(Fresh, i)
    BY <1>11, <1>12 DEF FitsSlot
  <1>16. slices' = slices \cup Fresh /\ i' = i + 1 /\ UNCHANGED <<kind, k, count>>
         /\ next' = [u16 |-> p + (3 * k + 2) * ML_KEM_N, u8 |-> b + l + c + Raw]
    BY DEF AssignEncapsSlot, A, C, D, b, c, l, p
  <1> HIDE DEF Fresh
  <1>17. Shape' /\ InWindows' /\ Apart(slices)'
    BY <1>1, <1>14, <1>15, <1>16, NextWindow
  <1>18. Pointers'
    <2>1. Stride("u16")' = Stride("u16") /\ Stride("u8")' = Stride("u8")
      BY <1>16 DEF Stride, public_key_msg_len, ciphertext_len
    <2>2. next' \in [u16 : Int, u8 : Int]
      BY <1>1, <1>2, <1>5, <1>16 DEF ML_KEM_N
    <2>3. next'.u16 = Stride("u16") * (i + 1) /\ next'.u8 = Stride("u8") * (i + 1)
      BY <1>8, <1>16
    <2>4. QED
      BY <1>16, <2>1, <2>2, <2>3 DEF Pointers
  <1>19. QED
    BY <1>17, <1>18 DEF LayoutInv

LEMMA AloneFits ==
  ASSUME LayoutInv, AllocEncaps
  PROVE  LayoutInv'
  <1> DEFINE c == ciphertext_len
             l == public_key_msg_len
             A == EncapsPolys(0, 0)
             C == {Slice(0, "ciphertext", "ct", 0, c), Slice(0, "public_key_msg", "u8", 0, l)}
             D == RawBuffers(0, "u8", l)
             Fresh == A \cup C \cup D
  <1>1. kind = "alone" /\ k \in {2, 3, 4} /\ i = 0 /\ count = 1
    BY DEF LayoutInv, Shape, AllocEncaps
  <1>2. c \in Nat /\ l \in Nat /\ Raw = 776 /\ l % 8 = 0
    BY <1>1, Sizes
  <1>3. Stride("u16") = (3 * k + 2) * ML_KEM_N /\ Stride("ct") = c /\ Stride("u8") = l + 776
    BY <1>1, <1>2, SMT DEF Stride
  <1>4. LayoutBlocks = {"u16", "ct", "u8"}
    BY <1>1 DEF LayoutBlocks
  <1> HIDE DEF c, l
  <1>5. /\ Within(A, 0, "u16", 0, (3 * k + 2) * ML_KEM_N) /\ Apart(A) /\ Unhashed(A)
        /\ Within(D, 0, "u8", l, l + Raw) /\ Apart(D) /\ Aligned(D)
    <2>1. 0 + (3 * k + 2) * ML_KEM_N = (3 * k + 2) * ML_KEM_N
      BY <1>1 DEF ML_KEM_N
    <2>2. QED
      BY <1>1, <1>2, <2>1, EncapsPolysFit, RawBuffersFit
  <1> HIDE DEF A, D
  <1>6. FitsSlot(A, 0)
    <2> DEFINE q == (3 * k + 2) * ML_KEM_N
    <2>1. Aligned(A) /\ "u16" \in LayoutBlocks
      BY <1>4, <1>5 DEF Aligned, Unhashed
    <2>2. q \in Nat /\ Stride("u16") = q
      BY <1>1, <1>3 DEF ML_KEM_N
    <2>3. Within(A, 0, "u16", 0, q)
      BY <1>5
    <2> HIDE DEF q
    <2>4. Stride("u16") * 0 <= 0 /\ q <= Stride("u16") * (0 + 1)
      BY <2>2
    <2>5. QED
      BY <2>1, <2>2, <2>3, <2>4, WithinFits
  <1>7. FitsSlot(D, 0)
    <2> DEFINE q == l + Raw
    <2>1. q \in Nat /\ l <= q /\ Stride("u8") = q /\ "u8" \in LayoutBlocks
      BY <1>2, <1>3, <1>4
    <2>2. Within(D, 0, "u8", l, q)
      BY <1>5
    <2> HIDE DEF q
    <2>3. Stride("u8") * 0 <= l /\ q <= Stride("u8") * (0 + 1)
      BY <1>2, <2>1
    <2>4. QED
      BY <1>2, <1>5, <2>1, <2>2, <2>3, WithinFits
  <1>8. FitsSlot(C, 0) /\ Apart(C)
    BY <1>2, <1>3, <1>4 DEF FitsSlot, Apart, Slice, Overlap
  <1>9. Apart(A \cup C)
    <2>1. \A s \in A, t \in C : ~Overlap(s, t) /\ ~Overlap(t, s)
      BY <1>5 DEF Within, Overlap, Slice
    <2>2. QED
      BY <1>5, <1>8, <2>1, UnionApart
  <1>10. Apart(Fresh)
    <2>1. \A s \in A, t \in D : ~Overlap(s, t) /\ ~Overlap(t, s)
      BY <1>5 DEF Within, Overlap
    <2>2. \A s \in C, t \in D : ~Overlap(s, t) /\ ~Overlap(t, s)
      BY <1>2, <1>5 DEF Within, Overlap, Slice
    <2>3. \A s \in A \cup C, t \in D : ~Overlap(s, t) /\ ~Overlap(t, s)
      BY <2>1, <2>2
    <2>4. QED
      BY <1>5, <1>9, <2>3, UnionApart
  <1>11. slices = {}
    BY <1>1 DEF LayoutInv, InWindows
  <1>12. slices' = slices \cup Fresh /\ i' = i + 1 /\ UNCHANGED <<kind, k, count, next>>
    BY <1>11 DEF AllocEncaps, A, D, c, l
  <1> HIDE DEF C
  <1>13. FitsSlot(Fresh, 0)
    BY <1>6, <1>7, <1>8 DEF FitsSlot
  <1> HIDE DEF Fresh
  <1>14. Shape' /\ InWindows' /\ Apart(slices)'
    BY <1>1, <1>10, <1>12, <1>13, NextWindow
  <1>15. QED
    BY <1>1, <1>12, <1>14 DEF LayoutInv, Pointers

LEMMA TempFits ==
  ASSUME LayoutInv, AllocTemp
  PROVE  LayoutInv'
  <1> DEFINE A == {Slice(0, "poly", "u16", 0, ML_KEM_N),
                   Slice(0, "t", "u16", ML_KEM_N, k * ML_KEM_N),
                   Slice(0, "secret", "u16", ML_KEM_N + k * ML_KEM_N, k * ML_KEM_N)}
             D == RawBuffers(0, "raw", 0)
             Fresh == A \cup D
  <1>1. kind = "temp" /\ k \in {2, 3, 4} /\ i = 0 /\ count = 1
    BY DEF LayoutInv, Shape, AllocTemp
  <1>2. Raw = 776
    BY <1>1, Sizes
  <1>3. Stride("u16") = (2 * k + 1) * ML_KEM_N /\ Stride("raw") = 776
    BY <1>1, <1>2, SMT DEF Stride
  <1>4. LayoutBlocks = {"u16", "raw"}
    BY <1>1 DEF LayoutBlocks
  <1>5. Within(D, 0, "raw", 0, 776) /\ Apart(D) /\ Aligned(D)
    BY <1>2, RawBuffersFit
  <1>6. FitsSlot(A, 0) /\ Apart(A) /\ \A s \in A : s.block = "u16"
    BY <1>1, <1>3, <1>4, SMTT(30) DEF FitsSlot, Apart, Slice, Overlap, ML_KEM_N
  <1> HIDE DEF A, D
  <1>7. FitsSlot(D, 0)
    BY <1>3, <1>4, <1>5, WithinFits
  <1>8. Apart(Fresh)
    <2>1. \A s \in A, t \in D : ~Overlap(s, t) /\ ~Overlap(t, s)
      BY <1>5, <1>6 DEF Within, Overlap
    <2>2. QED
      BY <1>5, <1>6, <2>1, UnionApart
  <1>9. slices = {}
    BY <1>1 DEF LayoutInv, InWindows
  <1>10. slices' = slices \cup Fresh /\ i' = i + 1 /\ UNCHANGED <<kind, k, count, next>>
    BY <1>9 DEF AllocTemp, A, D
  <1>11. FitsSlot(Fresh, 0)
    BY <1>6, <1>7 DEF FitsSlot
  <1> HIDE DEF Fresh
  <1>12. Shape' /\ InWindows' /\ Apart(slices)'
    BY <1>1, <1>8, <1>10, <1>11, NextWindow
  <1>13. QED
    BY <1>1, <1>10, <1>12 DEF LayoutInv, Pointers

LEMMA LayoutInvariant == LayoutSpec => []LayoutInv
  <1>1. LayoutInit => LayoutInv
    <2> SUFFICES ASSUME LayoutInit PROVE LayoutInv
      OBVIOUS
    <2>1. kind \in Kinds /\ k \in {2, 3, 4} /\ i = 0 /\ slices = {}
          /\ next = [u16 |-> 0, u8 |-> 0]
      BY LayoutAssumption DEF LayoutInit, Kinds
    <2>2. count \in Nat \ {0} /\ (kind \in {"alone", "temp"} => count = 1)
      <3>1. CASE kind \in {"decaps", "encaps"}
        BY <3>1, LayoutAssumption DEF LayoutInit
      <3>2. CASE kind \in {"alone", "temp"}
        BY <3>2 DEF LayoutInit
      <3>3. QED
        BY <2>1, <3>1, <3>2 DEF Kinds
    <2>3. Pointers
      BY <2>1, Sizes DEF Pointers
    <2>4. QED
      BY <2>1, <2>2, <2>3 DEF LayoutInv, Shape, InWindows, Apart
  <1>2. LayoutInv /\ [LayoutNext]_layoutVars => LayoutInv'
    <2> SUFFICES ASSUME LayoutInv, [LayoutNext]_layoutVars PROVE LayoutInv'
      OBVIOUS
    <2>1. CASE UNCHANGED layoutVars
      <3>1. \A b : Stride(b)' = Stride(b)
        BY <2>1 DEF layoutVars, Stride, public_key_msg_len, ciphertext_len
      <3>2. LayoutBlocks' = LayoutBlocks
        BY <2>1 DEF layoutVars, LayoutBlocks
      <3>3. InWindows'
        BY <2>1, <3>1, <3>2 DEF layoutVars, LayoutInv, InWindows, FitsSlot
      <3>4. Shape' /\ Pointers' /\ Apart(slices)'
        BY <2>1, <3>1 DEF layoutVars, LayoutInv, Shape, Pointers, Apart, Overlap
      <3>5. QED
        BY <3>3, <3>4 DEF LayoutInv
    <2>2. QED
      BY <2>1, DecapsSlotFits, EncapsSlotFits, AloneFits, TempFits DEF LayoutNext
  <1>3. QED
    BY <1>1, <1>2, PTL DEF LayoutSpec

\* No two buffers share an element, whatever the number of slots.
THEOREM SlicesAreDisjoint == LayoutSpec => []SlicesDisjoint
  <1>1. LayoutInv => SlicesDisjoint
    BY DEF LayoutInv, Apart, SlicesDisjoint
  <1>2. QED
    BY <1>1, LayoutInvariant, PTL

\* No buffer reaches over the end of its block.
THEOREM SlicesStayInside == LayoutSpec => []SlicesInside
  <1>1. ASSUME LayoutInv, NEW s \in slices
        PROVE  0 <= s.at /\ s.at + s.len <= BlockLen(s.block)
    <2> DEFINE w == Stride(s.block)
    <2>1. w \in Nat
      BY <1>1, Sizes DEF LayoutInv, Shape
    <2>2. i \in 0 .. count /\ count \in Nat /\ k \in {2, 3, 4} /\ kind \in Kinds
          /\ (kind \in {"alone", "temp"} => count = 1)
      BY <1>1 DEF LayoutInv, Shape
    <2>3. s.slot \in 0 .. i - 1 /\ FitsSlot({s}, s.slot)
      BY <1>1 DEF LayoutInv, InWindows
    <2>4. s.at \in Int /\ s.len \in Int /\ w * s.slot <= s.at /\ s.at + s.len <= w * (s.slot + 1)
          /\ s.block \in LayoutBlocks
      BY <2>3 DEF FitsSlot
    <2>5. BlockLen(s.block) = w * count
      <3>1. public_key_msg_len \in Nat /\ ciphertext_len \in Nat /\ Raw = 776
        BY <2>2, Sizes
      <3>2. CASE kind = "decaps"
        <4>1. s.block \in {"u16", "ct", "pk", "raw"}
          BY <2>4, <3>2 DEF LayoutBlocks
        <4>2. QED
          BY <2>2, <3>1, <3>2, <4>1, SMTT(30) DEF BlockLen, Stride, ML_KEM_N
      <3>3. CASE kind = "encaps"
        <4>1. s.block \in {"u16", "u8"}
          BY <2>4, <3>3 DEF LayoutBlocks
        <4>2. QED
          BY <2>2, <3>1, <3>3, <4>1, SMTT(30) DEF BlockLen, Stride, ML_KEM_N
      <3>4. CASE kind = "alone"
        <4>1. s.block \in {"u16", "ct", "u8"}
          BY <2>4, <3>4 DEF LayoutBlocks
        <4>2. QED
          BY <2>2, <3>1, <3>4, <4>1, SMTT(30) DEF BlockLen, Stride, ML_KEM_N
      <3>5. CASE kind = "temp"
        <4>1. s.block \in {"u16", "raw"}
          BY <2>4, <3>5 DEF LayoutBlocks
        <4>2. QED
          BY <2>2, <3>1, <3>5, <4>1, SMTT(30) DEF BlockLen, Stride, ML_KEM_N
      <3>6. QED
        BY <2>2, <3>2, <3>3, <3>4, <3>5 DEF Kinds
    <2> DEFINE m == s.slot
    <2> HIDE DEF w, m
    <2>6. m \in Nat /\ m + 1 <= count
      BY <2>2, <2>3 DEF m
    <2>7. 0 <= w * m /\ w * (m + 1) <= w * count
      BY <2>1, <2>2, <2>6, SMTT(30)
    <2>8. w * m \in Int /\ w * (m + 1) \in Int /\ w * count \in Int
      BY <2>1, <2>2, <2>6
    <2>9. w * m <= s.at /\ s.at + s.len <= w * (m + 1)
      BY <2>4 DEF m
    <2>10. QED
      BY <2>4, <2>5, <2>7, <2>8, <2>9
  <1>2. LayoutInv => SlicesInside
    BY <1>1 DEF SlicesInside
  <1>3. QED
    BY <1>2, LayoutInvariant, PTL

\* The sponge state of every slot is aligned for u64 accesses.
THEOREM StateIsAligned == LayoutSpec => []StateAligned
  <1>1. LayoutInv => StateAligned
    BY DEF LayoutInv, InWindows, FitsSlot, StateAligned
  <1>2. QED
    BY <1>1, LayoutInvariant, PTL

\* Inside and aligned, which is what the runs check of every buffer.
THEOREM SlicesAllFit == LayoutSpec => []SlicesFit
  <1>1. SlicesInside /\ StateAligned => SlicesFit
    BY DEF SlicesFit
  <1>2. QED
    BY <1>1, SlicesStayInside, StateIsAligned, PTL

-----------------------------------------------------------------------------
(* The wipes *)

EncapsBytes(m, b) ==
  {Slice(m, "public_key_msg", "u8", b, public_key_msg_len),
   Slice(m, "ciphertext", "u8", b + public_key_msg_len, ciphertext_len)}
AloneBytes ==
  {Slice(0, "ciphertext", "ct", 0, ciphertext_len),
   Slice(0, "public_key_msg", "u8", 0, public_key_msg_len)}
TempPolys ==
  {Slice(0, "poly", "u16", 0, ML_KEM_N),
   Slice(0, "t", "u16", ML_KEM_N, k * ML_KEM_N),
   Slice(0, "secret", "u16", ML_KEM_N + k * ML_KEM_N, k * ML_KEM_N)}

\* The buffers of slot m, by multiplication.
SlotSlices(m) ==
  CASE kind = "decaps" ->
         EncapsPolys(m, Stride("u16") * m)
           \cup DecryptPolys(m, Stride("u16") * m + (3 * k + 2) * ML_KEM_N)
           \cup DecapsBytes(m) \cup RawBuffers(m, "raw", m * Raw)
    [] kind = "encaps" ->
         EncapsPolys(m, Stride("u16") * m) \cup EncapsBytes(m, Stride("u8") * m)
           \cup RawBuffers(m, "u8", Stride("u8") * m + public_key_msg_len + ciphertext_len)
    [] kind = "alone" -> EncapsPolys(0, 0) \cup AloneBytes \cup RawBuffers(0, "u8", public_key_msg_len)
    [] kind = "temp" -> TempPolys \cup RawBuffers(0, "raw", 0)

\* The buffers handed out are those of the slots done so far.
Exact == \A s : s \in slices <=> \E m \in 0 .. i - 1 : s \in SlotSlices(m)

LEMMA ExactStep == LayoutInv /\ Exact /\ [LayoutNext]_layoutVars => Exact'
  <1> SUFFICES ASSUME LayoutInv, Exact, [LayoutNext]_layoutVars PROVE Exact'
    OBVIOUS
  <1>1. CASE UNCHANGED layoutVars
    <2>1. \A m : SlotSlices(m)' = SlotSlices(m)
      BY <1>1 DEF layoutVars, SlotSlices, Stride, EncapsPolys, DecryptPolys, DecapsBytes, RawBuffers,
                  EncapsBytes, AloneBytes, TempPolys, public_key_msg_len, ciphertext_len
    <2> QED
      BY <1>1, <2>1 DEF layoutVars, Exact
  <1>2. CASE LayoutNext
    <2>1. /\ UNCHANGED <<kind, k>> /\ i' = i + 1 /\ i \in Nat
          /\ kind \in {"alone", "temp"} => i = 0
      BY <1>2 DEF LayoutNext, AssignDecapsSlot, AssignEncapsSlot, AllocEncaps, AllocTemp, LayoutInv, Shape
    <2>2. slices' = slices \cup SlotSlices(i)
      <3>1. CASE AssignDecapsSlot
        <4>1. next.u16 = Stride("u16") * i /\ kind = "decaps"
          BY <3>1 DEF AssignDecapsSlot, LayoutInv, Pointers
        <4> QED
          BY <3>1, <4>1 DEF AssignDecapsSlot, SlotSlices
      <3>2. CASE AssignEncapsSlot
        <4>1. next.u16 = Stride("u16") * i /\ next.u8 = Stride("u8") * i /\ kind = "encaps"
          BY <3>2 DEF AssignEncapsSlot, LayoutInv, Pointers
        <4> QED
          BY <3>2, <4>1 DEF AssignEncapsSlot, SlotSlices, EncapsBytes
      <3>3. CASE AllocEncaps
        <4>1. kind = "alone" /\ slices = {}
          BY <2>1, <3>3 DEF AllocEncaps, Exact
        <4> QED
          BY <3>3, <4>1 DEF AllocEncaps, SlotSlices, AloneBytes
      <3>4. CASE AllocTemp
        <4>1. kind = "temp" /\ slices = {}
          BY <2>1, <3>4 DEF AllocTemp, Exact
        <4> QED
          BY <3>4, <4>1 DEF AllocTemp, SlotSlices, TempPolys
      <3> QED
        BY <1>2, <3>1, <3>2, <3>3, <3>4 DEF LayoutNext
    <2>3. \A m : SlotSlices(m)' = SlotSlices(m)
      BY <2>1 DEF SlotSlices, Stride, EncapsPolys, DecryptPolys, DecapsBytes, RawBuffers,
                  EncapsBytes, AloneBytes, TempPolys, public_key_msg_len, ciphertext_len
    <2>4. 0 .. i' - 1 = (0 .. i - 1) \cup {i}
      BY <2>1
    <2> QED
      BY <2>2, <2>3, <2>4 DEF Exact
  <1> QED
    BY <1>1, <1>2

LEMMA ExactLayout == LayoutSpec => [](LayoutInv /\ Exact)
  <1>1. LayoutInit => Exact
    BY DEF LayoutInit, Exact
  <1>2. LayoutInv /\ Exact /\ [LayoutNext]_layoutVars => Exact'
    BY ExactStep
  <1> QED
    BY <1>1, <1>2, LayoutInvariant, PTL DEF LayoutSpec

\* The buffers of a slot are marked with its number.
LEMMA SlotMarks ==
  ASSUME LayoutInv, NEW m \in 0 .. i - 1, NEW s \in SlotSlices(m)
  PROVE  s.slot = m
  <1>1. kind \in Kinds /\ (kind \in {"alone", "temp"} => m = 0)
    BY DEF LayoutInv, Shape
  <1>2. CASE kind = "decaps"
    BY <1>2 DEF SlotSlices, EncapsPolys, DecryptPolys, DecapsBytes, RawBuffers, Slice
  <1>3. CASE kind = "encaps"
    BY <1>3 DEF SlotSlices, EncapsPolys, EncapsBytes, RawBuffers, Slice
  <1>4. CASE kind = "alone"
    BY <1>1, <1>4 DEF SlotSlices, EncapsPolys, AloneBytes, RawBuffers, Slice
  <1>5. CASE kind = "temp"
    BY <1>1, <1>5 DEF SlotSlices, TempPolys, RawBuffers, Slice
  <1> QED
    BY <1>1, <1>2, <1>3, <1>4, <1>5 DEF Kinds

LEMMA SlotsOwn ==
  ASSUME LayoutInv, Exact, NEW m \in 0 .. i - 1
  PROVE  \A s : s \in SlotSlices(m) <=> s \in slices /\ s.slot = m
  BY SlotMarks DEF Exact

\* A wipe starts at the field it is given; where the kind has no such field it
\* wipes nothing.
LEMMA WipeOfField ==
  ASSUME LayoutInv, Exact, NEW m \in 0 .. i - 1, NEW field, NEW block, NEW p, NEW m2, NEW len,
         Slice(m, field, block, p, m2) \in SlotSlices(m),
         \A s \in SlotSlices(m) : s.field = field => s = Slice(m, field, block, p, m2)
  PROVE  WipedFrom(m, field, len) = {Slice(m, field, block, p, len)}
  <1> DEFINE t == Slice(m, field, block, p, m2)
  <1>1. t.slot = m /\ t.field = field /\ t.block = block /\ t.at = p
    BY DEF Slice
  <1> HIDE DEF t
  <1>2. {s \in slices : s.slot = m /\ s.field = field} = {t}
    BY <1>1, SlotsOwn DEF t
  <1> QED
    BY <1>1, <1>2 DEF WipedFrom

LEMMA NoField ==
  ASSUME LayoutInv, Exact, NEW m \in 0 .. i - 1, NEW field, NEW len,
         \A s \in SlotSlices(m) : s.field # field
  PROVE  WipedFrom(m, field, len) = {}
  BY SlotsOwn DEF WipedFrom

\* From the start of one buffer of a slot to the end of another.
LEMMA SpanFits ==
  ASSUME LayoutInv, Exact, NEW m \in 0 .. i - 1, NEW field, field # "state", NEW block,
         NEW from, NEW m2, NEW field2, NEW from2, NEW n2, NEW len \in Int,
         Slice(m, field, block, from, m2) \in SlotSlices(m),
         Slice(m, field2, block, from2, n2) \in SlotSlices(m),
         from + len = from2 + n2
  PROVE  FitsSlot({Slice(m, field, block, from, len)}, m)
  <1> DEFINE s == Slice(m, field, block, from, m2)
             t == Slice(m, field2, block, from2, n2)
             w == Slice(m, field, block, from, len)
             lo == Stride(block) * m
             hi == Stride(block) * (m + 1)
  <1>1. FitsSlot({s}, m) /\ FitsSlot({t}, m)
    <2>1. s \in slices /\ t \in slices /\ s.slot = m /\ t.slot = m
      BY SlotsOwn
    <2> QED
      BY <2>1 DEF LayoutInv, InWindows
  <1>2. /\ s.block = block /\ s.at = from /\ t.block = block /\ t.at = from2 /\ t.len = n2
        /\ w.slot = m /\ w.field = field /\ w.block = block /\ w.at = from /\ w.len = len
    BY DEF Slice
  <1> HIDE DEF s, t, w
  <1>3. from \in Int /\ block \in LayoutBlocks /\ lo <= from
    BY <1>1, <1>2 DEF FitsSlot
  <1>4. from2 + n2 <= hi
    BY <1>1, <1>2 DEF FitsSlot
  <1> HIDE DEF lo, hi
  <1>5. w.at \in Int /\ w.len \in Int /\ lo <= w.at /\ w.at + w.len <= hi
    BY <1>2, <1>3, <1>4
  <1>6. FitsSlot({w}, m)
    BY <1>2, <1>3, <1>5 DEF FitsSlot, lo, hi
  <1> QED
    BY <1>6 DEF w

\* What lies in the window of one slot meets no buffer of another.
LEMMA WipeApart ==
  ASSUME LayoutInv, NEW m \in 0 .. i - 1, NEW w, FitsSlot({w}, m), NEW s \in slices, s.slot # m
  PROVE  ~Overlap(w, s)
  <1>1. s.slot \in 0 .. i - 1 /\ FitsSlot({s}, s.slot) /\ i \in Int
    BY DEF LayoutInv, InWindows, Shape
  <1>2. CASE w.block = s.block
    <2> DEFINE d == Stride(s.block)
               v == s.slot
    <2>1. d \in Nat /\ v \in Int /\ m \in Int
      BY <1>1, Sizes DEF LayoutInv, Shape
    <2>2. /\ w.at \in Int /\ w.len \in Int /\ d * m <= w.at /\ w.at + w.len <= d * (m + 1)
          /\ s.at \in Int /\ s.len \in Int /\ d * v <= s.at /\ s.at + s.len <= d * (v + 1)
      BY <1>1, <1>2 DEF FitsSlot
    <2>3. v # m
      OBVIOUS
    <2> HIDE DEF d, v
    <2>4. d * m \in Int /\ d * v \in Int /\ d * (m + 1) \in Int /\ d * (v + 1) \in Int
      BY <2>1
    <2>5. CASE v + 1 <= m
      <3>1. d * (v + 1) <= d * m
        BY <2>1, <2>5, SMTT(30)
      <3> QED
        BY <2>2, <2>4, <3>1 DEF Overlap
    <2>6. CASE m + 1 <= v
      <3>1. d * (m + 1) <= d * v
        BY <2>1, <2>6, SMTT(30)
      <3> QED
        BY <2>2, <2>4, <3>1 DEF Overlap
    <2> QED
      BY <2>1, <2>3, <2>5, <2>6
  <1> QED
    BY <1>2 DEF Overlap

\* Of five consecutive buffers the wipe spares the first, which holds the key.
LEMMA PolysCovered ==
  ASSUME k \in {2, 3, 4}, NEW m \in Nat, NEW p \in Nat, NEW s \in EncapsPolys(m, p)
  PROVE  LET w == Slice(m, "u", "u16", p + k * ML_KEM_N, PolysWiped)
         IN  IF s.field \in Kept THEN ~Overlap(w, s) ELSE Covers(w, s)
  <1>1. CASE k = 2
    BY <1>1, SMTT(30) DEF EncapsPolys, Slice, Overlap, Covers, PolysWiped, Kept, ML_KEM_N
  <1>2. CASE k = 3
    BY <1>2, SMTT(30) DEF EncapsPolys, Slice, Overlap, Covers, PolysWiped, Kept, ML_KEM_N
  <1>3. CASE k = 4
    BY <1>3, SMTT(30) DEF EncapsPolys, Slice, Overlap, Covers, PolysWiped, Kept, ML_KEM_N
  <1> QED
    BY <1>1, <1>2, <1>3

LEMMA DecryptCovered ==
  ASSUME k \in {2, 3, 4}, NEW m \in Nat, NEW p \in Nat, NEW s \in DecryptPolys(m, p)
  PROVE  Covers(Slice(m, "d_u", "u16", p, (k + 2) * ML_KEM_N), s)
  BY SMTT(30) DEF DecryptPolys, Slice, Covers, ML_KEM_N

LEMMA RawCovered ==
  ASSUME NEW m \in Nat, NEW block, NEW p \in Nat, NEW s \in RawBuffers(m, block, p)
  PROVE  Covers(Slice(m, "raw_bytes", block, p, Raw), s)
  BY DEF RawBuffers, Slice, Covers, Raw, MatrixXof, KeccakState

\* The wipes of slot m stay in its windows, reach all its buffers and spare the
\* key.
WipeGood(m) ==
  /\ \A w \in Wiped(m) : FitsSlot({w}, m)
  /\ \A s \in SlotSlices(m) :
       IF s.field \in Kept THEN \A w \in Wiped(m) : ~Overlap(w, s)
                           ELSE \E w \in Wiped(m) : Covers(w, s)

LEMMA DecapsWipe ==
  ASSUME LayoutInv, Exact, kind = "decaps", NEW m \in 0 .. i - 1
  PROVE  WipeGood(m)
  <1> DEFINE p == Stride("u16") * m
             q == p + (3 * k + 2) * ML_KEM_N
             c == ciphertext_len
             A == EncapsPolys(m, p)
             B == DecryptPolys(m, q)
             C == DecapsBytes(m)
             D == RawBuffers(m, "raw", m * Raw)
             w1 == Slice(m, "ciphertext", "ct", (2 * m + 1) * c, c)
             w2 == Slice(m, "raw_bytes", "raw", m * Raw, Raw)
             w3 == Slice(m, "u", "u16", p + k * ML_KEM_N, PolysWiped)
             w4 == Slice(m, "d_u", "u16", q, (k + 2) * ML_KEM_N)
             w5 == Slice(m, "d_ciphertext", "ct", (2 * m + 0) * c, c)
  <1>1. /\ k \in {2, 3, 4} /\ m \in Nat /\ c \in Nat /\ Raw = 776 /\ p \in Nat /\ q \in Nat
        /\ m * Raw \in Nat
    <2>1. k \in {2, 3, 4} /\ m \in Nat
      BY DEF LayoutInv, Shape
    <2>2. c \in Nat /\ Raw = 776 /\ Stride("u16") \in Nat
      BY <2>1, Sizes
    <2> QED
      BY <2>1, <2>2 DEF ML_KEM_N
  <1>2. SlotSlices(m) = A \cup B \cup C \cup D
    BY DEF SlotSlices
  <1> HIDE DEF p, q, c
  <1>3. /\ Slice(m, "ciphertext", "ct", (2 * m + 1) * c, c) \in SlotSlices(m)
        /\ Slice(m, "d_ciphertext", "ct", (2 * m + 0) * c, c) \in SlotSlices(m)
        /\ Slice(m, "raw_bytes", "raw", m * Raw, MatrixXof) \in SlotSlices(m)
        /\ Slice(m, "state", "raw", m * Raw + MatrixXof, KeccakState) \in SlotSlices(m)
        /\ Slice(m, "u", "u16", p + k * ML_KEM_N, k * ML_KEM_N) \in SlotSlices(m)
        /\ Slice(m, "poly", "u16", p + (3 * k + 1) * ML_KEM_N, ML_KEM_N) \in SlotSlices(m)
        /\ Slice(m, "d_u", "u16", q, k * ML_KEM_N) \in SlotSlices(m)
        /\ Slice(m, "d_poly", "u16", q + (k + 1) * ML_KEM_N, ML_KEM_N) \in SlotSlices(m)
    BY <1>2 DEF EncapsPolys, DecryptPolys, DecapsBytes, RawBuffers, c
  <1>4. ASSUME NEW s \in SlotSlices(m)
        PROVE  /\ s.field = "ciphertext" => s = Slice(m, "ciphertext", "ct", (2 * m + 1) * c, c)
               /\ s.field = "d_ciphertext" => s = Slice(m, "d_ciphertext", "ct", (2 * m + 0) * c, c)
               /\ s.field = "raw_bytes" => s = Slice(m, "raw_bytes", "raw", m * Raw, MatrixXof)
               /\ s.field = "u" => s = Slice(m, "u", "u16", p + k * ML_KEM_N, k * ML_KEM_N)
               /\ s.field = "d_u" => s = Slice(m, "d_u", "u16", q, k * ML_KEM_N)
    <2>1. CASE s \in A
      BY <2>1 DEF EncapsPolys, Slice
    <2>2. CASE s \in B
      BY <2>2 DEF DecryptPolys, Slice
    <2>3. CASE s \in C
      BY <2>3 DEF DecapsBytes, Slice, c
    <2>4. CASE s \in D
      BY <2>4 DEF RawBuffers, Slice
    <2> QED
      BY <1>2, <2>1, <2>2, <2>3, <2>4
  <1>5. Wiped(m) = {w1, w2, w3, w4, w5}
    <2>1. WipedFrom(m, "ciphertext", c) = {w1} /\ WipedFrom(m, "d_ciphertext", c) = {w5}
      BY <1>3, <1>4, WipeOfField
    <2>2. WipedFrom(m, "raw_bytes", Raw) = {w2}
      BY <1>3, <1>4, WipeOfField
    <2>3. WipedFrom(m, "u", PolysWiped) = {w3}
      BY <1>3, <1>4, WipeOfField
    <2>4. WipedFrom(m, "d_u", (k + 2) * ML_KEM_N) = {w4}
      BY <1>3, <1>4, WipeOfField
    <2> HIDE DEF w1, w2, w3, w4, w5
    <2> QED
      BY <2>1, <2>2, <2>3, <2>4 DEF Wiped, EncapsWiped, DecryptWiped, c
  <1>6. \A w \in Wiped(m) : FitsSlot({w}, m)
    <2>1. FitsSlot({w1}, m) /\ FitsSlot({w5}, m)
      BY <1>1, <1>3, SpanFits
    <2>2. FitsSlot({w2}, m)
      <3>1. m * Raw + Raw = m * Raw + MatrixXof + KeccakState
        BY <1>1 DEF Raw, MatrixXof, KeccakState
      <3> QED
        BY <1>1, <1>3, <3>1, SpanFits
    <2>3. FitsSlot({w3}, m)
      <3>1. /\ p + k * ML_KEM_N + PolysWiped = p + (3 * k + 1) * ML_KEM_N + ML_KEM_N
            /\ PolysWiped \in Int
        BY <1>1 DEF PolysWiped, ML_KEM_N
      <3> QED
        BY <1>1, <1>3, <3>1, SpanFits
    <2>4. FitsSlot({w4}, m)
      <3>1. /\ q + (k + 2) * ML_KEM_N = q + (k + 1) * ML_KEM_N + ML_KEM_N
            /\ (k + 2) * ML_KEM_N \in Int
        BY <1>1 DEF ML_KEM_N
      <3> QED
        BY <1>1, <1>3, <3>1, SpanFits
    <2> HIDE DEF w1, w2, w3, w4, w5
    <2> QED
      BY <1>5, <2>1, <2>2, <2>3, <2>4
  <1>7. ASSUME NEW s \in SlotSlices(m)
        PROVE  IF s.field \in Kept THEN \A w \in Wiped(m) : ~Overlap(w, s)
                                   ELSE \E w \in Wiped(m) : Covers(w, s)
    <2>1. CASE s \in A
      <3>1. IF s.field \in Kept THEN ~Overlap(w3, s) ELSE Covers(w3, s)
        BY <1>1, <2>1, PolysCovered
      <3>2. s.block = "u16" /\ s.at \in Int /\ s.len \in Int /\ s.at + s.len <= q
        BY <1>1, <2>1, EncapsPolysFit DEF Within, q
      <3>3. ~Overlap(w1, s) /\ ~Overlap(w2, s) /\ ~Overlap(w5, s)
        BY <3>2 DEF Overlap, Slice
      <3>4. ~Overlap(w4, s)
        BY <1>1, <3>2 DEF Overlap, Slice
      <3> HIDE DEF w1, w2, w3, w4, w5
      <3> QED
        BY <1>5, <3>1, <3>3, <3>4
    <2>2. CASE s \in B
      <3>1. s.field \notin Kept
        BY <2>2 DEF DecryptPolys, Slice, Kept
      <3>2. Covers(w4, s)
        BY <1>1, <2>2, DecryptCovered
      <3> QED
        BY <1>5, <3>1, <3>2
    <2>3. CASE s \in C
      <3>1. CASE s.field = "public_key_msg"
        <4>1. s.block = "pk" /\ s.field \in Kept
          BY <2>3, <3>1 DEF DecapsBytes, Slice, Kept
        <4>2. \A w \in {w1, w2, w3, w4, w5} : w.block # "pk"
          BY DEF Slice
        <4> QED
          BY <1>5, <4>1, <4>2 DEF Overlap
      <3>2. CASE s.field # "public_key_msg"
        <4>1. (s = w1 \/ s = w5) /\ s.field \notin Kept
          BY <2>3, <3>2 DEF DecapsBytes, Slice, Kept, c
        <4>2. s.at \in Int /\ s.len \in Int
          BY <1>1, <4>1 DEF Slice
        <4>3. Covers(s, s)
          BY <4>2 DEF Covers
        <4> HIDE DEF w1, w2, w3, w4, w5
        <4> QED
          BY <1>5, <4>1, <4>3
      <3> QED
        BY <3>1, <3>2
    <2>4. CASE s \in D
      <3>1. s.field \notin Kept
        BY <2>4 DEF RawBuffers, Slice, Kept
      <3>2. Covers(w2, s)
        BY <1>1, <2>4, RawCovered
      <3> QED
        BY <1>5, <3>1, <3>2
    <2> QED
      BY <1>2, <2>1, <2>2, <2>3, <2>4
  <1> QED
    BY <1>6, <1>7 DEF WipeGood

LEMMA EncapsWipe ==
  ASSUME LayoutInv, Exact, kind = "encaps", NEW m \in 0 .. i - 1
  PROVE  WipeGood(m)
  <1> DEFINE p == Stride("u16") * m
             b == Stride("u8") * m
             l == public_key_msg_len
             c == ciphertext_len
             r == b + l + c
             A == EncapsPolys(m, p)
             C == EncapsBytes(m, b)
             D == RawBuffers(m, "u8", r)
             w1 == Slice(m, "ciphertext", "u8", b + l, c)
             w2 == Slice(m, "raw_bytes", "u8", r, Raw)
             w3 == Slice(m, "u", "u16", p + k * ML_KEM_N, PolysWiped)
  <1>1. /\ k \in {2, 3, 4} /\ m \in Nat /\ c \in Nat /\ l \in Nat /\ Raw = 776
        /\ p \in Nat /\ b \in Nat /\ r \in Nat
    <2>1. k \in {2, 3, 4} /\ m \in Nat
      BY DEF LayoutInv, Shape
    <2>2. c \in Nat /\ l \in Nat /\ Raw = 776 /\ Stride("u16") \in Nat /\ Stride("u8") \in Nat
      BY <2>1, Sizes
    <2> QED
      BY <2>1, <2>2
  <1>2. SlotSlices(m) = A \cup C \cup D
    BY DEF SlotSlices
  <1> HIDE DEF p, b, c, l
  <1>3. /\ Slice(m, "ciphertext", "u8", b + l, c) \in SlotSlices(m)
        /\ Slice(m, "raw_bytes", "u8", r, MatrixXof) \in SlotSlices(m)
        /\ Slice(m, "state", "u8", r + MatrixXof, KeccakState) \in SlotSlices(m)
        /\ Slice(m, "u", "u16", p + k * ML_KEM_N, k * ML_KEM_N) \in SlotSlices(m)
        /\ Slice(m, "poly", "u16", p + (3 * k + 1) * ML_KEM_N, ML_KEM_N) \in SlotSlices(m)
    BY <1>2 DEF EncapsPolys, EncapsBytes, RawBuffers, c, l
  <1>4. ASSUME NEW s \in SlotSlices(m)
        PROVE  /\ s.field = "ciphertext" => s = Slice(m, "ciphertext", "u8", b + l, c)
               /\ s.field = "raw_bytes" => s = Slice(m, "raw_bytes", "u8", r, MatrixXof)
               /\ s.field = "u" => s = Slice(m, "u", "u16", p + k * ML_KEM_N, k * ML_KEM_N)
               /\ s.field # "d_u" /\ s.field # "d_ciphertext"
    <2>1. CASE s \in A
      BY <2>1 DEF EncapsPolys, Slice
    <2>2. CASE s \in C
      BY <2>2 DEF EncapsBytes, Slice, c, l
    <2>3. CASE s \in D
      BY <2>3 DEF RawBuffers, Slice
    <2> QED
      BY <1>2, <2>1, <2>2, <2>3
  <1> HIDE DEF r
  <1>5. Wiped(m) = {w1, w2, w3}
    <2>1. WipedFrom(m, "ciphertext", c) = {w1}
      BY <1>3, <1>4, WipeOfField
    <2>2. WipedFrom(m, "raw_bytes", Raw) = {w2}
      BY <1>3, <1>4, WipeOfField
    <2>3. WipedFrom(m, "u", PolysWiped) = {w3}
      BY <1>3, <1>4, WipeOfField
    <2>4. WipedFrom(m, "d_u", (k + 2) * ML_KEM_N) = {} /\ WipedFrom(m, "d_ciphertext", c) = {}
      BY <1>4, NoField
    <2> HIDE DEF w1, w2, w3
    <2> QED
      BY <2>1, <2>2, <2>3, <2>4 DEF Wiped, EncapsWiped, DecryptWiped, c
  <1>6. \A w \in Wiped(m) : FitsSlot({w}, m)
    <2>1. FitsSlot({w1}, m)
      BY <1>1, <1>3, SpanFits
    <2>2. FitsSlot({w2}, m)
      <3>1. r + Raw = r + MatrixXof + KeccakState
        BY <1>1 DEF Raw, MatrixXof, KeccakState
      <3> QED
        BY <1>1, <1>3, <3>1, SpanFits
    <2>3. FitsSlot({w3}, m)
      <3>1. /\ p + k * ML_KEM_N + PolysWiped = p + (3 * k + 1) * ML_KEM_N + ML_KEM_N
            /\ PolysWiped \in Int
        BY <1>1 DEF PolysWiped, ML_KEM_N
      <3> QED
        BY <1>1, <1>3, <3>1, SpanFits
    <2> HIDE DEF w1, w2, w3
    <2> QED
      BY <1>5, <2>1, <2>2, <2>3
  <1>7. ASSUME NEW s \in SlotSlices(m)
        PROVE  IF s.field \in Kept THEN \A w \in Wiped(m) : ~Overlap(w, s)
                                   ELSE \E w \in Wiped(m) : Covers(w, s)
    <2>1. CASE s \in A
      <3>1. IF s.field \in Kept THEN ~Overlap(w3, s) ELSE Covers(w3, s)
        BY <1>1, <2>1, PolysCovered
      <3>2. s.block = "u16"
        BY <2>1 DEF EncapsPolys, Slice
      <3>3. ~Overlap(w1, s) /\ ~Overlap(w2, s)
        BY <3>2 DEF Overlap, Slice
      <3> HIDE DEF w1, w2, w3
      <3> QED
        BY <1>5, <3>1, <3>3
    <2>2. CASE s \in C
      <3>1. CASE s.field = "public_key_msg"
        <4>1. s.block = "u8" /\ s.at = b /\ s.len = l /\ s.field \in Kept
          BY <2>2, <3>1 DEF EncapsBytes, Slice, Kept, l
        <4>2. ~Overlap(w1, s)
          BY <1>1, <4>1 DEF Overlap, Slice
        <4>3. ~Overlap(w2, s)
          BY <1>1, <4>1 DEF Overlap, Slice, r
        <4>4. ~Overlap(w3, s)
          BY <4>1 DEF Overlap, Slice
        <4> HIDE DEF w1, w2, w3
        <4> QED
          BY <1>5, <4>1, <4>2, <4>3, <4>4
      <3>2. CASE s.field # "public_key_msg"
        <4>1. s = w1 /\ s.field \notin Kept
          BY <2>2, <3>2 DEF EncapsBytes, Slice, Kept, c, l
        <4>2. s.at \in Int /\ s.len \in Int
          BY <1>1, <4>1 DEF Slice
        <4>3. Covers(s, s)
          BY <4>2 DEF Covers
        <4> HIDE DEF w1, w2, w3
        <4> QED
          BY <1>5, <4>1, <4>3
      <3> QED
        BY <3>1, <3>2
    <2>3. CASE s \in D
      <3>1. s.field \notin Kept
        BY <2>3 DEF RawBuffers, Slice, Kept
      <3>2. Covers(w2, s)
        BY <1>1, <2>3, RawCovered
      <3> QED
        BY <1>5, <3>1, <3>2
    <2> QED
      BY <1>2, <2>1, <2>2, <2>3
  <1> QED
    BY <1>6, <1>7 DEF WipeGood

\* A context of its own: the ciphertext has its block to itself.
LEMMA AloneWipe ==
  ASSUME LayoutInv, Exact, kind = "alone", NEW m \in 0 .. i - 1
  PROVE  WipeGood(m)
  <1> DEFINE l == public_key_msg_len
             c == ciphertext_len
             A == EncapsPolys(0, 0)
             C == AloneBytes
             D == RawBuffers(0, "u8", l)
             w1 == Slice(0, "ciphertext", "ct", 0, c)
             w2 == Slice(0, "raw_bytes", "u8", l, Raw)
             w3 == Slice(0, "u", "u16", 0 + k * ML_KEM_N, PolysWiped)
  <1>1. k \in {2, 3, 4} /\ m = 0 /\ c \in Nat /\ l \in Nat /\ Raw = 776
    <2>1. k \in {2, 3, 4} /\ m = 0
      BY DEF LayoutInv, Shape
    <2> QED
      BY <2>1, Sizes
  <1>2. SlotSlices(m) = A \cup C \cup D
    BY DEF SlotSlices
  <1> HIDE DEF c, l
  <1>3. /\ Slice(m, "ciphertext", "ct", 0, c) \in SlotSlices(m)
        /\ Slice(m, "raw_bytes", "u8", l, MatrixXof) \in SlotSlices(m)
        /\ Slice(m, "state", "u8", l + MatrixXof, KeccakState) \in SlotSlices(m)
        /\ Slice(m, "u", "u16", 0 + k * ML_KEM_N, k * ML_KEM_N) \in SlotSlices(m)
        /\ Slice(m, "poly", "u16", 0 + (3 * k + 1) * ML_KEM_N, ML_KEM_N) \in SlotSlices(m)
    BY <1>1, <1>2 DEF EncapsPolys, AloneBytes, RawBuffers, c
  <1>4. ASSUME NEW s \in SlotSlices(m)
        PROVE  /\ s.field = "ciphertext" => s = Slice(m, "ciphertext", "ct", 0, c)
               /\ s.field = "raw_bytes" => s = Slice(m, "raw_bytes", "u8", l, MatrixXof)
               /\ s.field = "u" => s = Slice(m, "u", "u16", 0 + k * ML_KEM_N, k * ML_KEM_N)
               /\ s.field # "d_u" /\ s.field # "d_ciphertext"
    <2>1. CASE s \in A
      BY <1>1, <2>1 DEF EncapsPolys, Slice
    <2>2. CASE s \in C
      BY <1>1, <2>2 DEF AloneBytes, Slice, c
    <2>3. CASE s \in D
      BY <1>1, <2>3 DEF RawBuffers, Slice
    <2> QED
      BY <1>2, <2>1, <2>2, <2>3
  <1>5. Wiped(m) = {w1, w2, w3}
    <2>1. WipedFrom(m, "ciphertext", c) = {w1}
      BY <1>1, <1>3, <1>4, WipeOfField
    <2>2. WipedFrom(m, "raw_bytes", Raw) = {w2}
      BY <1>1, <1>3, <1>4, WipeOfField
    <2>3. WipedFrom(m, "u", PolysWiped) = {w3}
      BY <1>1, <1>3, <1>4, WipeOfField
    <2>4. WipedFrom(m, "d_u", (k + 2) * ML_KEM_N) = {} /\ WipedFrom(m, "d_ciphertext", c) = {}
      BY <1>4, NoField
    <2> HIDE DEF w1, w2, w3
    <2> QED
      BY <2>1, <2>2, <2>3, <2>4 DEF Wiped, EncapsWiped, DecryptWiped, c
  <1>6. \A w \in Wiped(m) : FitsSlot({w}, m)
    <2>1. FitsSlot({w1}, m)
      BY <1>1, <1>3, SpanFits
    <2>2. FitsSlot({w2}, m)
      <3>1. l + Raw = l + MatrixXof + KeccakState
        BY <1>1 DEF Raw, MatrixXof, KeccakState
      <3> QED
        BY <1>1, <1>3, <3>1, SpanFits
    <2>3. FitsSlot({w3}, m)
      <3>1. /\ 0 + k * ML_KEM_N + PolysWiped = 0 + (3 * k + 1) * ML_KEM_N + ML_KEM_N
            /\ PolysWiped \in Int
        BY <1>1 DEF PolysWiped, ML_KEM_N
      <3> QED
        BY <1>1, <1>3, <3>1, SpanFits
    <2> HIDE DEF w1, w2, w3
    <2> QED
      BY <1>5, <2>1, <2>2, <2>3
  <1>7. ASSUME NEW s \in SlotSlices(m)
        PROVE  IF s.field \in Kept THEN \A w \in Wiped(m) : ~Overlap(w, s)
                                   ELSE \E w \in Wiped(m) : Covers(w, s)
    <2>1. CASE s \in A
      <3>1. IF s.field \in Kept THEN ~Overlap(w3, s) ELSE Covers(w3, s)
        BY <1>1, <2>1, PolysCovered
      <3>2. s.block = "u16"
        BY <2>1 DEF EncapsPolys, Slice
      <3>3. ~Overlap(w1, s) /\ ~Overlap(w2, s)
        BY <3>2 DEF Overlap, Slice
      <3> HIDE DEF w1, w2, w3
      <3> QED
        BY <1>5, <3>1, <3>3
    <2>2. CASE s \in C
      <3>1. CASE s.field = "public_key_msg"
        <4>1. s.block = "u8" /\ s.at = 0 /\ s.len = l /\ s.field \in Kept
          BY <2>2, <3>1 DEF AloneBytes, Slice, Kept, l
        <4>2. ~Overlap(w1, s) /\ ~Overlap(w3, s)
          BY <4>1 DEF Overlap, Slice
        <4>3. ~Overlap(w2, s)
          BY <1>1, <4>1 DEF Overlap, Slice
        <4> HIDE DEF w1, w2, w3
        <4> QED
          BY <1>5, <4>1, <4>2, <4>3
      <3>2. CASE s.field # "public_key_msg"
        <4>1. s = w1 /\ s.field \notin Kept
          BY <2>2, <3>2 DEF AloneBytes, Slice, Kept, c
        <4>2. s.at \in Int /\ s.len \in Int
          BY <1>1, <4>1 DEF Slice
        <4>3. Covers(s, s)
          BY <4>2 DEF Covers
        <4> HIDE DEF w1, w2, w3
        <4> QED
          BY <1>5, <4>1, <4>3
      <3> QED
        BY <3>1, <3>2
    <2>3. CASE s \in D
      <3>1. s.field \notin Kept
        BY <2>3 DEF RawBuffers, Slice, Kept
      <3>2. Covers(w2, s)
        BY <1>1, <2>3, RawCovered
      <3> QED
        BY <1>5, <3>1, <3>2
    <2> QED
      BY <1>2, <2>1, <2>2, <2>3
  <1> QED
    BY <1>6, <1>7 DEF WipeGood

\* The temporary memory of the key generator holds nothing to keep.
LEMMA TempWipe ==
  ASSUME LayoutInv, Exact, kind = "temp", NEW m \in 0 .. i - 1
  PROVE  WipeGood(m)
  <1> DEFINE A == TempPolys
             D == RawBuffers(0, "raw", 0)
             w1 == Slice(0, "poly", "u16", 0, (k * 2 + 1) * ML_KEM_N)
             w2 == Slice(0, "raw_bytes", "raw", 0, Raw)
  <1>1. k \in {2, 3, 4} /\ m = 0 /\ Raw = 776
    BY DEF LayoutInv, Shape, Raw, MatrixXof, KeccakState
  <1>2. SlotSlices(m) = A \cup D
    BY DEF SlotSlices
  <1>3. /\ Slice(m, "poly", "u16", 0, ML_KEM_N) \in SlotSlices(m)
        /\ Slice(m, "secret", "u16", ML_KEM_N + k * ML_KEM_N, k * ML_KEM_N) \in SlotSlices(m)
        /\ Slice(m, "raw_bytes", "raw", 0, MatrixXof) \in SlotSlices(m)
        /\ Slice(m, "state", "raw", 0 + MatrixXof, KeccakState) \in SlotSlices(m)
    BY <1>1, <1>2 DEF TempPolys, RawBuffers
  <1>4. ASSUME NEW s \in SlotSlices(m)
        PROVE  /\ s.field = "poly" => s = Slice(m, "poly", "u16", 0, ML_KEM_N)
               /\ s.field = "raw_bytes" => s = Slice(m, "raw_bytes", "raw", 0, MatrixXof)
    BY <1>1, <1>2 DEF TempPolys, RawBuffers, Slice
  <1>5. Wiped(m) = {w1, w2}
    <2>1. WipedFrom(m, "poly", (k * 2 + 1) * ML_KEM_N) = {w1}
      BY <1>1, <1>3, <1>4, WipeOfField
    <2>2. WipedFrom(m, "raw_bytes", Raw) = {w2}
      BY <1>1, <1>3, <1>4, WipeOfField
    <2> HIDE DEF w1, w2
    <2> QED
      BY <1>1, <2>1, <2>2 DEF Wiped, TempWiped
  <1>6. \A w \in Wiped(m) : FitsSlot({w}, m)
    <2>1. FitsSlot({w1}, m)
      <3>1. /\ 0 + (k * 2 + 1) * ML_KEM_N = ML_KEM_N + k * ML_KEM_N + k * ML_KEM_N
            /\ (k * 2 + 1) * ML_KEM_N \in Int
        BY <1>1 DEF ML_KEM_N
      <3> QED
        BY <1>1, <1>3, <3>1, SpanFits
    <2>2. FitsSlot({w2}, m)
      <3>1. 0 + Raw = 0 + MatrixXof + KeccakState
        BY <1>1 DEF Raw, MatrixXof, KeccakState
      <3> QED
        BY <1>1, <1>3, <3>1, SpanFits
    <2> HIDE DEF w1, w2
    <2> QED
      BY <1>5, <2>1, <2>2
  <1>7. ASSUME NEW s \in SlotSlices(m)
        PROVE  s.field \notin Kept /\ \E w \in Wiped(m) : Covers(w, s)
    <2>1. CASE s \in A
      <3>1. s.field \notin Kept
        BY <2>1 DEF TempPolys, Slice, Kept
      <3>2. Covers(w1, s)
        BY <1>1, <2>1, SMTT(30) DEF TempPolys, Slice, Covers, ML_KEM_N
      <3> QED
        BY <1>5, <3>1, <3>2
    <2>2. CASE s \in D
      <3>1. s.field \notin Kept
        BY <2>2 DEF RawBuffers, Slice, Kept
      <3>2. Covers(w2, s)
        BY <1>1, <2>2, RawCovered
      <3> QED
        BY <1>5, <3>1, <3>2
    <2> QED
      BY <1>2, <2>1, <2>2
  <1> QED
    BY <1>6, <1>7 DEF WipeGood

\* Every wipe of a context, of a pool or of the key generator reaches each
\* working buffer of its slot to the last element, spares the key of the slot
\* and touches no buffer of another slot, for every level and pool size the
\* code admits.  The destroy and the reset of a slot rely on it.
THEOREM WipesAreExact == LayoutSpec => []WipeExact
  <1>1. LayoutInv /\ Exact => WipeExact
    <2> SUFFICES ASSUME LayoutInv, Exact PROVE WipeExact
      OBVIOUS
    <2>1. ASSUME NEW m \in 0 .. i - 1 PROVE WipeGood(m)
      BY DecapsWipe, EncapsWipe, AloneWipe, TempWipe DEF LayoutInv, Shape, Kinds
    <2>2. ASSUME NEW s \in slices
          PROVE  s.slot \in 0 .. i - 1 /\ s \in SlotSlices(s.slot)
      <3>1. s.slot \in 0 .. i - 1
        BY DEF LayoutInv, InWindows
      <3> QED
        BY <3>1, SlotsOwn
    <2>3. ASSUME NEW s \in slices, s.field \notin Kept
          PROVE  \E w \in Wiped(s.slot) : Covers(w, s)
      BY <2>1, <2>2, <2>3 DEF WipeGood
    <2>4. ASSUME NEW s \in slices, NEW slot \in 0 .. i - 1, s.field \in Kept \/ s.slot # slot,
                 NEW w \in Wiped(slot)
          PROVE  ~Overlap(w, s)
      <3>1. CASE s.slot # slot
        <4>1. FitsSlot({w}, slot)
          BY <2>1 DEF WipeGood
        <4> QED
          BY <3>1, <4>1, WipeApart
      <3>2. CASE s.slot = slot /\ s.field \in Kept
        BY <2>1, <2>2, <3>2 DEF WipeGood
      <3> QED
        BY <2>4, <3>1, <3>2
    <2> QED
      BY <2>3, <2>4 DEF WipeExact
  <1> QED
    BY <1>1, ExactLayout, PTL
=============================================================================
