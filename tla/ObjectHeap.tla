----------------------------- MODULE ObjectHeap -----------------------------
(***************************************************************************)
(* The heap as the constructors and destructors of the library use it,     *)
(* through ml_kem_alloc, ml_kem_free and ml_kem_memzero of the ports: the  *)
(* allocated blocks of each object and what they hold.  Two history        *)
(* variables record what must never happen.                                *)
(***************************************************************************)
EXTENDS Functions

CONSTANT Objects   \* what an application creates side by side: key objects and pools

VARIABLES
  holds,     \* holds[o][b]: content of block b of object o, while it is allocated
  fault,     \* <<o, b>>: block b of o was accessed while not allocated
  spilled    \* <<o, b, content>>: content was left in block b of o when it was freed

heapVars == <<holds, fault, spilled>>

Live(o) == DOMAIN holds[o]

HeapInit ==
  /\ holds = [o \in Objects |-> [b \in {} |-> "nothing"]]
  /\ fault = {}
  /\ spilled = {}

HeapType(Kind, Blocks) ==
  /\ DOMAIN holds = Objects
  /\ \A o \in Kind :
       /\ Live(o) \subseteq Blocks
       /\ holds[o] \in [Live(o) -> {"nothing", "public", "secret"}]

\* Block b of o is allocated and initialized.
New(o, b, content) ==
  /\ holds' = [holds EXCEPT ![o] =
       [c \in DOMAIN @ \cup {b} |-> IF c = b THEN content ELSE @[c]]]
  /\ UNCHANGED <<fault, spilled>>

\* The accesses among bs that hit no allocated block of o.
Missing(o, bs) == {<<o, b>> : b \in bs \ Live(o)}

Read(o, bs) ==
  /\ fault' = fault \cup Missing(o, bs)
  /\ UNCHANGED <<holds, spilled>>

\* Content is stored into the blocks of o in its domain.
Store(o, content) ==
  /\ holds' = [holds EXCEPT ![o] =
       [b \in DOMAIN @ |-> IF b \in DOMAIN content THEN content[b] ELSE @[b]]]
  /\ fault' = fault \cup Missing(o, DOMAIN content)
  /\ UNCHANGED spilled

\* Blocks of o are wiped and blocks of o are freed, the wiped ones after that.
Clear(o, wiped, freed) ==
  /\ holds' = [holds EXCEPT ![o] =
       [b \in DOMAIN @ \ freed |-> IF b \in wiped THEN "nothing" ELSE @[b]]]
  /\ fault' = fault \cup Missing(o, wiped \cup freed)
  /\ spilled' = spilled \cup
       {<<o, b, holds[o][b]>> : b \in {c \in (freed \cap Live(o)) \ wiped :
                                      holds[o][c] # "nothing"}}
=============================================================================
