-------------------------- MODULE EncapsPoolObject --------------------------
(***************************************************************************)
(* How an encapsulation pool comes and goes: create_encaps_pool builds the *)
(* subpools of the requested levels one after the other, each from four    *)
(* allocations, and calls ml_kem_encaps_pool_destroy on what there is when *)
(* one of them fails.  The destructor finds its way by the pointers stored *)
(* in the pool, NULL where nothing was built.                              *)
(***************************************************************************)
EXTENDS ObjectHeap, Naturals, Sequences

CONSTANT Pools     \* the encapsulation pools

\* The subpools in the order they are built, and the blocks of each.
Levels == <<512, 768, 1024>>
Parts == {"slots", "contexts", "u16_mem", "u8_mem"}

Blocks == {<<"pool", 0>>} \cup Parts \X Range(Levels)
Root == <<"pool", 0>>

VARIABLES
  pc,          \* the step of the routine working on the pool
  at,          \* at[o]: index of the subpool being built
  requested,   \* requested[o]: the levels with a non-zero number of slots
  ptrs         \* ptrs[o]: blocks the fields of the pool point to, for the slots
               \* with encaps_ctx set in the descriptors

vars == <<pc, at, requested, ptrs, holds, fault, spilled>>

Init ==
  /\ pc = [o \in Pools |-> "none"]
  /\ at = [o \in Pools |-> 1]
  /\ requested = [o \in Pools |-> {}]
  /\ ptrs = [o \in Pools |-> {}]
  /\ HeapInit

Goto(o, from, to) == pc[o] = from /\ pc' = [pc EXCEPT ![o] = to]

Level(o) == Levels[at[o]]

-----------------------------------------------------------------------------
(* Construction *)

\* At least one level is requested, and the descriptor is allocated and zeroed.
\* (Where it is not, the call returns and nothing has changed.)
Create(o, levels) ==
  /\ levels # {}
  /\ Goto(o, "none", "next")
  /\ at' = [at EXCEPT ![o] = 1]
  /\ requested' = [requested EXCEPT ![o] = levels]
  /\ ptrs' = [ptrs EXCEPT ![o] = {}]
  /\ New(o, Root, "nothing")

\* The next requested level, or the end.
NextLevel(o) ==
  /\ \/ /\ at[o] > Len(Levels)
        /\ Goto(o, "next", "ready")
        /\ UNCHANGED at
     \/ /\ at[o] <= Len(Levels)
        /\ Level(o) \in requested[o]
        /\ Goto(o, "next", "slots")
        /\ UNCHANGED at
     \/ /\ at[o] <= Len(Levels)
        /\ Level(o) \notin requested[o]
        /\ pc[o] = "next"
        /\ at' = [at EXCEPT ![o] = @ + 1]
        /\ UNCHANGED pc
  /\ UNCHANGED <<requested, ptrs, heapVars>>

\* ml_kem_create_all_structs, the descriptors.
Slots(o) ==
  /\ \/ Goto(o, "slots", "contexts") /\ New(o, <<"slots", Level(o)>>, "nothing")
     \/ Goto(o, "slots", "destroy") /\ UNCHANGED heapVars
  /\ UNCHANGED <<at, requested, ptrs>>

\* Slip used to test the properties: the descriptors are registered before the
\* contexts are there.
ContextsRegisteredEarly(o) ==
  /\ ptrs' = [ptrs EXCEPT ![o] = @ \cup {<<"slots", Level(o)>>}]
  /\ \/ Goto(o, "contexts", "u16_mem") /\ New(o, <<"contexts", Level(o)>>, "public")
     \/ Goto(o, "contexts", "destroy") /\ Clear(o, {}, {<<"slots", Level(o)>>})
  /\ UNCHANGED <<at, requested>>

\* ml_kem_create_all_structs, the contexts: the descriptors are registered in
\* the pool and point to the contexts once both are there.
Contexts(o) ==
  /\ \/ /\ Goto(o, "contexts", "u16_mem")
        /\ New(o, <<"contexts", Level(o)>>, "public")
        /\ ptrs' = [ptrs EXCEPT ![o] = @ \cup {<<"slots", Level(o)>>}]
     \/ /\ Goto(o, "contexts", "destroy")
        /\ Clear(o, {}, {<<"slots", Level(o)>>})
        /\ UNCHANGED ptrs
  /\ UNCHANGED <<at, requested>>

\* ml_kem_assign_encaps_pool_u16_buffers and ..._u8_buffers.
Buffer(o, part, to) ==
  /\ \/ /\ Goto(o, part, to)
        /\ New(o, <<part, Level(o)>>, "nothing")
        /\ ptrs' = [ptrs EXCEPT ![o] = @ \cup {<<part, Level(o)>>}]
        /\ at' = [at EXCEPT ![o] = IF part = "u8_mem" THEN @ + 1 ELSE @]
     \/ /\ Goto(o, part, "destroy")
        /\ UNCHANGED <<heapVars, ptrs, at>>
  /\ UNCHANGED requested

-----------------------------------------------------------------------------
(* Use and destruction *)

\* An encapsulation in a slot of level l leaves the keys it used.
Encapsulate(o, l) ==
  /\ pc[o] = "ready"
  /\ l \in requested[o]
  /\ Store(o, [b \in {"u16_mem", "u8_mem"} \X {l} |-> "public"])
  /\ UNCHANGED <<pc, at, requested, ptrs>>

Close(o) ==
  /\ Goto(o, "ready", "destroy")
  /\ UNCHANGED <<at, requested, ptrs, heapVars>>

\* What the destructor finds: the contexts behind the registered descriptors,
\* and the two buffers.
Found(o) ==
  {<<"contexts", b[2]>> : b \in {c \in ptrs[o] : c[1] = "slots"}}
    \cup {b \in ptrs[o] : b[1] # "slots"}

\* ml_kem_encaps_pool_destroy wipes what it finds; the descriptors and the
\* pool, which hold pointers and counts, are freed as they are.
Destroy(o) ==
  /\ Goto(o, "destroy", "none")
  /\ Clear(o, Found(o), Found(o) \cup ptrs[o] \cup {Root})
  /\ ptrs' = [ptrs EXCEPT ![o] = {}]
  /\ UNCHANGED <<at, requested>>

Step(o) ==
  \/ \E levels \in SUBSET Range(Levels) : Create(o, levels)
  \/ NextLevel(o) \/ Slots(o) \/ Contexts(o)
  \/ Buffer(o, "u16_mem", "u8_mem") \/ Buffer(o, "u8_mem", "next")
  \/ \E l \in Range(Levels) : Encapsulate(o, l)
  \/ Close(o) \/ Destroy(o)

Next == \E o \in Pools : Step(o)

Spec == Init /\ [][Next]_vars

-----------------------------------------------------------------------------
(* Properties *)

TypeOK ==
  /\ pc \in [Pools -> {"none", "next", "slots", "contexts", "u16_mem", "u8_mem",
                         "ready", "destroy"}]
  /\ at \in [Pools -> 1 .. Len(Levels) + 1]
  /\ requested \in [Pools -> SUBSET Range(Levels)]
  /\ ptrs \in [Pools -> SUBSET Blocks]
  /\ HeapType(Pools, Blocks)

\* Whichever allocation fails, the pool is gone without a trace; a finished
\* pool has all parts of exactly the requested levels.
PoolsComplete ==
  \A o \in Pools :
    /\ pc[o] = "none" => Live(o) = {}
    /\ pc[o] = "ready" => Live(o) = {Root} \cup Parts \X requested[o]
=============================================================================
