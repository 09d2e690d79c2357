---------------------------- MODULE Application ----------------------------
(***************************************************************************)
(* A program that uses the library: key objects (KeyObject) and             *)
(* encapsulation pools (EncapsPoolObject) are constructed, used and         *)
(* destroyed side by side, in any order of their steps, over one heap.      *)
(***************************************************************************)
EXTENDS KeyObject

CONSTANT Pools      \* the encapsulation pools among the objects

ASSUME ApplicationAssumption ==
  KeyObjects \cap Pools = {} /\ KeyObjects \cup Pools = Objects

VARIABLES pool_pc, at, requested, ptrs      \* of EncapsPoolObject

Pool == INSTANCE EncapsPoolObject WITH pc <- pool_pc

keyVars == <<pc, n, how, ok>>
poolVars == <<pool_pc, at, requested, ptrs>>
appVars == <<vars, poolVars>>

AppInit == Init /\ Pool!Init

AppNext ==
  \/ Next /\ UNCHANGED poolVars
  \/ Pool!Next /\ UNCHANGED keyVars

AppSpec == AppInit /\ [][AppNext]_appVars

-----------------------------------------------------------------------------
\* Whichever allocation or entropy request fails, nothing of an object stays
\* allocated; a finished one has all it needs and nothing temporary, and the
\* secrets of a key object are in its keys only.
NothingLeaks ==
  /\ TypeOK /\ KeysComplete
  /\ Pool!TypeOK /\ Pool!PoolsComplete

\* No path frees, wipes or reads a block that is not allocated: none is freed
\* twice by the chain of error labels and the caller, the pointer to the keys is
\* not read out of a freed pool, and the destructor of an encapsulation pool
\* finds no stale pointer in one that was partly built.
NoBadAccess == fault = {}

\* No block is freed while it holds something secret, and the buffers of an
\* encapsulation pool not with anything left in them ("Wipes encapsulation
\* contexts and contiguous u16/u8 working buffers before freeing them",
\* ml_kem.c:541).
NoSecretFreed == \A w \in spilled : w[1] \in KeyObjects /\ w[3] # "secret"
=============================================================================
