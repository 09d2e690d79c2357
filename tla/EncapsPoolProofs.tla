-------------------------- MODULE EncapsPoolProofs --------------------------
(***************************************************************************)
(* Proofs about EncapsPool for every number of callers, levels, slots and  *)
(* keys: each successful call returns a ciphertext and a secret that       *)
(* belong together and to its own key, whoever worked in the context       *)
(* before, and no context is lost, left uncleaned or freed uncleaned.      *)
(***************************************************************************)
EXTENDS EncapsPool, TLAPS

IsContext(e) == DOMAIN e = DOMAIN NewContext(Zero, Zero)

\* Nothing of a call is left in e but public keys.
Clean(e) == e = NewContext(e.public_key_msg, e.public_key)

\* The tables have an entry for every caller, and every place is a context.
MemoryOK ==
  /\ DOMAIN idx = Threads
  /\ DOMAIN ct = Threads
  /\ DOMAIN ss = Threads
  /\ \A p \in DOMAIN ctx : IsContext(ctx[p])

\* The caller works in a slot of a pool.
Holding(t) == Working(t) /\ pooled[t]

\* A slot in use is marked so and has one user.
Exclusive ==
  /\ \A t \in Threads : Holding(t) => is_free[Candidate(t)] = 0
  /\ \A t, u \in Threads :
       Holding(t) /\ Holding(u) /\ Candidate(t) = Candidate(u) => t = u

\* A wipe is pending only in the slot that its caller is about to give back.
WipesOwned ==
  \A t \in Threads : \A p \in unseen[t] :
    pc[t] = "leave" /\ pooled[t] /\ p = Candidate(t)

\* The output buffers of t hold what the key and the message of its call give.
Matches(t) ==
  /\ drawn[t] \in Messages
  /\ ct[t] = EncapsCiphertext(pk[t], drawn[t])
  /\ ss[t] = EncapsSecret(pk[t], drawn[t])

Untouched(t) == ct[t] = Junk /\ ss[t] = Junk

\* How far the call of t, its context and its output buffers have come.
Stage(t) ==
  LET e == ctx[Place(t)] IN
  /\ pc[t] = "out" \/ ~pooled[t] => idx[t] = 0
  /\ pc[t] # "out" => ret[t] = "none"
  /\ pc[t] \in {"scan", "copy"} => pooled[t]
  /\ pc[t] \in {"out", "scan", "copy", "encaps"} => err[t] = "none"
  /\ pc[t] \in {"scan", "copy", "encaps", "output"} => Untouched(t)
  /\ pc[t] \in {"copy", "encaps"} => Clean(e)
  /\ pc[t] = "encaps" => e.public_key_msg = pk[t]
  /\ pc[t] = "output" =>
       /\ err[t] = "ok"
       /\ drawn[t] \in Messages
       /\ e.ciphertext = EncapsCiphertext(pk[t], drawn[t])
       /\ e.K_bar = EncapsSecret(pk[t], drawn[t])
  /\ pc[t] \in {"wipe", "leave"} =>
       \/ err[t] = "ok" /\ Matches(t)
       \/ err[t] = "entropy_failed" /\ Untouched(t)
  /\ pc[t] = "leave" => Place(t) \in unseen[t] \/ Clean(e)

\* The inductive invariant.
IInv ==
  /\ HeapMatchesCalls
  /\ MemoryOK
  /\ Exclusive
  /\ WipesOwned
  /\ \A t \in Threads : Stage(t)
  /\ FreeSlotsWiped
  /\ OutputsMatch
  /\ NoOutputOnError

-----------------------------------------------------------------------------
(* The operations on a context *)

\* The wipe cleans any context and keeps its keys.
LEMMA WipeCleans ==
  ASSUME NEW e
  PROVE  IsContext(WipeEncaps(e)) /\ Clean(WipeEncaps(e))
  BY DEF IsContext, Clean, WipeEncaps, NewContext

LEMMA NewIsClean ==
  ASSUME NEW packed, NEW unpacked
  PROVE  LET e == NewContext(packed, unpacked) IN
         IsContext(e) /\ Clean(e) /\ e.public_key_msg = packed
  BY DEF IsContext, Clean, NewContext

\* Storing the key of the call leaves a clean context clean.
LEMMA KeyedContext ==
  ASSUME NEW e, IsContext(e), Clean(e), NEW k
  PROVE  LET f == [e EXCEPT !.public_key_msg = k] IN
         IsContext(f) /\ Clean(f) /\ f.public_key_msg = k
  <1> DEFINE f == [e EXCEPT !.public_key_msg = k]
  <1>1. f = NewContext(k, e.public_key)
    BY DEF Clean, NewContext
  <1> QED
    BY <1>1 DEF IsContext, Clean, NewContext

\* In a clean context, encapsulation computes the reference ciphertext and
\* secret of the key in it and the message drawn.
LEMMA EncapsulateCorrect ==
  ASSUME NEW e, IsContext(e), Clean(e), NEW m
  PROVE  LET f == EncapsulateFresh(e, m) IN
         /\ IsContext(f)
         /\ f.ciphertext = EncapsCiphertext(e.public_key_msg, m)
         /\ f.K_bar = EncapsSecret(e.public_key_msg, m)
  <1> DEFINE k == e.public_key_msg
             r == Derive(m, Hash(k))
             e0 == UnpackKey(e)
             e1 == [e0 EXCEPT !.seed_m = m, !.K_bar = r, !.seed_rho = Rho(e0.public_key_msg)]
             e2 == CreateY(e1, r)
             e3 == CreateU(e2, r)
             e4 == CreateV(e3, r)
             e5 == CompressCiphertext(e4)
  <1> USE DEF IsContext, NewContext
  <1>0. /\ IsContext(e0) /\ e0.u = Zero /\ e0.v = Zero
        /\ e0.public_key_msg = k /\ e0.public_key = Vector(k)
    BY DEF Clean, UnpackKey
  <1> HIDE DEF k, e0
  <1>1. /\ IsContext(e1) /\ e1.u = Zero /\ e1.v = Zero /\ e1.K_bar = r
        /\ e1.seed_m = m /\ e1.seed_rho = Rho(k) /\ e1.public_key = Vector(k)
    BY <1>0
  <1> HIDE DEF e1
  <1>2. /\ IsContext(e2) /\ e2.u = Zero /\ e2.v = Zero /\ e2.K_bar = r /\ e2.y = r
        /\ e2.seed_m = m /\ e2.seed_rho = Rho(k) /\ e2.public_key = Vector(k)
    BY <1>1 DEF CreateY
  <1> HIDE DEF e2
  <1>3. /\ IsContext(e3) /\ e3.u = <<Rho(k), r, r>> /\ e3.v = Zero /\ e3.K_bar = r
        /\ e3.y = r /\ e3.seed_m = m /\ e3.public_key = Vector(k)
    BY <1>2 DEF CreateU, AddInto
  <1> HIDE DEF e3
  <1>4. /\ IsContext(e4) /\ e4.u = <<Rho(k), r, r>> /\ e4.K_bar = r
        /\ e4.v = <<Vector(k), r, r, m>>
    BY <1>3 DEF CreateV, AddInto
  <1> HIDE DEF e4
  <1>5. /\ IsContext(e5) /\ e5.K_bar = r
        /\ e5.ciphertext = << <<Rho(k), r, r>>, <<Vector(k), r, r, m>> >>
    BY <1>4 DEF CompressCiphertext
  <1>6. EncapsulateFresh(e, m) = e5
    BY DEF EncapsulateFresh, Encrypt, e0, e1, e2, e3, e4, k
  <1> QED
    BY <1>5, <1>6 DEF EncapsCiphertext, EncapsSecret, Ciphertext, k

-----------------------------------------------------------------------------
(* Places *)

LEMMA SlotShape ==
  /\ \A l \in Levels : \A i \in 0 .. PoolCount[l] - 1 : <<l, i>> \in Slots
  /\ \A l, i : <<l, i>> \in Slots => l \in Levels /\ i \in 0 .. PoolCount[l] - 1
  /\ \A t : <<Heap, t>> \notin Slots
  BY EncapsPoolAssumption DEF Slots

\* A slot index that passes the loop's bound check is one of the level's slots.
LEMMA ScanIndex ==
  ASSUME TypeOK, NEW t \in Threads
  PROVE  /\ LevelOf[pk[t]] \in Levels
         /\ PoolCount[LevelOf[pk[t]]] \in Nat
         /\ idx[t] \in 0 .. PoolCount[LevelOf[pk[t]]]
         /\ Candidate(t) \in Slots => idx[t] + 1 \in 0 .. PoolCount[LevelOf[pk[t]]]
         /\ Candidate(t) \notin Slots => idx[t] = PoolCount[LevelOf[pk[t]]]
  <1>1. LevelOf[pk[t]] \in Levels /\ PoolCount[LevelOf[pk[t]]] \in Nat
    BY EncapsPoolAssumption DEF TypeOK
  <1>2. idx[t] \in 0 .. PoolCount[LevelOf[pk[t]]]
    BY DEF TypeOK
  <1>3. Candidate(t) \in Slots <=> idx[t] \in 0 .. PoolCount[LevelOf[pk[t]]] - 1
    BY <1>1, SlotShape DEF Candidate
  <1> QED
    BY <1>1, <1>2, <1>3

\* A caller works in a slot or in the context of its own call.
LEMMA WorkingPlace ==
  ASSUME TypeOK, NEW t \in Threads, Working(t)
  PROVE  /\ Place(t) \in DOMAIN ctx
         /\ pooled[t] => Place(t) = Candidate(t) /\ Candidate(t) \in Slots
         /\ ~pooled[t] => Place(t) = <<Heap, t>> /\ Place(t) \notin Slots
  <1>1. Place(t) \in DOMAIN ctx
    BY DEF TypeOK
  <1>2. LevelOf[pk[t]] # Heap
    BY ScanIndex, EncapsPoolAssumption
  <1>3. ASSUME pooled[t] PROVE Place(t) = Candidate(t) /\ Candidate(t) \in Slots
    BY <1>1, <1>2, <1>3 DEF TypeOK, Place, Candidate
  <1>4. ASSUME ~pooled[t] PROVE Place(t) = <<Heap, t>> /\ Place(t) \notin Slots
    BY <1>4, SlotShape DEF Place
  <1> QED
    BY <1>1, <1>3, <1>4

\* No two callers work in the same context.
LEMMA PlacesDiffer ==
  ASSUME TypeOK, Exclusive, NEW t \in Threads, NEW u \in Threads,
         Working(t), Working(u), Place(t) = Place(u)
  PROVE  t = u
  <1>1. CASE pooled[t] /\ pooled[u]
    BY <1>1, WorkingPlace DEF Exclusive, Holding
  <1>2. CASE ~pooled[t] /\ ~pooled[u]
    BY <1>2, WorkingPlace
  <1>3. CASE pooled[t] # pooled[u]
    BY <1>3, WorkingPlace DEF TypeOK
  <1> QED
    BY <1>1, <1>2, <1>3 DEF TypeOK

-----------------------------------------------------------------------------
(* What a step leaves alone *)

\* The step does not touch what belongs to caller u.
Frame(u) ==
  /\ pc'[u] = pc[u] /\ idx'[u] = idx[u]
  /\ pooled'[u] = pooled[u] /\ pk'[u] = pk[u]
  /\ drawn'[u] = drawn[u] /\ err'[u] = err[u] /\ ret'[u] = ret[u]
  /\ ct'[u] = ct[u] /\ ss'[u] = ss[u] /\ unseen'[u] = unseen[u]

LEMMA FrameStage ==
  ASSUME NEW u \in Threads, Stage(u), Frame(u),
         Working(u) => ctx'[Place(u)] = ctx[Place(u)]
  PROVE  Stage(u)'
  <1>1. Place(u)' = Place(u)
    BY DEF Frame, Place, Candidate
  <1>2. /\ Matches(u)' = Matches(u)
        /\ Untouched(u)' = Untouched(u)
    BY DEF Frame, Matches, Untouched
  <1>3. Working(u) => Clean(ctx[Place(u)])' = Clean(ctx[Place(u)])
    BY <1>1 DEF Clean
  <1> QED
    BY <1>1, <1>2, <1>3 DEF Stage, Frame, Working

\* What every step of caller t leaves alone: the other callers, the memory
\* they work in, and the flags of their slots.
Apart(t) ==
  /\ \A u \in Threads \ {t} : Frame(u)
  /\ \A p \in DOMAIN ctx : p # Place(t) => p \in DOMAIN ctx' /\ ctx'[p] = ctx[p]

LEMMA OthersStage ==
  ASSUME IInv, NEW t \in Threads, Apart(t), NEW u \in Threads \ {t},
         Working(t) \/ (\A p \in DOMAIN ctx : ctx'[p] = ctx[p])
  PROVE  Stage(u)'
  <1>1. Stage(u) /\ Frame(u)
    BY DEF IInv, Apart
  <1>2. ASSUME Working(u) PROVE ctx'[Place(u)] = ctx[Place(u)]
    <2>1. Place(u) \in DOMAIN ctx
      BY <1>2, WorkingPlace DEF IInv, HeapMatchesCalls
    <2>2. CASE Working(t)
      <3>1. Place(u) # Place(t)
        BY <1>2, <2>2, PlacesDiffer DEF IInv, HeapMatchesCalls
      <3> QED
        BY <2>1, <3>1 DEF Apart
    <2> QED
      BY <2>1, <2>2
  <1> QED
    BY <1>1, <1>2, FrameStage

\* A step inside the call of t that touches no flag, no argument and no
\* return value keeps the invariant if it keeps what concerns t.
LEMMA WorkStep ==
  ASSUME IInv, NEW t \in Threads, Working(t), Apart(t),
         UNCHANGED <<is_free, idx, argVars, ret>>,
         pc'[t] \notin {"out", "scan"},
         TypeOK', DOMAIN ctx' = DOMAIN ctx, DOMAIN ct' = Threads, DOMAIN ss' = Threads,
         IsContext(ctx'[Place(t)]), Stage(t)',
         \A p \in unseen'[t] : pc'[t] = "leave" /\ pooled[t] /\ p = Candidate(t)
  PROVE  IInv'
  <1> USE DEF IInv
  <1>0. /\ TypeOK
        /\ \A u \in Threads : Working(u)' = Working(u)
        /\ \A u \in Threads : Place(u)' = Place(u) /\ Candidate(u)' = Candidate(u)
        /\ \A u \in Threads : Holding(u)' = Holding(u)
    <2>1. \A u \in Threads : Working(u)' = Working(u)
      BY DEF Apart, Frame, Working
    <2> QED
      BY <2>1 DEF HeapMatchesCalls, Place, Candidate, Holding, argVars
  <1>1. HeapMatchesCalls'
    BY <1>0 DEF HeapMatchesCalls, argVars
  <1>2. MemoryOK'
    BY DEF MemoryOK, Apart
  <1>3. Exclusive'
    BY <1>0 DEF Exclusive
  <1>4. WipesOwned'
    <2>1. ASSUME NEW u \in Threads \ {t} PROVE unseen'[u] = unseen[u] /\ pc'[u] = pc[u]
      BY DEF Apart, Frame
    <2> QED
      BY <1>0, <2>1 DEF WipesOwned, argVars
  <1>5. \A u \in Threads : Stage(u)'
    BY OthersStage
  <1>6. FreeSlotsWiped'
    <2>1. ASSUME NEW p \in Slots, is_free[p] = 1 PROVE p # Place(t) /\ p \in DOMAIN ctx
      BY <1>0, <2>1, WorkingPlace DEF Exclusive, Holding, TypeOK
    <2> QED
      BY <2>1 DEF FreeSlotsWiped, Apart
  <1>7. ASSUME NEW u \in Threads, pc'[u] = "out" \/ ret'[u] = "ok"
        PROVE  u # t /\ Frame(u)
    <2>1. ret[t] = "none"
      BY DEF Stage, Working
    <2> QED
      BY <1>7, <2>1 DEF Apart
  <1>8. OutputsMatch'
    BY <1>7 DEF OutputsMatch, Frame
  <1>9. NoOutputOnError'
    BY <1>7 DEF NoOutputOnError, Frame
  <1> QED
    BY <1>1, <1>2, <1>3, <1>4, <1>5, <1>6, <1>8, <1>9

-----------------------------------------------------------------------------
(* The steps that work in a context *)

LEMMA CopyKeyInv ==
  ASSUME IInv, NEW t \in Threads, CopyKey(t)
  PROVE  IInv'
  <1> USE DEF IInv, HeapMatchesCalls, CopyKey, Goto, argVars, outVars
  <1> DEFINE p == Place(t)
             f == [ctx[p] EXCEPT !.public_key_msg = pk[t]]
  <1>0. /\ Working(t) /\ p \in DOMAIN ctx /\ IsContext(ctx[p]) /\ Clean(ctx[p])
        /\ pc[t] = "copy" /\ ctx' = [ctx EXCEPT ![p] = f] /\ p' = p
    BY WorkingPlace DEF Working, MemoryOK, Stage, Place, Candidate
  <1>a. IsContext(f) /\ Clean(f) /\ f.public_key_msg = pk[t]
    BY <1>0, KeyedContext
  <1> HIDE DEF f
  <1>1. DOMAIN ctx' = DOMAIN ctx /\ ctx'[p] = f
    BY <1>0
  <1>2. TypeOK'
    BY <1>0, <1>1 DEF TypeOK, Working, Place, Candidate
  <1>3. Apart(t)
    BY <1>0 DEF TypeOK, Apart, Frame
  <1>4. Stage(t)'
    BY <1>0, <1>a, <1>1 DEF TypeOK, Stage, Untouched
  <1>5. unseen'[t] = {}
    BY <1>0 DEF WipesOwned
  <1> HIDE DEF p
  <1> QED
    BY <1>0, <1>a, <1>1, <1>2, <1>3, <1>4, <1>5, WorkStep DEF TypeOK, MemoryOK, p

LEMMA EncapsulateInv ==
  ASSUME IInv, NEW t \in Threads, NEW m \in Messages, EncapsulateStep(t, m)
  PROVE  IInv'
  <1> USE DEF IInv, HeapMatchesCalls, EncapsulateStep, Goto, argVars, outVars
  <1> DEFINE p == Place(t)
             f == EncapsulateFresh(ctx[p], m)
  <1>0. /\ Working(t) /\ p \in DOMAIN ctx /\ IsContext(ctx[p]) /\ Clean(ctx[p])
        /\ ctx[p].public_key_msg = pk[t]
        /\ pc[t] = "encaps" /\ ctx' = [ctx EXCEPT ![p] = f] /\ p' = p
    BY WorkingPlace DEF Working, MemoryOK, Stage, Place, Candidate
  <1>a. /\ IsContext(f)
        /\ f.ciphertext = EncapsCiphertext(pk[t], m)
        /\ f.K_bar = EncapsSecret(pk[t], m)
    BY <1>0, EncapsulateCorrect
  <1> HIDE DEF f
  <1>1. DOMAIN ctx' = DOMAIN ctx /\ ctx'[p] = f
    BY <1>0
  <1>2. TypeOK'
    BY <1>0, <1>1 DEF TypeOK, Working, Place, Candidate
  <1>3. Apart(t)
    BY <1>0 DEF TypeOK, Apart, Frame
  <1>4. Stage(t)'
    BY <1>0, <1>a, <1>1 DEF TypeOK, Stage, Untouched
  <1>5. unseen'[t] = {}
    BY <1>0 DEF WipesOwned
  <1> HIDE DEF p
  <1> QED
    BY <1>0, <1>a, <1>1, <1>2, <1>3, <1>4, <1>5, WorkStep DEF TypeOK, MemoryOK, p

\* The failure of the entropy source goes to the cleanup with clean buffers.
LEMMA EntropyFailsInv ==
  ASSUME IInv, NEW t \in Threads, EntropyFails(t)
  PROVE  IInv'
  <1> USE DEF IInv, HeapMatchesCalls, EntropyFails, Goto, memVars, argVars, outVars
  <1>0. /\ Working(t) /\ Place(t) \in DOMAIN ctx /\ IsContext(ctx[Place(t)])
        /\ pc[t] = "encaps" /\ Place(t)' = Place(t)
    BY WorkingPlace DEF Working, MemoryOK, Place, Candidate
  <1>1. TypeOK'
    BY <1>0 DEF TypeOK, Working, Place, Candidate
  <1>2. Apart(t)
    BY DEF TypeOK, Apart, Frame
  <1>3. Stage(t)'
    BY <1>0 DEF TypeOK, Stage, Untouched
  <1>4. unseen'[t] = {}
    BY <1>0 DEF WipesOwned
  <1> QED
    BY <1>0, <1>1, <1>2, <1>3, <1>4, WorkStep DEF TypeOK, MemoryOK

LEMMA OutputInv ==
  ASSUME IInv, NEW t \in Threads, Output(t)
  PROVE  IInv'
  <1> USE DEF IInv, HeapMatchesCalls, Output, Goto, memVars, argVars
  <1>0. /\ Working(t) /\ Place(t) \in DOMAIN ctx /\ IsContext(ctx[Place(t)])
        /\ pc[t] = "output" /\ Place(t)' = Place(t)
    BY WorkingPlace DEF Working, MemoryOK, Place, Candidate
  <1>1. TypeOK'
    BY <1>0 DEF TypeOK, Working, Place, Candidate
  <1>2. Apart(t)
    BY DEF TypeOK, Apart, Frame
  <1>3. Stage(t)'
    <2>1. err'[t] = "ok" /\ Matches(t)' /\ ret'[t] = "none" /\ pc'[t] = "wipe"
      BY <1>0 DEF TypeOK, MemoryOK, Stage, Matches
    <2> QED
      BY <2>1 DEF Stage
  <1>4. unseen'[t] = {}
    BY <1>0 DEF WipesOwned
  <1> QED
    BY <1>0, <1>1, <1>2, <1>3, <1>4, WorkStep DEF TypeOK, MemoryOK

LEMMA WipeInv ==
  ASSUME IInv, NEW t \in Threads, Wipe(t)
  PROVE  IInv'
  <1> USE DEF IInv, HeapMatchesCalls, Wipe, Goto, argVars, outVars
  <1> DEFINE p == Place(t)
  <1>0. /\ Working(t) /\ p \in DOMAIN ctx /\ IsContext(ctx[p])
        /\ pc[t] = "wipe" /\ p' = p
        /\ pooled[t] => p = Candidate(t) /\ p \in Slots
    BY WorkingPlace DEF Working, MemoryOK, Place, Candidate
  <1>1. /\ DOMAIN ctx' = DOMAIN ctx /\ IsContext(ctx'[p])
        /\ \A q \in DOMAIN ctx : q # p => ctx'[q] = ctx[q]
        /\ p \in unseen'[t] \/ Clean(ctx'[p])
        /\ \A q \in unseen'[t] : pooled[t] /\ q = Candidate(t)
    BY <1>0, WipeCleans DEF TypeOK, WipesOwned
  <1>2. unseen' \in [Threads -> SUBSET Slots]
    BY <1>0 DEF TypeOK
  <1>3. TypeOK'
    BY <1>0, <1>1, <1>2 DEF TypeOK, Working, Place, Candidate
  <1>4. Apart(t)
    BY <1>0, <1>1 DEF TypeOK, Apart, Frame
  <1>5. Stage(t)'
    BY <1>0, <1>1 DEF TypeOK, Stage, Untouched, Matches
  <1> HIDE DEF p
  <1> QED
    BY <1>0, <1>1, <1>3, <1>4, <1>5, WorkStep DEF TypeOK, MemoryOK, p

\* A pending wipe lands in the slot its caller still holds.
LEMMA DrainInv ==
  ASSUME IInv, NEW t \in Threads, NEW p \in Slots, Drain(t, p)
  PROVE  IInv'
  <1> USE DEF IInv, HeapMatchesCalls, Drain, argVars, outVars
  <1> DEFINE f == WipeEncaps(ctx[p])
  <1>0. /\ Working(t) /\ p = Place(t) /\ p \in DOMAIN ctx /\ pc[t] = "leave"
        /\ Place(t)' = Place(t)
        /\ ctx' = [ctx EXCEPT ![p] = f] /\ IsContext(f) /\ Clean(f)
    <2>1. pc[t] = "leave" /\ pooled[t] /\ p = Candidate(t)
      BY DEF WipesOwned
    <2>2. Working(t) /\ p = Place(t) /\ p \in DOMAIN ctx
      BY <2>1, WorkingPlace DEF Working
    <2>3. IsContext(f) /\ Clean(f)
      BY WipeCleans
    <2> QED
      BY <2>1, <2>2, <2>3 DEF Place, Candidate
  <1> HIDE DEF f
  <1>1. /\ DOMAIN ctx' = DOMAIN ctx /\ ctx'[p] = f
        /\ \A q \in unseen'[t] : q \in unseen[t]
    BY <1>0 DEF TypeOK
  <1>2. TypeOK'
    BY <1>0, <1>1 DEF TypeOK, Working, Place, Candidate
  <1>3. Apart(t)
    BY <1>0, <1>1 DEF TypeOK, Apart, Frame
  <1>4. Stage(t)'
    BY <1>0, <1>1 DEF TypeOK, Stage, Untouched, Matches
  <1> QED
    BY <1>0, <1>1, <1>2, <1>3, <1>4, WorkStep DEF TypeOK, MemoryOK, WipesOwned

-----------------------------------------------------------------------------
(* The steps that begin and end a call *)

\* The start of a call and its refusal: the outputs are the caller's own, and
\* of the places only the context of the call itself may be new.
LEMMA EnterStep ==
  ASSUME IInv, NEW t \in Threads, NEW r \in Errors, NEW to, Enter(t, r, to), Apart(t),
         \/ to = "out"
         \/ to = "scan" /\ r = "none" /\ pooled'[t]
         \/ /\ to = "encaps" /\ r = "none" /\ ~pooled'[t]
            /\ Clean(ctx'[<<Heap, t>>]) /\ ctx'[<<Heap, t>>].public_key_msg = pk'[t],
         \A p \in DOMAIN ctx : ctx'[p] = ctx[p],
         \A p \in DOMAIN ctx' : IsContext(ctx'[p]),
         DOMAIN ctx' = DOMAIN ctx \cup (IF to = "encaps" THEN {<<Heap, t>>} ELSE {}),
         pooled' \in [Threads -> BOOLEAN], pk' \in [Threads -> Keys]
  PROVE  IInv'
  <1> USE DEF IInv, HeapMatchesCalls, Enter, Goto
  <1>0. /\ pc[t] = "out" /\ ~Working(t) /\ idx[t] = 0 /\ unseen[t] = {}
        /\ <<Heap, t>> \notin DOMAIN ctx
        /\ pc' = [pc EXCEPT ![t] = to] /\ idx' = idx
        /\ Working(t)' <=> to = "encaps"
    BY DEF Working, Stage, WipesOwned, TypeOK
  <1>1. ASSUME NEW u \in Threads \ {t}
        PROVE  /\ Frame(u) /\ Working(u)' = Working(u) /\ Holding(u)' = Holding(u)
               /\ Place(u)' = Place(u) /\ Candidate(u)' = Candidate(u)
    BY DEF Apart, Frame, Working, Holding, Place, Candidate
  <1>2. TypeOK'
    <2>1. \A k \in Keys : 0 \in 0 .. PoolCount[LevelOf[k]]
      BY EncapsPoolAssumption
    <2>2. ASSUME NEW u \in Threads PROVE idx'[u] \in 0 .. PoolCount[LevelOf[pk'[u]]]
      BY <1>0, <1>1, <2>1 DEF TypeOK, Frame
    <2>3. ASSUME NEW u \in Threads, Working(u)' PROVE Place(u)' \in DOMAIN ctx'
      <3>1. CASE u = t
        BY <1>0, <2>3, <3>1 DEF Place
      <3>2. CASE u # t
        BY <1>1, <2>3, <3>2 DEF TypeOK
      <3> QED
        BY <3>1, <3>2
    <2>4. Slots \subseteq DOMAIN ctx' /\ DOMAIN ctx' \subseteq Slots \cup ({Heap} \X Threads)
      BY DEF TypeOK
    <2>5. /\ pc' \in [Threads -> {"out", "scan", "copy", "encaps", "output", "wipe", "leave"}]
          /\ ret' \in [Threads -> Errors \cup {"ok"}]
      BY DEF TypeOK
    <2> QED
      BY <2>2, <2>3, <2>4, <2>5 DEF TypeOK
  <1>3. HeapMatchesCalls'
    <2>1. ASSUME NEW u \in Threads
          PROVE  <<Heap, u>> \in DOMAIN ctx' <=> Working(u)' /\ ~pooled'[u]
      <3>1. CASE u = t
        BY <1>0, <3>1
      <3>2. CASE u # t
        BY <1>1, <3>2 DEF Frame
      <3> QED
        BY <3>1, <3>2
    <2> QED
      BY <1>2, <2>1
  <1>4. MemoryOK'
    BY DEF MemoryOK
  <1>5. Exclusive'
    <2>1. ~Holding(t)'
      BY <1>0 DEF Holding
    <2> QED
      BY <1>1, <2>1 DEF Exclusive
  <1>6. WipesOwned'
    BY <1>0, <1>1 DEF WipesOwned, Frame
  <1>7. ASSUME NEW u \in Threads PROVE Stage(u)'
    <2>1. CASE u = t
      <3>1. Untouched(t)' /\ ret'[t] = r /\ err'[t] = "none" /\ pc'[t] = to /\ idx'[t] = 0
        BY <1>0 DEF Untouched, MemoryOK, Stage, TypeOK
      <3>2. to = "encaps" => Place(t)' = <<Heap, t>>
        BY DEF Place
      <3> QED
        BY <2>1, <3>1, <3>2 DEF Stage
    <2>2. CASE u # t
      BY <2>2, OthersStage
    <2> QED
      BY <2>1, <2>2
  <1>8. FreeSlotsWiped'
    BY DEF FreeSlotsWiped, TypeOK
  <1>9. ret'[t] # "ok" /\ Untouched(t)'
    BY DEF Errors, Untouched, MemoryOK, TypeOK
  <1>10. OutputsMatch'
    BY <1>1, <1>9 DEF OutputsMatch, Frame
  <1>11. NoOutputOnError'
    BY <1>1, <1>9 DEF NoOutputOnError, Frame, Untouched
  <1> QED
    BY <1>3, <1>4, <1>5, <1>6, <1>7, <1>8, <1>10, <1>11

LEMMA InvalidInv ==
  ASSUME IInv, NEW t \in Threads, Invalid(t)
  PROVE  IInv'
  <1>1. Enter(t, "einval", "out") /\ UNCHANGED <<ctx, argVars>> /\ Apart(t)
    BY DEF Invalid, Enter, Goto, Apart, Frame, IInv, HeapMatchesCalls, TypeOK,
           MemoryOK, argVars
  <1>2. /\ DOMAIN ctx' = DOMAIN ctx \cup {}
        /\ \A p \in DOMAIN ctx' : IsContext(ctx'[p])
        /\ pooled' \in [Threads -> BOOLEAN] /\ pk' \in [Threads -> Keys]
    BY <1>1 DEF IInv, HeapMatchesCalls, TypeOK, MemoryOK, argVars
  <1> QED
    BY <1>1, <1>2, EnterStep DEF Errors

LEMMA CallPoolInv ==
  ASSUME IInv, NEW t \in Threads, NEW k \in Keys, CallPool(t, k)
  PROVE  IInv'
  <1>1. /\ ctx' = ctx /\ Apart(t) /\ pooled'[t]
        /\ Enter(t, "none", "scan") \/ Enter(t, "einval", "out")
    BY DEF CallPool, Enter, Goto, Apart, Frame, IInv, HeapMatchesCalls, TypeOK, MemoryOK
  <1>2. /\ DOMAIN ctx' = DOMAIN ctx \cup {}
        /\ \A p \in DOMAIN ctx' : IsContext(ctx'[p])
        /\ pooled' \in [Threads -> BOOLEAN] /\ pk' \in [Threads -> Keys]
    BY <1>1 DEF CallPool, IInv, HeapMatchesCalls, TypeOK, MemoryOK
  <1> QED
    BY <1>1, <1>2, EnterStep DEF Errors

LEMMA CallAloneInv ==
  ASSUME IInv, NEW t \in Threads, NEW k \in Keys, CallAlone(t, k)
  PROVE  IInv'
  <1> USE DEF IInv, HeapMatchesCalls
  <1> DEFINE p == <<Heap, t>>
             e == NewContext(k, Zero)
  <1>0. /\ pooled' = [pooled EXCEPT ![t] = FALSE] /\ pk' = [pk EXCEPT ![t] = k]
        /\ pooled' \in [Threads -> BOOLEAN] /\ pk' \in [Threads -> Keys]
        /\ ~pooled'[t] /\ pk'[t] = k
    BY DEF CallAlone, TypeOK
  <1>1. CASE Enter(t, "enomem", "out") /\ ctx' = ctx
    <2>1. Apart(t)
      BY <1>0, <1>1 DEF Enter, Goto, Apart, Frame, TypeOK, MemoryOK
    <2>2. /\ DOMAIN ctx' = DOMAIN ctx \cup {}
          /\ \A q \in DOMAIN ctx' : IsContext(ctx'[q])
      BY <1>1 DEF MemoryOK
    <2> QED
      BY <1>0, <1>1, <2>1, <2>2, EnterStep DEF Errors
  <1>2. CASE Enter(t, "none", "encaps") /\ ctx' = Allocate(p, e)
    <2>1. p \notin DOMAIN ctx
      BY <1>2 DEF Enter, Goto, Working
    <2>2. /\ DOMAIN ctx' = DOMAIN ctx \cup {p} /\ ctx'[p] = e
          /\ \A q \in DOMAIN ctx : ctx'[q] = ctx[q]
      BY <1>2, <2>1 DEF Allocate
    <2>3. IsContext(e) /\ Clean(e) /\ e.public_key_msg = k
      BY NewIsClean
    <2> HIDE DEF e
    <2>4. Apart(t)
      <3>1. \A u \in Threads \ {t} : Frame(u)
        BY <1>0, <1>2 DEF Enter, Goto, Frame, TypeOK, MemoryOK
      <3> QED
        BY <2>2, <3>1 DEF Apart
    <2>5. \A q \in DOMAIN ctx' : IsContext(ctx'[q])
      BY <2>2, <2>3 DEF MemoryOK
    <2> QED
      BY <1>0, <1>2, <2>2, <2>3, <2>4, <2>5, EnterStep DEF Errors
  <1> QED
    BY <1>1, <1>2 DEF CallAlone

\* A slot is won clean, and nobody else works in it.
LEMMA AcquireInv ==
  ASSUME IInv, NEW t \in Threads, TryAcquire(t)
  PROVE  IInv'
  <1> USE DEF IInv, HeapMatchesCalls, TryAcquire, Goto, argVars, outVars
  <1> DEFINE p == Candidate(t)
  <1>0. /\ p \in Slots /\ pc[t] = "scan" /\ pooled[t] /\ Place(t) = p
        /\ p \in DOMAIN ctx /\ ~Working(t) /\ unseen[t] = {}
        /\ Place(t)' = Candidate(t)'
    BY DEF Stage, Place, Working, TypeOK, WipesOwned
  <1>1. Apart(t)
    <2>1. ASSUME NEW u \in Threads \ {t} PROVE pc'[u] = pc[u] /\ idx'[u] = idx[u]
      BY DEF TypeOK, MemoryOK
    <2> QED
      BY <2>1 DEF Apart, Frame
  <1>2. ASSUME NEW u \in Threads \ {t}
        PROVE  /\ Frame(u) /\ Working(u)' = Working(u) /\ Holding(u)' = Holding(u)
               /\ Place(u)' = Place(u) /\ Candidate(u)' = Candidate(u)
    BY <1>1 DEF Apart, Frame, Working, Holding, Place, Candidate
  <1>3. ASSUME NEW u \in Threads \ {t} PROVE Stage(u)'
    BY <1>1, OthersStage
  <1>4. MemoryOK' /\ OutputsMatch' /\ NoOutputOnError'
    <2>1. pc'[t] # "out" /\ ret'[t] = "none"
      BY <1>0 DEF Stage, TypeOK
    <2> QED
      BY <1>2, <2>1 DEF MemoryOK, OutputsMatch, Matches, NoOutputOnError, Frame
  <1>5. CASE is_free[p] = 1
    <2>1. /\ pc' = [pc EXCEPT ![t] = "copy"] /\ is_free' = [is_free EXCEPT ![p] = 0]
          /\ idx' = idx /\ Candidate(t)' = p /\ Place(t)' = p
          /\ Working(t)' /\ Holding(t)'
      BY <1>0, <1>5 DEF Candidate, Working, Holding, TypeOK
    <2>2. TypeOK'
      BY <1>0, <1>2, <2>1 DEF TypeOK
    <2>3. HeapMatchesCalls'
      BY <1>0, <1>2, <2>1, <2>2 DEF TypeOK
    <2>4. \A u \in Threads \ {t} : Holding(u) => Candidate(u) # p
      BY <1>5 DEF Exclusive
    <2>5. Exclusive'
      BY <1>0, <1>2, <2>1, <2>4 DEF Exclusive, TypeOK
    <2>6. WipesOwned'
      BY <1>0, <1>2 DEF WipesOwned, Frame
    <2>7. Stage(t)'
      BY <1>0, <1>5, <2>1 DEF Stage, Untouched, Clean, FreeSlotsWiped, TypeOK
    <2>8. FreeSlotsWiped'
      BY <2>1 DEF FreeSlotsWiped, TypeOK
    <2> QED
      BY <1>3, <1>4, <2>3, <2>5, <2>6, <2>7, <2>8
  <1>6. CASE is_free[p] # 1
    <2>1. /\ pc' = pc /\ is_free' = is_free /\ idx' = [idx EXCEPT ![t] = @ + 1]
          /\ ~Working(t)' /\ ~Holding(t)'
      BY <1>0, <1>6 DEF Working, Holding
    <2>2. ASSUME NEW u \in Threads PROVE idx'[u] \in 0 .. PoolCount[LevelOf[pk'[u]]]
      BY <1>0, <2>1, ScanIndex DEF TypeOK, MemoryOK
    <2>3. TypeOK'
      BY <1>2, <2>1, <2>2 DEF TypeOK
    <2>4. HeapMatchesCalls'
      BY <1>0, <1>2, <2>1, <2>3
    <2>5. Exclusive'
      BY <1>2, <2>1 DEF Exclusive
    <2>6. WipesOwned'
      BY <1>0, <1>2 DEF WipesOwned, Frame
    <2>7. Stage(t)'
      BY <1>0, <2>1 DEF Stage, Untouched
    <2>8. FreeSlotsWiped'
      BY <2>1 DEF FreeSlotsWiped
    <2> QED
      BY <1>3, <1>4, <2>4, <2>5, <2>6, <2>7, <2>8
  <1> QED
    BY <1>5, <1>6

\* The end of a call: t is out, everything else of it was settled before.
LEMMA LeaveStep ==
  ASSUME IInv, NEW t \in Threads, NEW r \in Errors \cup {"ok"}, Apart(t),
         pc[t] # "out", pc' = [pc EXCEPT ![t] = "out"], idx' = [idx EXCEPT ![t] = 0],
         ret' = [ret EXCEPT ![t] = r],
         \/ r \in Errors /\ Untouched(t)
         \/ r = "ok" /\ Matches(t),
         err' \in [Threads -> {"none", "ok", "entropy_failed"}], err'[t] = "none",
         UNCHANGED <<unseen, argVars, drawn, ct, ss>>, unseen[t] = {},
         is_free' \in [Slots -> {0, 1}],
         \A p \in Slots : is_free'[p] # is_free[p] =>
           Holding(t) /\ p = Candidate(t) /\ Clean(ctx[p]),
         DOMAIN ctx' = DOMAIN ctx \ {<<Heap, t>>},
         \A p \in DOMAIN ctx' : ctx'[p] = ctx[p]
  PROVE  IInv'
  <1> USE DEF IInv, HeapMatchesCalls, argVars
  <1>0. ~Working(t)' /\ ~Holding(t)'
    BY DEF TypeOK, Working, Holding
  <1>1. ASSUME NEW u \in Threads \ {t}
        PROVE  /\ Frame(u) /\ Working(u)' = Working(u) /\ Holding(u)' = Holding(u)
               /\ Place(u)' = Place(u) /\ Candidate(u)' = Candidate(u)
    BY DEF Apart, Frame, Working, Holding, Place, Candidate
  <1>2. Slots \subseteq DOMAIN ctx'
    BY SlotShape DEF TypeOK
  <1>3. TypeOK'
    <2>1. \A u \in Threads : idx'[u] \in 0 .. PoolCount[LevelOf[pk[u]]]
      BY <1>1, ScanIndex DEF TypeOK
    <2>2. ASSUME NEW u \in Threads, Working(u)' PROVE Place(u)' \in DOMAIN ctx'
      <3>1. u # t /\ Working(u)
        BY <1>0, <1>1, <2>2
      <3>2. Place(u) \in DOMAIN ctx /\ Place(u) # <<Heap, t>>
        BY <3>1, WorkingPlace, SlotShape
      <3> QED
        BY <1>1, <3>1, <3>2
    <2> QED
      BY <1>2, <2>1, <2>2 DEF TypeOK
  <1>4. HeapMatchesCalls'
    <2>1. ASSUME NEW u \in Threads
          PROVE  <<Heap, u>> \in DOMAIN ctx' <=> Working(u)' /\ ~pooled'[u]
      BY <1>0, <1>1
    <2> QED
      BY <1>3, <2>1
  <1>5. MemoryOK'
    BY DEF MemoryOK
  <1>6. Exclusive'
    <2>1. ASSUME NEW u \in Threads, Holding(u)' PROVE is_free'[Candidate(u)'] = 0
      <3>1. u # t /\ Holding(u) /\ Candidate(u)' = Candidate(u) /\ is_free[Candidate(u)] = 0
        BY <1>0, <1>1, <2>1 DEF Exclusive
      <3>2. Candidate(u) \in Slots
        BY <3>1, WorkingPlace DEF Holding
      <3>3. Holding(t) => Candidate(u) # Candidate(t)
        BY <3>1 DEF Exclusive
      <3> QED
        BY <3>1, <3>2, <3>3
    <2> QED
      BY <1>0, <1>1, <2>1 DEF Exclusive
  <1>7. WipesOwned'
    BY <1>1 DEF WipesOwned, Frame
  <1>8. ASSUME NEW u \in Threads PROVE Stage(u)'
    <2>1. CASE u = t
      BY <2>1 DEF Stage, TypeOK, MemoryOK
    <2>2. CASE u # t
      <3>1. Stage(u) /\ Frame(u)
        BY <1>1, <2>2
      <3>2. ASSUME Working(u) PROVE ctx'[Place(u)] = ctx[Place(u)]
        BY <1>1, <1>3, <2>2, <3>2 DEF TypeOK
      <3> QED
        BY <3>1, <3>2, FrameStage
    <2> QED
      BY <2>1, <2>2
  <1>9. FreeSlotsWiped'
    BY <1>2 DEF FreeSlotsWiped, Clean
  <1>10. /\ pc'[t] = "out" /\ ret'[t] = r /\ "ok" \notin Errors
         /\ Untouched(t)' = Untouched(t) /\ Matches(t)' = Matches(t)
    BY DEF TypeOK, Untouched, Matches, Errors
  <1>11. OutputsMatch'
    BY <1>1, <1>10 DEF OutputsMatch, Matches, Frame
  <1>12. NoOutputOnError'
    BY <1>1, <1>10 DEF NoOutputOnError, Untouched, Frame
  <1> QED
    BY <1>4, <1>5, <1>6, <1>7, <1>8, <1>9, <1>11, <1>12

LEMMA BusyInv ==
  ASSUME IInv, NEW t \in Threads, Busy(t)
  PROVE  IInv'
  <1> USE DEF IInv, HeapMatchesCalls, Busy, Goto, memVars, argVars
  <1>0. /\ pc[t] = "scan" /\ ~Working(t) /\ err[t] = "none" /\ Untouched(t)
        /\ unseen[t] = {}
    BY DEF Working, Stage, WipesOwned, TypeOK
  <1>1. <<Heap, t>> \notin DOMAIN ctx
    BY <1>0
  <1>2. Apart(t)
    BY DEF TypeOK, MemoryOK, Apart, Frame
  <1>3. /\ "ebusy" \in Errors /\ DOMAIN ctx' = DOMAIN ctx \ {<<Heap, t>>}
        /\ err' \in [Threads -> {"none", "ok", "entropy_failed"}] /\ err'[t] = "none"
        /\ is_free' \in [Slots -> {0, 1}]
    BY <1>0, <1>1 DEF Errors, TypeOK
  <1> QED
    BY <1>0, <1>2, <1>3, LeaveStep

\* What the two ends of a call that worked in a context have in common.
LEMMA ReturnFacts ==
  ASSUME IInv, NEW t \in Threads, Return(t)
  PROVE  /\ Working(t) /\ pc[t] = "leave" /\ pc' = [pc EXCEPT ![t] = "out"]
         /\ ret' = [ret EXCEPT ![t] = err[t]] /\ err[t] \in Errors \cup {"ok"}
         /\ \/ err[t] \in Errors /\ Untouched(t)
            \/ err[t] = "ok" /\ Matches(t)
         /\ err' \in [Threads -> {"none", "ok", "entropy_failed"}] /\ err'[t] = "none"
         /\ Place(t) \in unseen[t] \/ Clean(ctx[Place(t)])
         /\ \A u \in Threads \ {t} :
              /\ pc'[u] = pc[u] /\ idx'[u] = idx[u] /\ err'[u] = err[u]
              /\ ret'[u] = ret[u]
  <1> USE DEF IInv, HeapMatchesCalls, Return, Goto
  <1>1. pc[t] = "leave" /\ Stage(t)
    OBVIOUS
  <1>2. \/ err[t] \in Errors /\ Untouched(t)
        \/ err[t] = "ok" /\ Matches(t)
    BY <1>1 DEF Stage, Errors
  <1> QED
    BY <1>1, <1>2 DEF Working, Stage, TypeOK, MemoryOK

LEMMA ReleaseInv ==
  ASSUME IInv, NEW t \in Threads, Release(t)
  PROVE  IInv'
  <1> USE DEF IInv, HeapMatchesCalls
  <1> DEFINE p == Place(t)
  <1>0. /\ Return(t) /\ pooled[t] /\ unseen[t] = {} /\ ctx' = ctx /\ unseen' = unseen
        /\ is_free' = [is_free EXCEPT ![p] = 1]
        /\ UNCHANGED <<argVars, drawn, ct, ss>> /\ idx' = [idx EXCEPT ![t] = 0]
    BY DEF Release, Return
  <1>1. /\ Holding(t) /\ p = Candidate(t) /\ Clean(ctx[p])
        /\ <<Heap, t>> \notin DOMAIN ctx
    BY <1>0, ReturnFacts, WorkingPlace DEF Holding
  <1>2. /\ is_free' \in [Slots -> {0, 1}]
        /\ \A q \in Slots : is_free'[q] # is_free[q] => q = p
    BY <1>0 DEF TypeOK
  <1>3. Apart(t)
    BY <1>0, ReturnFacts DEF Apart, Frame, argVars
  <1>4. DOMAIN ctx' = DOMAIN ctx \ {<<Heap, t>>}
    BY <1>0, <1>1
  <1> HIDE DEF p, HeapMatchesCalls
  <1> QED
    BY <1>0, <1>1, <1>2, <1>3, <1>4, ReturnFacts, LeaveStep

LEMMA DestroyInv ==
  ASSUME IInv, NEW t \in Threads, Destroy(t)
  PROVE  IInv'
  <1> USE DEF IInv, HeapMatchesCalls
  <1>0. /\ Return(t) /\ ~pooled[t] /\ is_free' = is_free /\ unseen' = unseen
        /\ ctx' = Restrict(ctx, DOMAIN ctx \ {Place(t)})
        /\ UNCHANGED <<argVars, drawn, ct, ss>> /\ idx' = [idx EXCEPT ![t] = 0]
    BY DEF Destroy, Return
  <1>1. Place(t) = <<Heap, t>> /\ unseen[t] = {}
    BY <1>0, ReturnFacts, WorkingPlace DEF WipesOwned, TypeOK
  <1>2. /\ DOMAIN ctx' = DOMAIN ctx \ {<<Heap, t>>}
        /\ \A q \in DOMAIN ctx' : ctx'[q] = ctx[q]
    BY <1>0, <1>1 DEF Restrict
  <1>3. Apart(t)
    BY <1>0, <1>1, <1>2, ReturnFacts DEF Apart, Frame, argVars
  <1>4. is_free' \in [Slots -> {0, 1}]
    BY <1>0 DEF TypeOK
  <1> QED
    BY <1>0, <1>1, <1>2, <1>3, <1>4, ReturnFacts, LeaveStep

-----------------------------------------------------------------------------
(* The inductive invariant *)

LEMMA InitInv == Init => IInv
  <1> SUFFICES ASSUME Init PROVE IInv
    OBVIOUS
  <1> USE DEF Init
  <1>1. \A k \in Keys : 0 \in 0 .. PoolCount[LevelOf[k]]
    BY EncapsPoolAssumption
  <1>2. \A t \in Threads : pc[t] = "out" /\ ~Working(t) /\ ~Holding(t) /\ idx[t] = 0
    BY DEF Working, Holding
  <1>3. TypeOK
    BY <1>1, <1>2 DEF TypeOK, Errors
  <1>4. HeapMatchesCalls
    BY <1>2, <1>3, SlotShape DEF HeapMatchesCalls
  <1>5. MemoryOK /\ FreeSlotsWiped
    BY NewIsClean DEF MemoryOK, FreeSlotsWiped, Clean
  <1>6. Exclusive /\ WipesOwned
    BY <1>2 DEF Exclusive, WipesOwned
  <1>7. \A t \in Threads : Stage(t)
    BY <1>2 DEF Stage
  <1>8. OutputsMatch /\ NoOutputOnError
    BY DEF OutputsMatch, NoOutputOnError
  <1> QED
    BY <1>4, <1>5, <1>6, <1>7, <1>8 DEF IInv

LEMMA StutterInv ==
  ASSUME IInv, UNCHANGED vars
  PROVE  IInv'
  <1> USE DEF IInv, vars
  <1>1. HeapMatchesCalls'
    BY DEF HeapMatchesCalls, TypeOK, Working, Place, Candidate
  <1>2. MemoryOK' /\ Exclusive' /\ WipesOwned'
    BY DEF MemoryOK, Exclusive, WipesOwned, Holding, Working, Candidate
  <1>3. \A t \in Threads : Stage(t)'
    BY FrameStage DEF Frame
  <1>4. FreeSlotsWiped' /\ OutputsMatch' /\ NoOutputOnError'
    BY DEF FreeSlotsWiped, OutputsMatch, NoOutputOnError
  <1> QED
    BY <1>1, <1>2, <1>3, <1>4

LEMMA InvStep == IInv /\ [Next]_vars => IInv'
  <1> SUFFICES ASSUME IInv, [Next]_vars PROVE IInv'
    OBVIOUS
  <1>1. CASE UNCHANGED vars
    BY <1>1, StutterInv
  <1>2. CASE Next
    BY <1>2, InvalidInv, CallPoolInv, CallAloneInv, AcquireInv, BusyInv, CopyKeyInv,
       EncapsulateInv, EntropyFailsInv, OutputInv, WipeInv, DrainInv, ReleaseInv,
       DestroyInv DEF Next
  <1> QED
    BY <1>1, <1>2

\* Every state of the pool, whatever calls interleave in it, satisfies the
\* inductive invariant above.
THEOREM Invariance == Spec => []IInv
  BY InitInv, InvStep, PTL DEF Spec

-----------------------------------------------------------------------------
(* The results *)

\* Every successful encapsulation returns a ciphertext and a secret that belong
\* together, to the key of the call and to the message it drew, for any number
\* of concurrent calls at any levels and any reuse of slots under other keys.
THEOREM OutputsCorrect == Spec => []OutputsMatch
  BY Invariance, PTL DEF IInv

\* A call that ends in an error, of its arguments, of the pool, of memory or of
\* the entropy source, has left both output buffers as they were.
THEOREM ErrorsWriteNothing == Spec => []NoOutputOnError
  BY Invariance, PTL DEF IInv

\* ml_kem_wipe_encaps before the release leaves the next call empty
\* accumulators and no secret of the last one.
THEOREM SlotsClean == Spec => []FreeSlotsWiped
  BY Invariance, PTL DEF IInv

\* The context of a single call lives exactly as long as its call works, on the
\* error paths too; the states are well typed.
THEOREM ContextsOwned == Spec => []HeapMatchesCalls
  BY Invariance, PTL DEF IInv

\* ml_kem_destroy_encaps frees only what ml_kem_wipe_encaps has wiped: the only
\* step that removes a context is Destroy, at the end of its call.
THEOREM FreedClean == Spec => WipedBeforeFree
  <1> DEFINE Freed(t) ==
        <<Heap, t>> \in DOMAIN ctx \ DOMAIN ctx' =>
          LET e == ctx[<<Heap, t>>] IN
          e = NewContext(e.public_key_msg, e.public_key)
  <1>1. ASSUME IInv, [Next]_vars, NEW t \in Threads PROVE Freed(t)
    <2>1. CASE UNCHANGED <<ctx>>
      BY <2>1
    <2>2. ASSUME NEW u \in Threads, NEW k \in Keys, CallAlone(u, k)
          PROVE  DOMAIN ctx \subseteq DOMAIN ctx'
      BY <2>2 DEF CallAlone, Allocate
    <2>3. ASSUME NEW u \in Threads,
                 \/ CopyKey(u) \/ Wipe(u)
                 \/ \E m \in Messages : EncapsulateStep(u, m)
                 \/ \E p \in Slots : Drain(u, p)
          PROVE  DOMAIN ctx' = DOMAIN ctx
      BY <2>3 DEF CopyKey, Wipe, EncapsulateStep, Drain
    <2>4. ASSUME NEW u \in Threads, Destroy(u)
          PROVE  Freed(t)
      <3>1. /\ Working(u) /\ ~pooled[u] /\ ctx' = Restrict(ctx, DOMAIN ctx \ {Place(u)})
            /\ Place(u) \in unseen[u] \/ Clean(ctx[Place(u)])
        BY <1>1, <2>4, ReturnFacts DEF Destroy
      <3>2. Place(u) = <<Heap, u>>
        BY <1>1, <3>1, WorkingPlace DEF IInv, HeapMatchesCalls
      <3>3. Clean(ctx[<<Heap, u>>])
        BY <1>1, <3>1, <3>2 DEF IInv, WipesOwned
      <3>4. DOMAIN ctx' = DOMAIN ctx \ {<<Heap, u>>}
        BY <3>1, <3>2 DEF Restrict
      <3> QED
        BY <3>3, <3>4 DEF Clean
    <2>5. CASE UNCHANGED vars
      BY <2>5 DEF vars
    <2>6. ASSUME NEW u \in Threads,
                 \/ Invalid(u) \/ TryAcquire(u) \/ Busy(u) \/ EntropyFails(u)
                 \/ Output(u) \/ Release(u)
                 \/ \E k \in Keys : CallPool(u, k)
          PROVE  UNCHANGED <<ctx>>
      BY <2>6 DEF Invalid, CallPool, TryAcquire, Busy, EntropyFails, Output, Release,
                  Return, memVars
    <2> QED
      BY <1>1, <2>1, <2>2, <2>3, <2>4, <2>5, <2>6 DEF Next
  <1>2. IInv /\ [Next]_vars => [\A t \in Threads : Freed(t)]_vars
    BY <1>1
  <1> QED
    BY <1>2, Invariance, PTL DEF Spec, WipedBeforeFree

-----------------------------------------------------------------------------
(* Refinement *)

\* What the protocol of SlotPool sees of level l.
Flags(l) == [s \in 0 .. PoolCount[l] - 1 |-> is_free[<<l, s>>]]
Seen(l) ==
  [t \in Threads |->
     IF LevelOf[pk[t]] # l \/ ~pooled[t] THEN "out"
     ELSE IF Working(t) THEN "hold" ELSE pc[t]]
Index(l) == [t \in Threads |-> IF LevelOf[pk[t]] # l THEN 0 ELSE idx[t]]

\* A step of t that leaves the flags of level l, and what level l sees of t, is
\* no step of level l.
LEMMA Unseen ==
  ASSUME NEW t \in Threads, NEW l, \A u \in Threads \ {t} : Frame(u),
         Flags(l)' = Flags(l), Seen(l)'[t] = Seen(l)[t], Index(l)'[t] = Index(l)[t]
  PROVE  UNCHANGED Pool(l)!vars
  <1>1. Seen(l)' = Seen(l) /\ Index(l)' = Index(l)
    BY DEF Frame, Seen, Index, Working
  <1> QED
    BY <1>1 DEF Pool!vars, Flags, Seen, Index

\* A step of t is a step of one caller at every level.
LEMMA SeenStep ==
  ASSUME NEW t \in Threads, NEW l, \A u \in Threads \ {t} : Frame(u)
  PROVE  /\ Seen(l)' = [Seen(l) EXCEPT ![t] = Seen(l)'[t]]
         /\ Index(l)' = [Index(l) EXCEPT ![t] = Index(l)'[t]]
  <1>1. \A u \in Threads \ {t} : Seen(l)'[u] = Seen(l)[u] /\ Index(l)'[u] = Index(l)[u]
    BY DEF Frame, Seen, Index, Working
  <1>2. /\ Seen(l) = [u \in Threads |-> Seen(l)[u]]
        /\ Seen(l)' = [u \in Threads |-> Seen(l)'[u]]
        /\ Index(l) = [u \in Threads |-> Index(l)[u]]
        /\ Index(l)' = [u \in Threads |-> Index(l)'[u]]
    BY DEF Seen, Index
  <1> QED
    BY <1>1, <1>2

\* One step of caller t, as in Next.
CallerStep(t) ==
  \/ Invalid(t)
  \/ \E k \in Keys : CallPool(t, k) \/ CallAlone(t, k)
  \/ TryAcquire(t) \/ Busy(t) \/ CopyKey(t)
  \/ (\E m \in Messages : EncapsulateStep(t, m)) \/ EntropyFails(t)
  \/ Output(t) \/ Wipe(t)
  \/ \E p \in Slots : Drain(t, p)
  \/ Release(t) \/ Destroy(t)

\* A step of t leaves what belongs to the other callers alone.
LEMMA StepFrame ==
  ASSUME IInv, NEW t \in Threads, CallerStep(t), NEW u \in Threads \ {t}
  PROVE  Frame(u)
  <1> USE DEF IInv, HeapMatchesCalls, TypeOK, MemoryOK, Frame, Goto, memVars, argVars, outVars
  <1>1. CASE Invalid(t) \/ \E k \in Keys : CallPool(t, k) \/ CallAlone(t, k)
    BY <1>1 DEF Invalid, CallPool, CallAlone, Enter
  <1>2. CASE TryAcquire(t)
    <2>1. pc'[u] = pc[u] /\ idx'[u] = idx[u]
      BY <1>2 DEF TryAcquire
    <2> QED
      BY <1>2, <2>1 DEF TryAcquire
  <1>3. CASE Busy(t) \/ CopyKey(t) \/ \E m \in Messages : EncapsulateStep(t, m)
    BY <1>3 DEF Busy, CopyKey, EncapsulateStep
  <1>4. CASE EntropyFails(t) \/ Output(t) \/ Wipe(t)
    BY <1>4 DEF EntropyFails, Output, Wipe
  <1>5. CASE \E p \in Slots : Drain(t, p)
    BY <1>5 DEF Drain
  <1>6. CASE Release(t) \/ Destroy(t)
    BY <1>6 DEF Release, Destroy, Return
  <1> QED
    BY <1>1, <1>2, <1>3, <1>4, <1>5, <1>6 DEF CallerStep

\* What the flags of level l show when the flag of slot <<k, i>> is set to v.
LEMMA FlagStep ==
  ASSUME NEW k \in Levels, NEW i \in 0 .. PoolCount[k] - 1, NEW v, NEW l \in Levels,
         TypeOK, is_free' = [is_free EXCEPT ![<<k, i>>] = v]
  PROVE  Flags(l)' = IF k = l THEN [Flags(l) EXCEPT ![i] = v] ELSE Flags(l)
  <1>1. DOMAIN is_free = Slots
    BY DEF TypeOK
  <1>2. \A s \in 0 .. PoolCount[l] - 1 : <<l, s>> \in Slots
    BY SlotShape
  <1>3. CASE k = l
    BY <1>1, <1>2, <1>3 DEF Flags
  <1>4. CASE k # l
    BY <1>1, <1>2, <1>4 DEF Flags
  <1> QED
    BY <1>3, <1>4

\* Every step is one step of the protocol at each level, or none.
LEMMA PoolStep ==
  ASSUME IInv, NEW t \in Threads, CallerStep(t), NEW l \in Levels, PoolCount[l] > 0
  PROVE  Pool(l)!Next \/ UNCHANGED Pool(l)!vars
  <1> USE DEF IInv, HeapMatchesCalls
  <1> DEFINE k == LevelOf[pk[t]]
             Here == k = l /\ pooled[t]
  <1>a. /\ TypeOK /\ k \in Levels /\ Stage(t)
        /\ Candidate(t) = <<k, idx[t]>>
    BY ScanIndex DEF Candidate
  <1>b. \A u \in Threads \ {t} : Frame(u)
    BY StepFrame
  <1>c. /\ Seen(l)[t] = IF ~Here THEN "out" ELSE IF Working(t) THEN "hold" ELSE pc[t]
        /\ Index(l)[t] = IF k # l THEN 0 ELSE idx[t]
    BY DEF Seen, Index
  <1>d. /\ Seen(l)' = [Seen(l) EXCEPT ![t] = Seen(l)'[t]]
        /\ Index(l)' = [Index(l) EXCEPT ![t] = Index(l)'[t]]
    BY <1>b, SeenStep
  <1>1. ASSUME UNCHANGED <<pk, pooled>>
        PROVE  /\ Seen(l)'[t] = IF ~Here THEN "out" ELSE IF Working(t)' THEN "hold" ELSE pc'[t]
               /\ Index(l)'[t] = IF k # l THEN 0 ELSE idx'[t]
    BY <1>1 DEF Seen, Index
  <1>2. ASSUME UNCHANGED is_free PROVE Flags(l)' = Flags(l)
    BY <1>2 DEF Flags
  <1> HIDE DEF k
  <1>3. CASE Invalid(t)
    BY <1>a, <1>b, <1>c, <1>d, <1>1, <1>2, <1>3, Unseen DEF Invalid, Enter, Goto, argVars, TypeOK, Working
  <1>4. ASSUME NEW q \in Keys, CallPool(t, q)
        PROVE  Pool(l)!Enter(t) \/ UNCHANGED Pool(l)!vars
    <2>1. /\ pc[t] = "out" /\ idx[t] = 0 /\ idx' = idx /\ pk'[t] = q /\ pooled'[t]
          /\ is_free' = is_free /\ Seen(l)[t] = "out" /\ Index(l)[t] = 0
      BY <1>a, <1>b, <1>c, <1>d, <1>4 DEF CallPool, Enter, Goto, TypeOK, Working, Stage
    <2>2. Index(l)'[t] = 0 /\ Flags(l)' = Flags(l)
      BY <1>2, <2>1 DEF Index
    <2>3. CASE LevelOf[q] = l
      <3>1. pc'[t] = "scan"
        BY <1>4, <2>3 DEF CallPool, Enter, Goto, TypeOK
      <3>2. Seen(l)'[t] = "scan"
        BY <2>1, <2>3, <3>1 DEF Seen, Working
      <3>3. /\ Seen(l)' = [Seen(l) EXCEPT ![t] = "scan"]
            /\ Index(l)' = [Index(l) EXCEPT ![t] = 0]
        BY <1>a, <1>b, <1>c, <1>d, <2>2, <3>2
      <3> QED
        BY <2>1, <2>2, <3>3 DEF Pool!Enter, Flags, Seen, Index
    <2>4. CASE LevelOf[q] # l
      <3>1. Seen(l)'[t] = "out"
        BY <2>1, <2>4 DEF Seen
      <3> QED
        BY <1>a, <1>b, <1>c, <1>d, <2>1, <2>2, <3>1, Unseen
    <2> QED
      BY <2>3, <2>4
  <1>5. ASSUME NEW q \in Keys, CallAlone(t, q)
        PROVE  UNCHANGED Pool(l)!vars
    <2>1. /\ pc[t] = "out" /\ idx[t] = 0 /\ idx' = idx /\ ~pooled'[t]
          /\ is_free' = is_free /\ Seen(l)[t] = "out" /\ Index(l)[t] = 0
      BY <1>a, <1>b, <1>c, <1>d, <1>5 DEF CallAlone, Enter, Goto, TypeOK, Working, Stage
    <2>2. Seen(l)'[t] = "out" /\ Index(l)'[t] = 0
      BY <2>1 DEF Seen, Index
    <2> QED
      BY <1>a, <1>b, <1>c, <1>d, <1>2, <2>1, <2>2, Unseen
  <1>6. ASSUME TryAcquire(t)
        PROVE  Pool(l)!Next \/ UNCHANGED Pool(l)!vars
    <2>0. /\ pc[t] = "scan" /\ pooled[t] /\ UNCHANGED <<pk, pooled>>
          /\ <<k, idx[t]>> \in Slots /\ idx[t] \in 0 .. PoolCount[k] - 1
      BY <1>a, <1>b, <1>c, <1>d, <1>6, SlotShape DEF TryAcquire, Goto, Stage, argVars
    <2>1. CASE is_free[<<k, idx[t]>>] = 1
      <3>1. /\ pc'[t] = "copy" /\ idx' = idx
            /\ is_free' = [is_free EXCEPT ![<<k, idx[t]>>] = 0]
        BY <1>a, <1>b, <1>c, <1>d, <1>6, <2>1 DEF TryAcquire, Goto, TypeOK
      <3>2. Flags(l)' = IF k = l THEN [Flags(l) EXCEPT ![idx[t]] = 0] ELSE Flags(l)
        BY <1>a, <2>0, <3>1, FlagStep
      <3>3. CASE k = l
        <4>1. /\ Seen(l)[t] = "scan" /\ Index(l)[t] = idx[t]
              /\ Seen(l)' = [Seen(l) EXCEPT ![t] = "hold"]
              /\ Index(l)' = [Index(l) EXCEPT ![t] = idx[t]]
          BY <1>a, <1>b, <1>c, <1>d, <1>1, <2>0, <3>1, <3>3 DEF Working
        <4>2. Index(l)' = Index(l)
          BY <4>1 DEF Index
        <4>3. Flags(l)[idx[t]] = 1
          BY <2>0, <2>1, <3>3 DEF Flags
        <4> QED
          BY <2>0, <3>2, <3>3, <4>1, <4>2, <4>3
          DEF Pool!Next, Pool!Step, Pool!Acquire, Pool!Slots, Flags, Seen, Index
      <3>4. CASE k # l
        BY <1>a, <1>b, <1>c, <1>d, <1>1, <2>0, <3>2, <3>4, Unseen
      <3> QED
        BY <3>3, <3>4
    <2>2. CASE is_free[<<k, idx[t]>>] # 1
      <3>1. pc' = pc /\ idx'[t] = idx[t] + 1 /\ is_free' = is_free
        BY <1>a, <1>b, <1>c, <1>d, <1>6, <2>2 DEF TryAcquire, Goto, MemoryOK
      <3>2. Flags(l)' = Flags(l)
        BY <1>2, <3>1
      <3>3. CASE k = l
        <4>1. /\ Seen(l)[t] = "scan" /\ Index(l)[t] = idx[t]
              /\ Seen(l)' = [Seen(l) EXCEPT ![t] = "scan"]
              /\ Index(l)' = [Index(l) EXCEPT ![t] = idx[t] + 1]
          BY <1>a, <1>b, <1>c, <1>d, <1>1, <2>0, <3>1, <3>3 DEF Working
        <4>2. Seen(l)' = Seen(l)
          BY <4>1 DEF Seen
        <4>3. Flags(l)[idx[t]] # 1
          BY <2>0, <2>2, <3>3 DEF Flags
        <4>4. Index(l)' = [Index(l) EXCEPT ![t] = @ + 1]
          BY <4>1
        <4> QED
          BY <2>0, <3>2, <3>3, <4>1, <4>2, <4>3, <4>4
          DEF Pool!Next, Pool!Step, Pool!Skip, Pool!Slots, Flags, Seen, Index
      <3>4. CASE k # l
        <4>1. Seen(l)'[t] = Seen(l)[t] /\ Index(l)'[t] = Index(l)[t]
          BY <1>a, <1>b, <1>c, <1>d, <1>1, <2>0, <3>4
        <4> QED
          BY <1>a, <1>b, <1>c, <1>d, <3>2, <4>1, Unseen
      <3> QED
        BY <3>3, <3>4
    <2> QED
      BY <2>1, <2>2
  <1>7. ASSUME Busy(t)
        PROVE  Pool(l)!Next \/ UNCHANGED Pool(l)!vars
    <2>1. /\ pc[t] = "scan" /\ pooled[t] /\ UNCHANGED <<pk, pooled, is_free>>
          /\ pc'[t] = "out" /\ idx'[t] = 0 /\ idx[t] = PoolCount[k]
      BY <1>a, <1>b, <1>c, <1>d, <1>7, ScanIndex DEF Busy, Goto, Stage, argVars, memVars, TypeOK, MemoryOK, k
    <2>2. Flags(l)' = Flags(l)
      BY <1>2, <2>1
    <2>3. CASE k = l
      <3>1. /\ Seen(l)[t] = "scan" /\ Index(l)[t] = PoolCount[l]
            /\ Seen(l)' = [Seen(l) EXCEPT ![t] = "out"]
            /\ Index(l)' = [Index(l) EXCEPT ![t] = 0]
        BY <1>a, <1>b, <1>c, <1>d, <1>1, <2>1, <2>3 DEF Working
      <3> QED
        BY <2>2, <3>1 DEF Pool!Next, Pool!Step, Pool!Busy, Flags, Seen, Index
    <2>4. CASE k # l
      BY <1>a, <1>b, <1>c, <1>d, <1>1, <2>1, <2>2, <2>4, Unseen
    <2> QED
      BY <2>3, <2>4
  <1>8. ASSUME Working(t), Working(t)', UNCHANGED <<pk, pooled, is_free, idx>>
        PROVE  UNCHANGED Pool(l)!vars
    BY <1>a, <1>b, <1>c, <1>d, <1>1, <1>2, <1>8, Unseen
  <1>9. ASSUME \/ CopyKey(t) \/ EntropyFails(t) \/ Output(t) \/ Wipe(t)
               \/ (\E m \in Messages : EncapsulateStep(t, m))
               \/ \E p \in Slots : Drain(t, p)
        PROVE  UNCHANGED Pool(l)!vars
    <2>1. ASSUME \E p \in Slots : Drain(t, p) PROVE pc' = pc /\ pc[t] = "leave"
      BY <2>1 DEF Drain, WipesOwned
    <2>2. Working(t) /\ Working(t)' /\ UNCHANGED <<pk, pooled, is_free, idx>>
      BY <1>9, <2>1 DEF CopyKey, EncapsulateStep, EntropyFails, Output, Wipe, Drain,
         Goto, Working, TypeOK, memVars, argVars
    <2> QED
      BY <1>8, <2>2
  <1>10. ASSUME Release(t)
         PROVE  Pool(l)!Next \/ UNCHANGED Pool(l)!vars
    <2>1. /\ pooled[t] /\ UNCHANGED <<pk, pooled>> /\ Working(t)
          /\ pc'[t] = "out" /\ ~Working(t)' /\ idx'[t] = 0
          /\ Place(t) = <<k, idx[t]>> /\ idx[t] \in 0 .. PoolCount[k] - 1
      <3>1. Return(t) /\ pooled[t] /\ Working(t)
        BY <1>10, ReturnFacts DEF Release
      <3>2. UNCHANGED <<pk, pooled>> /\ pc'[t] = "out" /\ idx'[t] = 0
        BY <1>a, <3>1 DEF Return, Goto, argVars, TypeOK, MemoryOK
      <3>3. Place(t) = <<k, idx[t]>> /\ <<k, idx[t]>> \in Slots
        BY <1>a, <3>1, WorkingPlace
      <3> QED
        BY <3>1, <3>2, <3>3, SlotShape DEF Working
    <2>2. is_free' = [is_free EXCEPT ![<<k, idx[t]>>] = 1]
      BY <1>10, <2>1 DEF Release
    <2>3. Flags(l)' = IF k = l THEN [Flags(l) EXCEPT ![idx[t]] = 1] ELSE Flags(l)
      <3>1. idx[t] \in 0 .. PoolCount[k] - 1
        BY <2>1
      <3> HIDE DEF IInv, HeapMatchesCalls
      <3> QED
        BY <1>a, <2>2, <3>1, FlagStep
    <2>4. CASE k = l
      <3>1. /\ Seen(l)[t] = "hold" /\ Index(l)[t] = idx[t]
            /\ Seen(l)' = [Seen(l) EXCEPT ![t] = "out"]
            /\ Index(l)' = [Index(l) EXCEPT ![t] = 0]
        BY <1>a, <1>b, <1>c, <1>d, <1>1, <2>1, <2>4
      <3> QED
        BY <2>3, <2>4, <3>1 DEF Pool!Next, Pool!Step, Pool!Release, Flags, Seen, Index
    <2>5. CASE k # l
      <3>1. Seen(l)'[t] = Seen(l)[t] /\ Index(l)'[t] = Index(l)[t]
        BY <1>a, <1>b, <1>c, <1>d, <1>1, <2>1, <2>5
      <3> QED
        BY <1>a, <1>b, <1>c, <1>d, <2>3, <2>5, <3>1, Unseen
    <2> QED
      BY <2>4, <2>5
  <1>11. ASSUME Destroy(t)
         PROVE  UNCHANGED Pool(l)!vars
    <2>1. /\ ~pooled[t] /\ UNCHANGED <<pk, pooled, is_free>>
          /\ idx[t] = 0 /\ idx'[t] = 0
      BY <1>a, <1>b, <1>c, <1>d, <1>11 DEF Destroy, Return, argVars, MemoryOK, Stage
    <2>2. Seen(l)'[t] = Seen(l)[t] /\ Index(l)'[t] = Index(l)[t]
      BY <1>a, <1>b, <1>c, <1>d, <1>1, <2>1
    <2> QED
      BY <1>a, <1>b, <1>c, <1>d, <1>2, <2>1, <2>2, Unseen
  <1> QED
    BY <1>3, <1>4, <1>5, <1>6, <1>7, <1>9, <1>10, <1>11 DEF CallerStep, Pool!Next

\* Seen from the flags of each subpool, ml_kem_encaps_core is the scan protocol
\* of SlotPool, whatever goes on at the other levels and without a pool: what
\* SlotPoolProofs proves of the protocol holds of encapsulation.
THEOREM EncapsImplementsPools == Spec => ImplementsPools
  <1>1. ASSUME Init, NEW l \in Levels, PoolCount[l] > 0
        PROVE  Pool(l)!Init
    <2>1. \A s \in 0 .. PoolCount[l] - 1 : is_free[<<l, s>>] = 1
      BY <1>1, SlotShape DEF Init
    <2> QED
      BY <1>1, <2>1 DEF Init, Pool!Init, Pool!Slots, Working
  <1>2. ASSUME IInv, [Next]_vars, NEW l \in Levels, PoolCount[l] > 0
        PROVE  Pool(l)!Next \/ UNCHANGED Pool(l)!vars
    <2>1. CASE Next
      BY <1>2, <2>1, PoolStep DEF Next, CallerStep
    <2>2. CASE UNCHANGED vars
      BY <2>2 DEF vars, Pool!vars, Working
    <2> QED
      BY <1>2, <2>1, <2>2
  <1>3. Init => \A l \in Levels : PoolCount[l] > 0 => Pool(l)!Init
    BY <1>1
  <1>4. IInv /\ [Next]_vars =>
          [\A l \in Levels : PoolCount[l] > 0 =>
             Pool(l)!Next \/ UNCHANGED Pool(l)!vars]_vars
    BY <1>2
  <1> QED
    BY <1>3, <1>4, Invariance, PTL DEF Spec, ImplementsPools
=============================================================================
