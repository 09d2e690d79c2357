-------------------------- MODULE DecapsPoolProofs --------------------------
(***************************************************************************)
(* Proofs about DecapsPool for every number of callers and slots and every *)
(* set of ciphertexts: each successful call returns the secret of its own  *)
(* ciphertext, a free slot is as good as new, and the receiver's secret is *)
(* the one the encapsulation routine left with the sender.                 *)
(***************************************************************************)
EXTENDS DecapsPool, TLAPS

\* A context of this pool, whatever the fields that belong to a call hold.
IsContext(e) ==
  /\ DOMAIN e = DOMAIN NewSlot
  /\ e.public_key_msg = Pk
  /\ e.public_key = Vector(Pk)

\* Memory is a table of slots, and every re-encapsulation context keeps its key.
MemoryOK ==
  /\ DOMAIN decrypt = Slots
  /\ DOMAIN encaps = Slots
  /\ DOMAIN result = Threads
  /\ \A s \in Slots : IsContext(encaps[s])

\* A slot in use is marked so and has one user.
Exclusive ==
  /\ \A t \in Threads : InSlot(t) => is_free[idx[t]] = 0
  /\ \A t, u \in Threads : InSlot(t) /\ InSlot(u) /\ idx[t] = idx[u] => t = u

\* How far the memory of its slot and its result have come with a caller.
Stage(t) ==
  LET s == idx[t]
      m == DecryptsTo(arg[t])
  IN
  /\ pc[t] = "out" => idx[t] = 0
  /\ pc[t] # "out" => arg[t] \in Ciphertexts
  /\ pc[t] = "decrypt" => decrypt[s] = NewDecrypt /\ encaps[s] \in Created
  /\ pc[t] = "reencaps" => decrypt[s].m = m /\ encaps[s] \in Created
  /\ pc[t] = "select" =>
       /\ encaps[s].ciphertext = EncapsCiphertext(Pk, m)
       /\ encaps[s].K_bar = EncapsSecret(Pk, m)
  /\ pc[t] \in {"wipe_encaps", "wipe_decrypt", "release"} =>
       result[t] = Decaps(arg[t])
  /\ pc[t] \in {"wipe_decrypt", "release"} =>
       <<s, "encaps">> \in unseen[t] \/ encaps[s] = NewSlot
  /\ pc[t] = "release" =>
       <<s, "decrypt">> \in unseen[t] \/ decrypt[s] = NewDecrypt
  /\ ret[t] = "ok" => pc[t] = "out"

\* The inductive invariant.
IInv ==
  /\ TypeOK
  /\ MemoryOK
  /\ Exclusive
  /\ \A t \in Threads : Stage(t)
  /\ NoStoreAfterRelease
  /\ FreeSlotsAsCreated
  /\ CorrectSecret

-----------------------------------------------------------------------------
(* The operations on a context *)

\* A created context is a context of the pool with empty accumulators.
LEMMA CreatedContext ==
  ASSUME NEW e \in Created
  PROVE  IsContext(e) /\ e.u = Zero /\ e.v = Zero
  BY DEF Created, NewSlot, NewContext, IsContext

\* The wipe turns any context of the pool into a new one.
LEMMA WipeRestores ==
  ASSUME NEW e, IsContext(e)
  PROVE  WipeEncaps(e) = NewSlot /\ IsContext(WipeEncaps(e)) /\ NewSlot \in Created
  BY DEF IsContext, WipeEncaps, NewSlot, NewContext, Created

\* The use of the XOF buffer leaves a context a context.
LEMMA BufferedContext ==
  ASSUME NEW e, IsContext(e), NEW x
  PROVE  IsContext([e EXCEPT !.raw_bytes = x])
  BY DEF IsContext, NewSlot, NewContext

\* In empty accumulators, re-encapsulation computes the reference ciphertext
\* and secret of its message.
LEMMA ReencapsulateCorrect ==
  ASSUME NEW e, NEW m, IsContext(e), e.u = Zero, e.v = Zero
  PROVE  LET f == Reencapsulate(e, m, Hash(Pk)) IN
         /\ IsContext(f)
         /\ f.ciphertext = EncapsCiphertext(Pk, m)
         /\ f.K_bar = EncapsSecret(Pk, m)
  <1> DEFINE r == Derive(m, Hash(Pk))
             e1 == [e EXCEPT !.seed_m = m, !.K_bar = r, !.seed_rho = Rho(e.public_key_msg)]
             e2 == CreateY(e1, r)
             e3 == CreateU(e2, r)
             e4 == CreateV(e3, r)
             e5 == CompressCiphertext(e4)
  <1> USE DEF IsContext, NewSlot, NewContext
  <1>1. /\ IsContext(e1) /\ e1.u = Zero /\ e1.v = Zero /\ e1.K_bar = r
        /\ e1.seed_m = m /\ e1.seed_rho = Rho(Pk)
    OBVIOUS
  <1> HIDE DEF e1
  <1>2. /\ IsContext(e2) /\ e2.u = Zero /\ e2.v = Zero /\ e2.K_bar = r
        /\ e2.seed_m = m /\ e2.seed_rho = Rho(Pk) /\ e2.y = r
    BY <1>1 DEF CreateY
  <1> HIDE DEF e2
  <1>3. /\ IsContext(e3) /\ e3.u = <<Rho(Pk), r, r>> /\ e3.v = Zero
        /\ e3.K_bar = r /\ e3.seed_m = m /\ e3.y = r
    BY <1>2 DEF CreateU, AddInto
  <1> HIDE DEF e3
  <1>4. /\ IsContext(e4) /\ e4.u = <<Rho(Pk), r, r>> /\ e4.K_bar = r
        /\ e4.v = <<Vector(Pk), r, r, m>>
    BY <1>3 DEF CreateV, AddInto
  <1> HIDE DEF e4
  <1>5. /\ IsContext(e5) /\ e5.K_bar = r
        /\ e5.ciphertext = << <<Rho(Pk), r, r>>, <<Vector(Pk), r, r, m>> >>
    BY <1>4 DEF CompressCiphertext
  <1>6. Reencapsulate(e, m, Hash(Pk)) = e5
    BY DEF Reencapsulate, Encrypt, e1, e2, e3, e4
  <1> QED
    BY <1>5, <1>6 DEF EncapsCiphertext, EncapsSecret, Ciphertext

\* In a new decryption context the message of the ciphertext is found.
LEMMA DecryptCorrect ==
  ASSUME NEW c \in Ciphertexts
  PROVE  Decrypt(NewDecrypt, c).m = DecryptsTo(c)
  <1>1. c # Junk
    BY DecapsPoolAssumption
  <1>2. Decrypt(NewDecrypt, c) =
          [ciphertext |-> c, uv |-> c, poly |-> c, m |-> DecryptsTo(c)]
    BY <1>1 DEF Decrypt, NewDecrypt, AddInto
  <1> QED
    BY <1>2

-----------------------------------------------------------------------------
(* The inductive invariant *)

LEMMA InitInv == Init => IInv
  <1> SUFFICES ASSUME Init PROVE IInv
    OBVIOUS
  <1>1. TypeOK
    BY DecapsPoolAssumption DEF Init, TypeOK, InSlot, Slots
  <1>2. \A s \in Slots : encaps[s] \in Created
    BY DEF Init, Created
  <1>3. MemoryOK
    BY <1>2, CreatedContext DEF Init, MemoryOK
  <1>4. Exclusive /\ (\A t \in Threads : Stage(t)) /\ NoStoreAfterRelease
    BY DEF Init, Exclusive, Stage, NoStoreAfterRelease, InSlot
  <1>5. FreeSlotsAsCreated /\ CorrectSecret
    BY <1>2 DEF Init, FreeSlotsAsCreated, CorrectSecret
  <1> QED
    BY <1>1, <1>3, <1>4, <1>5 DEF IInv

\* Everything but the work in a slot leaves the memory alone.
LEMMA CallStep ==
  ASSUME IInv, NEW t \in Threads, NEW c \in Ciphertexts,
         Call(t, c) \/ Invalid(t, c)
  PROVE  IInv'
  <1> USE DEF IInv, Call, Invalid, Goto, poolVars, memVars
  <1>1. TypeOK'
    BY DEF TypeOK, InSlot
  <1>2. MemoryOK'
    BY DEF MemoryOK
  <1>3. Exclusive'
    BY DEF TypeOK, Exclusive, InSlot
  <1>4. \A u \in Threads : Stage(u)'
    BY DEF TypeOK, MemoryOK, Stage
  <1>5. NoStoreAfterRelease'
    BY DEF TypeOK, NoStoreAfterRelease
  <1>6. FreeSlotsAsCreated' /\ CorrectSecret'
    BY DEF TypeOK, MemoryOK, FreeSlotsAsCreated, CorrectSecret
  <1> QED
    BY <1>1, <1>2, <1>3, <1>4, <1>5, <1>6

LEMMA SlotRange ==
  /\ 0 \in 0 .. PoolCount
  /\ \A s \in Slots : s + 1 \in 0 .. PoolCount
  BY DecapsPoolAssumption DEF Slots

\* A slot is won in the state its creation or its last call left it in.
LEMMA AcquireInv ==
  ASSUME IInv, NEW t \in Threads, TryAcquire(t)
  PROVE  IInv'
  <1> USE DEF IInv, TryAcquire, Goto, memVars, callVars
  <1>0. idx[t] \in Slots /\ pc[t] = "scan"
    OBVIOUS
  <1>1. TypeOK'
    <2>1. idx' \in [Threads -> 0 .. PoolCount]
      BY SlotRange DEF TypeOK
    <2> QED
      BY <2>1 DEF TypeOK, InSlot
  <1>2. MemoryOK'
    BY DEF MemoryOK
  <1>3. Exclusive'
    BY DEF TypeOK, Exclusive, InSlot
  <1>4. ASSUME NEW u \in Threads PROVE Stage(u)'
    <2>1. Stage(u) /\ ret[t] # "ok"
      BY <1>0 DEF Stage
    <2>2. CASE is_free[idx[t]] = 1
      <3>1. decrypt[idx[t]] = NewDecrypt /\ encaps[idx[t]] \in Created
        BY <1>0, <2>2 DEF FreeSlotsAsCreated
      <3>2. pc' = [pc EXCEPT ![t] = "decrypt"] /\ idx' = idx
        BY <2>2
      <3>3. arg[t] \in Ciphertexts
        BY <1>0 DEF Stage
      <3>4. CASE u = t
        BY <2>1, <3>1, <3>2, <3>3, <3>4 DEF TypeOK, Stage
      <3>5. CASE u # t
        BY <2>1, <3>2, <3>5 DEF TypeOK, Stage
      <3> QED
        BY <3>4, <3>5
    <2>3. CASE is_free[idx[t]] # 1
      <3>1. pc' = pc /\ idx' = [idx EXCEPT ![t] = @ + 1]
        BY <2>3
      <3>2. CASE u = t
        BY <1>0, <2>1, <3>1, <3>2 DEF TypeOK, Stage
      <3>3. CASE u # t
        BY <2>1, <3>1, <3>3 DEF TypeOK, Stage
      <3> QED
        BY <3>2, <3>3
    <2> QED
      BY <2>2, <2>3
  <1>5. NoStoreAfterRelease'
    BY DEF TypeOK, NoStoreAfterRelease
  <1>6. FreeSlotsAsCreated' /\ CorrectSecret'
    BY DEF TypeOK, MemoryOK, FreeSlotsAsCreated, CorrectSecret
  <1> QED
    BY <1>1, <1>2, <1>3, <1>4, <1>5, <1>6

LEMMA BusyInv ==
  ASSUME IInv, NEW t \in Threads, Busy(t)
  PROVE  IInv'
  <1> USE DEF IInv, Busy, Goto, memVars
  <1>1. TypeOK'
    BY SlotRange DEF TypeOK, InSlot
  <1>2. MemoryOK'
    BY DEF MemoryOK
  <1>3. Exclusive'
    BY DEF TypeOK, Exclusive, InSlot
  <1>4. ASSUME NEW u \in Threads PROVE Stage(u)'
    <2>1. Stage(u)
      OBVIOUS
    <2>2. CASE u = t
      BY <2>1, <2>2 DEF TypeOK, Stage
    <2>3. CASE u # t
      BY <2>1, <2>3 DEF TypeOK, Stage
    <2> QED
      BY <2>2, <2>3
  <1>5. NoStoreAfterRelease'
    BY DEF TypeOK, NoStoreAfterRelease
  <1>6. FreeSlotsAsCreated' /\ CorrectSecret'
    BY DEF TypeOK, FreeSlotsAsCreated, CorrectSecret
  <1> QED
    BY <1>1, <1>2, <1>3, <1>4, <1>5, <1>6

LEMMA DecryptStepInv ==
  ASSUME IInv, NEW t \in Threads, DecryptStep(t)
  PROVE  IInv'
  <1> USE DEF IInv, DecryptStep, Goto, callVars
  <1>0. /\ idx[t] \in Slots /\ is_free[idx[t]] = 0 /\ arg[t] \in Ciphertexts
        /\ InSlot(t) /\ InSlot(t)'
        /\ Decrypt(decrypt[idx[t]], arg[t]).m = DecryptsTo(arg[t])
    BY DecryptCorrect DEF TypeOK, Exclusive, Stage, InSlot
  <1>1. TypeOK'
    BY DEF TypeOK, InSlot
  <1>2. MemoryOK'
    BY DEF MemoryOK
  <1>3. Exclusive'
    BY DEF TypeOK, Exclusive, InSlot
  <1>4. ASSUME NEW u \in Threads PROVE Stage(u)'
    <2>1. CASE u = t
      BY <1>0, <2>1 DEF TypeOK, MemoryOK, Stage
    <2>2. CASE u # t
      <3>1. InSlot(u) => idx[u] # idx[t]
        BY <1>0, <2>2 DEF Exclusive
      <3> QED
        BY <2>2, <3>1 DEF TypeOK, MemoryOK, Stage, InSlot
    <2> QED
      BY <2>1, <2>2
  <1>5. NoStoreAfterRelease'
    BY DEF TypeOK, NoStoreAfterRelease
  <1>6. FreeSlotsAsCreated' /\ CorrectSecret'
    BY <1>0 DEF TypeOK, MemoryOK, FreeSlotsAsCreated, CorrectSecret
  <1> QED
    BY <1>1, <1>2, <1>3, <1>4, <1>5, <1>6

LEMMA ReencapsStepInv ==
  ASSUME IInv, NEW t \in Threads, ReencapsStep(t)
  PROVE  IInv'
  <1> USE DEF IInv, ReencapsStep, Goto, callVars
  <1> DEFINE s == idx[t]
             f == Reencapsulate(encaps[s], decrypt[s].m, Hash(Pk))
  <1>0. /\ s \in Slots /\ is_free[s] = 0 /\ arg[t] \in Ciphertexts
        /\ InSlot(t) /\ encaps[s] \in Created
        /\ decrypt[s].m = DecryptsTo(arg[t])
    BY DEF TypeOK, Exclusive, Stage, InSlot
  <1>a. /\ IsContext(f)
        /\ f.ciphertext = EncapsCiphertext(Pk, DecryptsTo(arg[t]))
        /\ f.K_bar = EncapsSecret(Pk, DecryptsTo(arg[t]))
    BY <1>0, CreatedContext, ReencapsulateCorrect
  <1>b. encaps' = [encaps EXCEPT ![s] = f]
    OBVIOUS
  <1> HIDE DEF f
  <1>1. TypeOK'
    BY DEF TypeOK, InSlot
  <1>2. MemoryOK'
    BY <1>0, <1>a, <1>b DEF MemoryOK
  <1>3. Exclusive'
    BY DEF TypeOK, Exclusive, InSlot
  <1>4. ASSUME NEW u \in Threads PROVE Stage(u)'
    <2>1. CASE u = t
      BY <1>0, <1>a, <1>b, <2>1 DEF TypeOK, MemoryOK, Stage
    <2>2. CASE u # t
      <3>1. InSlot(u) => idx[u] # s
        BY <1>0, <2>2 DEF Exclusive
      <3> QED
        BY <1>b, <2>2, <3>1 DEF TypeOK, MemoryOK, Stage, InSlot
    <2> QED
      BY <2>1, <2>2
  <1>5. NoStoreAfterRelease'
    BY DEF TypeOK, NoStoreAfterRelease
  <1>6. FreeSlotsAsCreated' /\ CorrectSecret'
    BY <1>0, <1>b DEF TypeOK, MemoryOK, FreeSlotsAsCreated, CorrectSecret
  <1> QED
    BY <1>1, <1>2, <1>3, <1>4, <1>5, <1>6

LEMMA SelectStepInv ==
  ASSUME IInv, NEW t \in Threads, SelectStep(t)
  PROVE  IInv'
  <1> USE DEF IInv, SelectStep, Goto
  <1> DEFINE s == idx[t]
             e == [encaps[s] EXCEPT !.raw_bytes = Fallback(arg[t])]
             k == IF encaps[s].ciphertext = arg[t] THEN encaps[s].K_bar
                  ELSE Fallback(arg[t])
  <1>0. /\ s \in Slots /\ is_free[s] = 0 /\ arg[t] \in Ciphertexts
        /\ InSlot(t) /\ IsContext(encaps[s]) /\ ret[t] # "ok"
    BY DEF TypeOK, Exclusive, Stage, InSlot, MemoryOK
  <1>a. k = Decaps(arg[t])
    BY <1>0 DEF Stage, Decaps
  <1>b. IsContext(e)
    BY <1>0, BufferedContext
  <1>c. encaps' = [encaps EXCEPT ![s] = e] /\ result' = [result EXCEPT ![t] = k]
    OBVIOUS
  <1> HIDE DEF e, k
  <1>1. TypeOK'
    BY DEF TypeOK, InSlot
  <1>2. MemoryOK'
    BY <1>0, <1>b, <1>c DEF MemoryOK
  <1>3. Exclusive'
    BY DEF TypeOK, Exclusive, InSlot
  <1>4. ASSUME NEW u \in Threads PROVE Stage(u)'
    <2>1. CASE u = t
      BY <1>0, <1>a, <1>c, <2>1 DEF TypeOK, MemoryOK, Stage
    <2>2. CASE u # t
      <3>1. InSlot(u) => idx[u] # s
        BY <1>0, <2>2 DEF Exclusive
      <3> QED
        BY <1>c, <2>2, <3>1 DEF TypeOK, MemoryOK, Stage, InSlot
    <2> QED
      BY <2>1, <2>2
  <1>5. NoStoreAfterRelease'
    BY DEF TypeOK, NoStoreAfterRelease
  <1>6. FreeSlotsAsCreated'
    BY <1>0, <1>c DEF TypeOK, MemoryOK, FreeSlotsAsCreated
  <1>7. CorrectSecret'
    BY <1>0, <1>c DEF MemoryOK, CorrectSecret
  <1> QED
    BY <1>1, <1>2, <1>3, <1>4, <1>5, <1>6, <1>7

LEMMA WipeStepInv ==
  ASSUME IInv, NEW t \in Threads,
         \/ WipeStep(t, "wipe_encaps", "encaps", "wipe_decrypt")
         \/ WipeStep(t, "wipe_decrypt", "decrypt", "release")
  PROVE  IInv'
  <1> USE DEF IInv, WipeStep, Goto, callVars
  <1>0. idx[t] \in Slots /\ is_free[idx[t]] = 0 /\ InSlot(t)
    BY DEF TypeOK, Exclusive, InSlot
  <1>1. TypeOK'
    BY <1>0 DEF TypeOK, InSlot
  <1>2. MemoryOK'
    BY DEF MemoryOK
  <1>3. Exclusive'
    BY DEF TypeOK, Exclusive, InSlot
  <1>4. ASSUME NEW u \in Threads PROVE Stage(u)'
    BY DEF TypeOK, Stage
  <1>5. NoStoreAfterRelease'
    BY <1>0 DEF TypeOK, NoStoreAfterRelease
  <1>6. FreeSlotsAsCreated' /\ CorrectSecret'
    BY DEF TypeOK, FreeSlotsAsCreated, CorrectSecret
  <1> QED
    BY <1>1, <1>2, <1>3, <1>4, <1>5, <1>6

\* A pending wipe lands in the slot its thread still holds.
LEMMA DrainInv ==
  ASSUME IInv, NEW t \in Threads, NEW s \in Slots,
         NEW part \in {"encaps", "decrypt"}, Drain(t, s, part)
  PROVE  IInv'
  <1> USE DEF IInv, Drain, poolVars, callVars
  <1>0. /\ s = idx[t] /\ is_free[s] = 0 /\ InSlot(t)
        /\ pc[t] \in {"wipe_decrypt", "release"}
        /\ WipeEncaps(encaps[s]) = NewSlot /\ IsContext(NewSlot)
    BY WipeRestores DEF NoStoreAfterRelease, MemoryOK, InSlot
  <1>1. TypeOK'
    BY DEF TypeOK, InSlot
  <1>2. MemoryOK'
    BY <1>0 DEF MemoryOK
  <1>3. Exclusive'
    BY DEF TypeOK, Exclusive, InSlot
  <1>4. ASSUME NEW u \in Threads PROVE Stage(u)'
    <2>1. CASE u = t
      BY <1>0, <2>1 DEF TypeOK, MemoryOK, Stage, WipeDecrypt
    <2>2. CASE u # t
      <3>1. InSlot(u) => idx[u] # s
        BY <1>0, <2>2 DEF Exclusive
      <3> QED
        BY <2>2, <3>1 DEF TypeOK, MemoryOK, Stage, InSlot
    <2> QED
      BY <2>1, <2>2
  <1>5. NoStoreAfterRelease'
    BY DEF TypeOK, NoStoreAfterRelease
  <1>6. FreeSlotsAsCreated' /\ CorrectSecret'
    BY <1>0 DEF TypeOK, MemoryOK, FreeSlotsAsCreated, CorrectSecret
  <1> QED
    BY <1>1, <1>2, <1>3, <1>4, <1>5, <1>6

\* The slot is given back once all of its wipes have landed.
LEMMA ReleaseInv ==
  ASSUME IInv, NEW t \in Threads, Release(t)
  PROVE  IInv'
  <1> USE DEF IInv, Release, Goto, memVars
  <1>0. /\ idx[t] \in Slots /\ InSlot(t)
        /\ encaps[idx[t]] = NewSlot /\ decrypt[idx[t]] = NewDecrypt
        /\ NewSlot \in Created /\ result[t] = Decaps(arg[t])
    BY DEF TypeOK, Stage, InSlot, Created
  <1>1. TypeOK'
    BY SlotRange DEF TypeOK, InSlot
  <1>2. MemoryOK'
    BY DEF MemoryOK
  <1>3. Exclusive'
    BY <1>0 DEF TypeOK, Exclusive, InSlot
  <1>4. ASSUME NEW u \in Threads PROVE Stage(u)'
    BY DEF TypeOK, Stage
  <1>5. ASSUME NEW u \in Threads, NEW w \in unseen'[u]
        PROVE  pc'[u] \in {"wipe_decrypt", "release"} /\ w[1] = idx'[u] /\ is_free'[idx'[u]] = 0
    <2>1. u # t
      BY <1>5
    <2>2. pc[u] \in {"wipe_decrypt", "release"} /\ w[1] = idx[u] /\ is_free[idx[u]] = 0
      BY <1>5 DEF NoStoreAfterRelease
    <2>3. idx[u] # idx[t]
      BY <1>0, <2>1, <2>2 DEF Exclusive, InSlot
    <2> QED
      BY <2>1, <2>2, <2>3 DEF TypeOK
  <1>6. FreeSlotsAsCreated'
    BY <1>0 DEF TypeOK, FreeSlotsAsCreated
  <1>7. CorrectSecret'
    BY <1>0 DEF TypeOK, CorrectSecret
  <1> QED
    BY <1>1, <1>2, <1>3, <1>4, <1>5, <1>6, <1>7 DEF NoStoreAfterRelease

LEMMA InvStep == IInv /\ [Next]_vars => IInv'
  <1> SUFFICES ASSUME IInv, [Next]_vars PROVE IInv'
    OBVIOUS
  <1>1. CASE UNCHANGED vars
    BY <1>1 DEF vars, IInv, TypeOK, MemoryOK, Exclusive, Stage, InSlot,
                NoStoreAfterRelease, FreeSlotsAsCreated, CorrectSecret
  <1>2. ASSUME NEW t \in Threads, NEW c \in Ciphertexts,
               Call(t, c) \/ Invalid(t, c)
        PROVE  IInv'
    BY <1>2, CallStep
  <1>3. ASSUME NEW t \in Threads, Work(t) PROVE IInv'
    BY <1>3, AcquireInv, BusyInv, DecryptStepInv, ReencapsStepInv, SelectStepInv,
       WipeStepInv, DrainInv, ReleaseInv DEF Work
  <1> QED
    BY <1>1, <1>2, <1>3 DEF Next

\* Every state of the pool, whatever calls interleave in it, satisfies the
\* inductive invariant above.
THEOREM Invariance == Spec => []IInv
  BY InitInv, InvStep, PTL DEF Spec

-----------------------------------------------------------------------------
(* The results *)

\* The states of ml_kem_decaps_core are well typed.
THEOREM TypeCorrect == Spec => []TypeOK
  BY Invariance, PTL DEF IInv

\* Every successful decapsulation returns the secret of its own ciphertext,
\* for any number of concurrent calls and any reuse of the slots.
THEOREM SecretsCorrect == Spec => []CorrectSecret
  BY Invariance, PTL DEF IInv

\* ml_kem_wipe_encaps and ml_kem_wipe_decrypt, which run before the release,
\* return each slot to the state the next call depends on.
THEOREM SlotsClean == Spec => []FreeSlotsAsCreated
  BY Invariance, PTL DEF IInv

\* The wipe of a call never reaches a slot that has another user.
THEOREM WipesContained == Spec => []NoStoreAfterRelease
  BY Invariance, PTL DEF IInv

-----------------------------------------------------------------------------
(* Refinement *)

Held == [t \in Threads |-> IF InSlot(t) THEN "hold" ELSE pc[t]]

\* A call moves one caller; the others are where they were.
LEMMA HeldStep ==
  ASSUME NEW t \in Threads, NEW from, NEW to, TypeOK, Goto(t, from, to)
  PROVE  /\ Held[t] = IF from \in {"out", "scan"} THEN from ELSE "hold"
         /\ Held' = [Held EXCEPT ![t] = IF to \in {"out", "scan"} THEN to ELSE "hold"]
  BY DEF Goto, TypeOK, Held, InSlot

LEMMA PoolStep ==
  ASSUME IInv, [Next]_vars
  PROVE  [Pool!Next]_(Pool!vars)
  <1> USE DEF IInv
  <1> DEFINE Same == is_free' = is_free /\ Held' = Held /\ idx' = idx
  <1>1. ASSUME NEW t \in Threads, NEW c \in Ciphertexts, Call(t, c)
        PROVE  Pool!Enter(t)
    <2>1. Held[t] = "out" /\ Held' = [Held EXCEPT ![t] = "scan"]
      BY <1>1, HeldStep DEF Call
    <2>2. idx' = [idx EXCEPT ![t] = 0] /\ is_free' = is_free
      BY <1>1 DEF Call, Goto, Stage, TypeOK
    <2> QED
      BY <2>1, <2>2 DEF Pool!Enter, Held
  <1>2. ASSUME NEW t \in Threads, NEW c \in Ciphertexts, Invalid(t, c)
        PROVE  Same
    BY <1>2 DEF Invalid, poolVars, Held, InSlot
  <1>3. ASSUME NEW t \in Threads, TryAcquire(t)
        PROVE  Pool!Acquire(t) \/ Pool!Skip(t)
    <2>1. CASE is_free[idx[t]] = 1
      <3>1. Held[t] = "scan" /\ Held' = [Held EXCEPT ![t] = "hold"]
        BY <1>3, <2>1, HeldStep DEF TryAcquire
      <3>2. /\ idx[t] \in Slots /\ idx' = idx
            /\ is_free' = [is_free EXCEPT ![idx[t]] = 0]
        BY <1>3, <2>1 DEF TryAcquire
      <3> QED
        BY <2>1, <3>1, <3>2 DEF Pool!Acquire, Pool!Slots, Slots, Held
    <2>2. CASE is_free[idx[t]] # 1
      <3>1. Held[t] = "scan" /\ Held' = Held
        BY <1>3, <2>2 DEF TryAcquire, Held, InSlot
      <3>2. /\ idx[t] \in Slots /\ idx' = [idx EXCEPT ![t] = @ + 1]
            /\ is_free' = is_free
        BY <1>3, <2>2 DEF TryAcquire
      <3> QED
        BY <2>2, <3>1, <3>2 DEF Pool!Skip, Pool!Slots, Slots, Held
    <2> QED
      BY <2>1, <2>2
  <1>4. ASSUME NEW t \in Threads, Busy(t)
        PROVE  Pool!Busy(t)
    <2>1. Held[t] = "scan" /\ Held' = [Held EXCEPT ![t] = "out"]
      BY <1>4, HeldStep DEF Busy
    <2> QED
      BY <1>4, <2>1 DEF Busy, Pool!Busy, Held
  <1>5. ASSUME NEW t \in Threads,
               NEW from \in {"decrypt", "reencaps", "select", "wipe_encaps", "wipe_decrypt"},
               NEW to \in {"reencaps", "select", "wipe_encaps", "wipe_decrypt", "release"},
               Goto(t, from, to), UNCHANGED <<is_free, idx>>
        PROVE  Same
    <2>1. Held[t] = "hold" /\ Held' = [Held EXCEPT ![t] = "hold"]
      BY <1>5, HeldStep
    <2>2. Held' = Held
      BY <2>1 DEF Held
    <2> QED
      BY <1>5, <2>2
  <1>6. ASSUME NEW t \in Threads, NEW s \in Slots,
               NEW part \in {"encaps", "decrypt"}, Drain(t, s, part)
        PROVE  Same
    BY <1>6 DEF Drain, poolVars, Held, InSlot
  <1>7. ASSUME NEW t \in Threads, Release(t)
        PROVE  Pool!Release(t)
    <2>1. Held[t] = "hold" /\ Held' = [Held EXCEPT ![t] = "out"]
      BY <1>7, HeldStep DEF Release
    <2> QED
      BY <1>7, <2>1 DEF Release, Pool!Release, Held
  <1>8. CASE UNCHANGED vars
    BY <1>8 DEF vars, Pool!vars, InSlot
  <1>9. ASSUME Same PROVE UNCHANGED Pool!vars
    BY <1>9 DEF Pool!vars, Held
  <1>10. ASSUME NEW t \in Threads, Work(t)
         PROVE  Same \/ Pool!Step(t)
    <2>1. CASE \/ DecryptStep(t) \/ ReencapsStep(t) \/ SelectStep(t)
               \/ WipeStep(t, "wipe_encaps", "encaps", "wipe_decrypt")
               \/ WipeStep(t, "wipe_decrypt", "decrypt", "release")
      <3> HIDE DEF Same
      <3> QED
        BY <1>5, <2>1 DEF DecryptStep, ReencapsStep, SelectStep, WipeStep
    <2> QED
      BY <1>3, <1>4, <1>6, <1>7, <1>10, <2>1 DEF Work, Pool!Step
  <1> QED
    BY <1>1, <1>2, <1>8, <1>9, <1>10 DEF Next, Pool!Next

\* Seen from the flags, ml_kem_decaps_core is the scan protocol of SlotPool:
\* what SlotPoolProofs proves of the protocol holds of decapsulation.
THEOREM DecapsImplementsPool == Spec => ImplementsPool
  <1>1. Init => Pool!Init
    BY DEF Init, Pool!Init, Pool!Slots, Slots, InSlot
  <1>2. IInv /\ [Next]_vars => [Pool!Next]_(Pool!vars)
    BY PoolStep
  <1> QED
    BY <1>1, <1>2, Invariance, PTL DEF Spec, ImplementsPool, Pool!Spec

-----------------------------------------------------------------------------
(* Sender and receiver *)

\* The sender's side: the context in which the same routine, called by
\* ml_kem_encaps_core, encapsulated m under the key of the pool.  Left is the
\* unpacked key that an earlier call left in the context, of whatever key.
Sender(left, m) == EncapsulateFresh(NewContext(Pk, left), m)

\* A call that returned 0 gave a sender's ciphertext the secret in the context
\* of that sender, and a forged one the fallback.
Agreement(left) ==
  \A t \in Threads : ret[t] = "ok" =>
    /\ \A m \in Messages :
         arg[t] = Sender(left, m).ciphertext => result[t] = Sender(left, m).K_bar
    /\ arg[t] \in Forged => result[t] = Fallback(arg[t])

\* The sender unpacks the key first, the receiver's slot has it: from there on
\* both go the same way.
LEMMA SenderCorrect ==
  ASSUME NEW left, NEW m
  PROVE  /\ Sender(left, m).ciphertext = EncapsCiphertext(Pk, m)
         /\ Sender(left, m).K_bar = EncapsSecret(Pk, m)
  <1>1. UnpackKey(NewContext(Pk, left)) = NewSlot
    BY DEF UnpackKey, NewContext, NewSlot
  <1>2. Sender(left, m) = Reencapsulate(NewSlot, m, Hash(Pk))
    BY <1>1 DEF Sender, EncapsulateFresh, Reencapsulate, NewContext
  <1>3. IsContext(NewSlot) /\ NewSlot.u = Zero /\ NewSlot.v = Zero
    BY CreatedContext DEF Created
  <1> QED
    BY <1>2, <1>3, ReencapsulateCorrect

\* Decryption of an honest ciphertext finds its message and no other.
LEMMA HonestMessage ==
  ASSUME NEW m \in Messages
  PROVE  Decaps(EncapsCiphertext(Pk, m)) = EncapsSecret(Pk, m)
  <1> DEFINE c == EncapsCiphertext(Pk, m)
  <1>1. c \notin Forged
    BY DecapsPoolAssumption DEF Honest
  <1>2. \A n \in Messages : c = EncapsCiphertext(Pk, n) => n = m
    BY DEF EncapsCiphertext, Ciphertext, Derive
  <1>3. DecryptsTo(c) = m
    BY <1>1, <1>2 DEF DecryptsTo
  <1> QED
    BY <1>3 DEF Decaps

\* A forged ciphertext is not the encryption of the message found in it.
LEMMA ForgedRejected ==
  ASSUME NEW c \in Forged
  PROVE  Decaps(c) = Fallback(c)
  <1>1. Plain[c] \in Messages /\ DecryptsTo(c) = Plain[c]
    BY DecapsPoolAssumption DEF DecryptsTo
  <1>2. EncapsCiphertext(Pk, Plain[c]) # c
    BY <1>1, DecapsPoolAssumption DEF Honest
  <1> QED
    BY <1>1, <1>2 DEF Decaps

\* Sender and receiver agree in every state of every behaviour: whatever ran in
\* the receiver's slot before and runs beside it, and whatever key the sender's
\* context held before, ml_kem_decaps_core returns the secret that
\* ml_kem_encapsulation left in the sender's context, and the fallback for a
\* ciphertext no sender made.
THEOREM HonestAgreement ==
  ASSUME NEW left
  PROVE  Spec => []Agreement(left)
  <1>1. CorrectSecret => Agreement(left)
    <2> SUFFICES ASSUME CorrectSecret, NEW t \in Threads, ret[t] = "ok"
                 PROVE  /\ \A m \in Messages :
                             arg[t] = Sender(left, m).ciphertext =>
                               result[t] = Sender(left, m).K_bar
                        /\ arg[t] \in Forged => result[t] = Fallback(arg[t])
      BY DEF Agreement
    <2>1. result[t] = Decaps(arg[t])
      BY DEF CorrectSecret
    <2>2. ASSUME NEW m \in Messages, arg[t] = Sender(left, m).ciphertext
          PROVE  result[t] = Sender(left, m).K_bar
      BY <2>1, <2>2, SenderCorrect, HonestMessage
    <2>3. ASSUME arg[t] \in Forged
          PROVE  result[t] = Fallback(arg[t])
      BY <2>1, <2>3, ForgedRejected
    <2> QED
      BY <2>2, <2>3
  <1> QED
    BY <1>1, SecretsCorrect, PTL
=============================================================================
