----------------------------- MODULE DecapsPool -----------------------------
(***************************************************************************)
(* ml_kem_decaps_core on the pool of one key: a caller wins a slot, runs   *)
(* decryption, re-encryption and the selection of the secret in the memory *)
(* of the slot, wipes it and releases it.  The memory of a slot is shared: *)
(* whoever works in slot s reads and writes decrypt[s] and encaps[s].      *)
(*                                                                         *)
(* The wiping stores are plain stores, the last ones of a call to each     *)
(* buffer.  They become visible to the other threads one by one, at any    *)
(* time; the release store of the flag is ordered after them.              *)
(***************************************************************************)
EXTENDS EncapsContext, FiniteSets, Integers

CONSTANTS
  Threads,      \* the callers that share the pool
  PoolCount,    \* ml_kem_pool_count
  Pk, Z,        \* the key of the pool: its public key and its seed z
  Messages,     \* the messages an honest sender encapsulates
  Forged,       \* ciphertexts that no encapsulation under Pk produces
  Plain,        \* Plain[c]: the message decryption finds in the forged c
  FULL_MATRIX   \* whether the pool expands the matrix when it is created

Slots == 0 .. PoolCount - 1

\* Honest ciphertexts decrypt to their message, forged ones to some message.
Honest == {EncapsCiphertext(Pk, m) : m \in Messages}
Ciphertexts == Honest \cup Forged

ASSUME DecapsPoolAssumption ==
  /\ IsFiniteSet(Threads)
  /\ PoolCount \in Nat \ {0}
  /\ Plain \in [Forged -> Messages]
  /\ Junk \notin Ciphertexts
  /\ Forged \cap Honest = {}
  /\ FULL_MATRIX \in BOOLEAN

DecryptsTo(c) ==
  IF c \in Forged THEN Plain[c]
  ELSE CHOOSE m \in Messages : c = EncapsCiphertext(Pk, m)

\* SHAKE256(z || c), the secret of a rejected ciphertext.
Fallback(c) == <<Z, c>>

\* The reference: what decapsulation of c must return, as one function.
Decaps(c) ==
  LET m == DecryptsTo(c) IN
  IF EncapsCiphertext(Pk, m) = c THEN EncapsSecret(Pk, m) ELSE Fallback(c)

VARIABLES
  is_free, pc, idx,   \* as in SlotPool, with pc naming the step of the caller
  decrypt,            \* decrypt[s]: the decryption context of slot s
  encaps,             \* encaps[s]: the re-encapsulation context of slot s
  unseen,             \* unseen[t]: <<slot, part>> wipes not yet visible to others
  arg,                \* arg[t]: the ciphertext t passed to its last call
  ret,                \* ret[t]: what that call returned
  result              \* result[t]: the caller's 32-byte result buffer

poolVars == <<is_free, pc, idx>>
memVars == <<decrypt, encaps, unseen>>
callVars == <<arg, ret, result>>
vars == <<is_free, pc, idx, decrypt, encaps, unseen, arg, ret, result>>

\* The decryption context as ml_kem_alloc_decaps_pool leaves it: u and v are
\* one field, poly the accumulator, m the message collected bit by bit.
NewDecrypt == [ciphertext |-> Zero, uv |-> Zero, poly |-> Zero, m |-> Zero]

\* Each slot gets the packed key and unpacks it once.  With FULL_MATRIX the
\* expansion of the (public) matrix went through the buffer of slot 0.
NewSlot == NewContext(Pk, Vector(Pk))
Created == {NewSlot, [NewSlot EXCEPT !.raw_bytes = Rho(Pk)]}

Init ==
  /\ is_free = [s \in Slots |-> 1]
  /\ pc = [t \in Threads |-> "out"]
  /\ idx = [t \in Threads |-> 0]
  /\ decrypt = [s \in Slots |-> NewDecrypt]
  /\ encaps = [s \in Slots |->
       IF FULL_MATRIX /\ s = 0 THEN [NewSlot EXCEPT !.raw_bytes = Rho(Pk)] ELSE NewSlot]
  /\ unseen = [t \in Threads |-> {}]
  /\ arg = [t \in Threads |-> Zero]
  /\ ret = [t \in Threads |-> "none"]
  /\ result = [t \in Threads |-> Zero]

-----------------------------------------------------------------------------
(* The call and its scan for a slot *)

Goto(t, from, to) == pc[t] = from /\ pc' = [pc EXCEPT ![t] = to]

\* The arguments pass the checks.
Call(t, c) ==
  /\ Goto(t, "out", "scan")
  /\ arg' = [arg EXCEPT ![t] = c]
  /\ ret' = [ret EXCEPT ![t] = "none"]
  /\ result' = [result EXCEPT ![t] = Zero]
  /\ UNCHANGED <<is_free, idx, memVars>>

\* A pointer is NULL or a length is wrong: return -EINVAL before the scan.
Invalid(t, c) ==
  /\ pc[t] = "out"
  /\ arg' = [arg EXCEPT ![t] = c]
  /\ ret' = [ret EXCEPT ![t] = "einval"]
  /\ result' = [result EXCEPT ![t] = Zero]
  /\ UNCHANGED <<poolVars, memVars>>

\* Slips used to test the properties: the result of the compare-and-swap is
\* ignored; the scan starts over instead of ending.
TryAcquireUntested(t) ==
  /\ idx[t] \in Slots
  /\ Goto(t, "scan", "decrypt")
  /\ is_free' = [is_free EXCEPT ![idx[t]] = 0]
  /\ UNCHANGED <<idx, memVars, callVars>>

TryAcquireSpin(t) ==
  /\ idx[t] \in Slots
  /\ \/ /\ is_free[idx[t]] = 1
        /\ Goto(t, "scan", "decrypt")
        /\ is_free' = [is_free EXCEPT ![idx[t]] = 0]
        /\ UNCHANGED idx
     \/ /\ is_free[idx[t]] # 1
        /\ pc[t] = "scan"
        /\ idx' = [idx EXCEPT ![t] = (@ + 1) % PoolCount]
        /\ UNCHANGED <<is_free, pc>>
  /\ UNCHANGED <<memVars, callVars>>

\* One round of the scan: ml_kem_try_acquire_slot on the flag of slot i.
TryAcquire(t) ==
  /\ idx[t] \in Slots
  /\ \/ /\ is_free[idx[t]] = 1
        /\ Goto(t, "scan", "decrypt")
        /\ is_free' = [is_free EXCEPT ![idx[t]] = 0]
        /\ UNCHANGED idx
     \/ /\ is_free[idx[t]] # 1
        /\ pc[t] = "scan"
        /\ idx' = [idx EXCEPT ![t] = @ + 1]
        /\ UNCHANGED <<is_free, pc>>
  /\ UNCHANGED <<memVars, callVars>>

\* The scan ended without a slot: return -EBUSY.
Busy(t) ==
  /\ idx[t] = PoolCount
  /\ Goto(t, "scan", "out")
  /\ idx' = [idx EXCEPT ![t] = 0]
  /\ ret' = [ret EXCEPT ![t] = "ebusy"]
  /\ UNCHANGED <<is_free, memVars, arg, result>>

-----------------------------------------------------------------------------
(* The work in the slot *)

\* ml_kem_decrypt: poly accumulates <u, s>, each bit of poly is or-ed into m.
Decrypt(d, c) ==
  LET poly == AddInto(d.poly, c)
      m == IF poly = Junk THEN Junk ELSE DecryptsTo(c)
  IN  [ciphertext |-> c, uv |-> c, poly |-> poly,
       m |-> IF d.m \in {Zero, m} THEN m ELSE Junk]

DecryptStep(t) ==
  LET s == idx[t] IN
  /\ Goto(t, "decrypt", "reencaps")
  /\ decrypt' = [decrypt EXCEPT ![s] = Decrypt(@, arg[t])]
  /\ UNCHANGED <<is_free, idx, encaps, unseen, callVars>>

\* ml_kem_encapsulation with the message found and the stored H(pk).
ReencapsStep(t) ==
  LET s == idx[t] IN
  /\ Goto(t, "reencaps", "select")
  /\ encaps' = [encaps EXCEPT ![s] = Reencapsulate(@, decrypt[s].m, Hash(Pk))]
  /\ UNCHANGED <<is_free, idx, decrypt, unseen, callVars>>

\* ml_kem_decaps_ct_select_ss: hash z || c in the XOF state of the slot,
\* compare the ciphertexts, write the secret the mask selects.  The 136-byte
\* block buff_for_rate, filled here before it is read, is zeroed before the
\* function returns.
SelectStep(t) ==
  LET s == idx[t] IN
  /\ Goto(t, "select", "wipe_encaps")
  /\ result' = [result EXCEPT ![t] =
       IF encaps[s].ciphertext = arg[t] THEN encaps[s].K_bar ELSE Fallback(arg[t])]
  /\ encaps' = [encaps EXCEPT ![s].raw_bytes = Fallback(arg[t])]
  /\ UNCHANGED <<is_free, idx, decrypt, unseen, arg, ret>>

-----------------------------------------------------------------------------
(* Wipe and release *)

\* ml_kem_wipe_decrypt: u, v, poly, the ciphertext and m.
WipeDecrypt(d) == NewDecrypt

\* The wiping functions run; their stores stay in the store buffer of t.
WipeStep(t, from, part, to) ==
  /\ Goto(t, from, to)
  /\ unseen' = [unseen EXCEPT ![t] = @ \cup {<<idx[t], part>>}]
  /\ UNCHANGED <<is_free, idx, decrypt, encaps, callVars>>

\* Stores of the wipe reach memory.
Drain(t, s, part) ==
  /\ <<s, part>> \in unseen[t]
  /\ unseen' = [unseen EXCEPT ![t] = @ \ {<<s, part>>}]
  /\ IF part = "encaps"
     THEN encaps' = [encaps EXCEPT ![s] = WipeEncaps(@)] /\ UNCHANGED decrypt
     ELSE decrypt' = [decrypt EXCEPT ![s] = WipeDecrypt(@)] /\ UNCHANGED encaps
  /\ UNCHANGED <<poolVars, callVars>>

\* Slip used to test the properties: the flag is stored with relaxed order.
ReleaseRelaxed(t) ==
  /\ Goto(t, "release", "out")
  /\ is_free' = [is_free EXCEPT ![idx[t]] = 1]
  /\ idx' = [idx EXCEPT ![t] = 0]
  /\ ret' = [ret EXCEPT ![t] = "ok"]
  /\ UNCHANGED <<memVars, arg, result>>

\* ml_kem_release_slot, a store with release order: all earlier stores of t

\* are visible to whoever sees the flag set.
Release(t) ==
  /\ Goto(t, "release", "out")
  /\ unseen[t] = {}
  /\ is_free' = [is_free EXCEPT ![idx[t]] = 1]
  /\ idx' = [idx EXCEPT ![t] = 0]
  /\ ret' = [ret EXCEPT ![t] = "ok"]
  /\ UNCHANGED <<memVars, arg, result>>

-----------------------------------------------------------------------------

Work(t) ==
  \/ TryAcquire(t)
  \/ Busy(t)
  \/ DecryptStep(t)
  \/ ReencapsStep(t)
  \/ SelectStep(t)
  \/ WipeStep(t, "wipe_encaps", "encaps", "wipe_decrypt")
  \/ WipeStep(t, "wipe_decrypt", "decrypt", "release")
  \/ \E s \in Slots, part \in {"encaps", "decrypt"} : Drain(t, s, part)
  \/ Release(t)

Next ==
  \E t \in Threads :
    \/ \E c \in Ciphertexts : Call(t, c) \/ Invalid(t, c)
    \/ Work(t)

Spec == Init /\ [][Next]_vars

\* A caller inside the library keeps running and its stores reach memory.
Fairness == \A t \in Threads : WF_vars(Work(t))

FairSpec == Spec /\ Fairness

-----------------------------------------------------------------------------
(* Properties *)

InSlot(t) == pc[t] \notin {"out", "scan"}

TypeOK ==
  /\ is_free \in [Slots -> {0, 1}]
  /\ pc \in [Threads -> {"out", "scan", "decrypt", "reencaps", "select",
                         "wipe_encaps", "wipe_decrypt", "release"}]
  /\ idx \in [Threads -> 0 .. PoolCount]
  /\ \A t \in Threads : InSlot(t) => idx[t] \in Slots
  /\ unseen \in [Threads -> SUBSET (Slots \X {"encaps", "decrypt"})]
  /\ arg \in [Threads -> Ciphertexts \cup {Zero}]
  /\ ret \in [Threads -> {"none", "ok", "einval", "ebusy"}]

\* Whatever ran in the slot before and whatever runs beside it, a call that
\* returns 0 has written the secret of its own ciphertext: the sender's secret
\* for an honest one, the fallback for a forged one.
CorrectSecret ==
  \A t \in Threads : ret[t] = "ok" => result[t] = Decaps(arg[t])

\* A slot marked free is as the pool created it: no ciphertext, message,
\* secret or partial sum of the last call is left in it, and its unpacked
\* key, which is not unpacked again, is still there.
FreeSlotsAsCreated ==
  \A s \in Slots : is_free[s] = 1 =>
    decrypt[s] = NewDecrypt /\ encaps[s] \in Created

\* No store of a call lands in the memory of its slot after the call gave the
\* slot back: every pending wipe belongs to the slot its thread still holds.
NoStoreAfterRelease ==
  \A t \in Threads : \A w \in unseen[t] :
    pc[t] \in {"wipe_decrypt", "release"} /\ w[1] = idx[t] /\ is_free[idx[t]] = 0

\* Every call is answered, with a secret or with an error.
EveryCallAnswered == \A t \in Threads : pc[t] = "scan" ~> pc[t] = "out"

-----------------------------------------------------------------------------
(* Refinement *)

\* Seen from the flags, a caller holds its slot from the compare-and-swap to
\* the release, and the work in the slot is invisible.
Pool == INSTANCE SlotPool WITH
  pc <- [t \in Threads |-> IF InSlot(t) THEN "hold" ELSE pc[t]]

ImplementsPool == Pool!Spec
=============================================================================
