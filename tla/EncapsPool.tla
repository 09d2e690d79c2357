----------------------------- MODULE EncapsPool -----------------------------
(***************************************************************************)
(* ml_kem_encaps_core with its two kinds of working context: a slot of the *)
(* subpool that the sizes select, or a context allocated for this one call *)
(* when no pool is given.  An encapsulation pool belongs to no key: the    *)
(* slots of a level pass from call to call under different public keys.    *)
(*                                                                         *)
(* As in DecapsPool, the wiping stores of a call become visible to the     *)
(* other threads at any time until the release store of the flag.          *)
(***************************************************************************)
EXTENDS EncapsContext, FiniteSets, Functions, Integers

CONSTANTS
  Threads,     \* the callers
  Levels,      \* ML_KEM_512, ML_KEM_768, ML_KEM_1024
  PoolCount,   \* PoolCount[l]: ml_kem_pool_count of the subpool of level l, or 0
  Keys,        \* serialized public keys
  LevelOf,     \* LevelOf[pk]: the level whose sizes pk and its buffers have
  Messages,    \* what the entropy source can deliver
  Heap         \* tag of the contexts that belong to one call

ASSUME EncapsPoolAssumption ==
  /\ IsFiniteSet(Threads)
  /\ PoolCount \in [Levels -> Nat]
  /\ LevelOf \in [Keys -> Levels]
  /\ Heap \notin Levels
  /\ Zero \notin Keys \cup Messages

Slots == UNION {{l} \X (0 .. PoolCount[l] - 1) : l \in Levels}

VARIABLES
  is_free,   \* is_free[p]: the flag of slot p = <<level, index>>
  ctx,       \* ctx[p]: the context at p, a slot or <<Heap, t>>, where one exists
  unseen,    \* unseen[t]: places whose wipe by t is not visible to others yet
  pc, idx,   \* the step and the loop index (curr_slot while holding) of a caller
  pooled,    \* pooled[t]: whether t passed a pool
  pk,        \* pk[t]: the key t passed to its last call
  drawn,     \* drawn[t]: the message that call drew
  err,       \* err[t]: ret of ml_kem_encapsulation
  ret,       \* ret[t]: what the last call of t returned
  ct, ss     \* the caller's output buffers

memVars == <<is_free, ctx, unseen>>
outVars == <<ret, ct, ss>>
argVars == <<pooled, pk>>
vars == <<is_free, ctx, unseen, pc, idx, pooled, pk, drawn, err, ret, ct, ss>>

Init ==
  /\ is_free = [p \in Slots |-> 1]
  /\ ctx = [p \in Slots |-> NewContext(Zero, Zero)]
  /\ unseen = [t \in Threads |-> {}]
  /\ pc = [t \in Threads |-> "out"]
  /\ idx = [t \in Threads |-> 0]
  /\ pooled = [t \in Threads |-> FALSE]
  /\ pk \in [Threads -> Keys]
  /\ drawn = [t \in Threads |-> Zero]
  /\ err = [t \in Threads |-> "none"]
  /\ ret = [t \in Threads |-> "none"]
  /\ ct = [t \in Threads |-> Junk]
  /\ ss = [t \in Threads |-> Junk]

\* The slot the loop looks at, and the context the caller works in.
Candidate(t) == <<LevelOf[pk[t]], idx[t]>>
Place(t) == IF pooled[t] THEN Candidate(t) ELSE <<Heap, t>>

Goto(t, from, to) == pc[t] = from /\ pc' = [pc EXCEPT ![t] = to]

-----------------------------------------------------------------------------
(* The call up to its context *)

\* The output buffers of a call are the caller's; Junk is their content before.
Enter(t, r, to) ==
  /\ Goto(t, "out", to)
  /\ ret' = [ret EXCEPT ![t] = r]
  /\ ct' = [ct EXCEPT ![t] = Junk]
  /\ ss' = [ss EXCEPT ![t] = Junk]
  /\ UNCHANGED <<is_free, unseen, idx, drawn, err>>

\* A NULL pointer, sizes of no level, or a level without a subpool: -EINVAL.
Invalid(t) == Enter(t, "einval", "out") /\ UNCHANGED <<ctx, argVars>>

CallPool(t, k) ==
  /\ \/ PoolCount[LevelOf[k]] > 0 /\ Enter(t, "none", "scan")
     \/ PoolCount[LevelOf[k]] = 0 /\ Enter(t, "einval", "out")
  /\ pooled' = [pooled EXCEPT ![t] = TRUE]
  /\ pk' = [pk EXCEPT ![t] = k]
  /\ UNCHANGED ctx

\* The memory with a context e at the new place p.
Allocate(p, e) == [q \in DOMAIN ctx \cup {p} |-> IF q = p THEN e ELSE ctx[q]]

\* ml_kem_alloc_encaps copies the key, or fails and has freed what it got.
CallAlone(t, k) ==
  /\ pooled' = [pooled EXCEPT ![t] = FALSE]
  /\ pk' = [pk EXCEPT ![t] = k]
  /\ \/ Enter(t, "none", "encaps") /\ ctx' = Allocate(<<Heap, t>>, NewContext(k, Zero))
     \/ Enter(t, "enomem", "out") /\ UNCHANGED ctx

\* Slip used to test the properties: the flag is not tested.
TryAcquireUntested(t) ==
  /\ Candidate(t) \in Slots
  /\ Goto(t, "scan", "copy")
  /\ is_free' = [is_free EXCEPT ![Candidate(t)] = 0]
  /\ UNCHANGED <<ctx, unseen, idx, argVars, drawn, err, outVars>>

TryAcquire(t) ==
  /\ Candidate(t) \in Slots
  /\ \/ /\ is_free[Candidate(t)] = 1
        /\ Goto(t, "scan", "copy")
        /\ is_free' = [is_free EXCEPT ![Candidate(t)] = 0]
        /\ UNCHANGED idx
     \/ /\ is_free[Candidate(t)] # 1
        /\ pc[t] = "scan"
        /\ idx' = [idx EXCEPT ![t] = @ + 1]
        /\ UNCHANGED <<is_free, pc>>
  /\ UNCHANGED <<ctx, unseen, argVars, drawn, err, outVars>>

Busy(t) ==
  /\ Candidate(t) \notin Slots
  /\ Goto(t, "scan", "out")
  /\ idx' = [idx EXCEPT ![t] = 0]
  /\ ret' = [ret EXCEPT ![t] = "ebusy"]
  /\ UNCHANGED <<memVars, argVars, drawn, err, ct, ss>>

\* Slip used to test the properties: the slot keeps the key of its last user.
CopyKeyOnce(t) ==
  /\ Goto(t, "copy", "encaps")
  /\ ctx' = [ctx EXCEPT ![Place(t)].public_key_msg = IF @ = Zero THEN pk[t] ELSE @]
  /\ UNCHANGED <<is_free, unseen, idx, argVars, drawn, err, outVars>>

\* The slot gets the key of this call.
CopyKey(t) ==
  /\ Goto(t, "copy", "encaps")
  /\ ctx' = [ctx EXCEPT ![Place(t)].public_key_msg = pk[t]]
  /\ UNCHANGED <<is_free, unseen, idx, argVars, drawn, err, outVars>>

-----------------------------------------------------------------------------
(* Encapsulation, and the one cleanup path of success and failure *)

\* ml_kem_encapsulation with msg = NULL.  The entropy source never delivers a
\* message that some caller's last call drew.
EncapsulateStep(t, m) ==
  /\ \A u \in Threads : drawn[u] # m
  /\ Goto(t, "encaps", "output")
  /\ drawn' = [drawn EXCEPT ![t] = m]
  /\ err' = [err EXCEPT ![t] = "ok"]
  /\ ctx' = [ctx EXCEPT ![Place(t)] = EncapsulateFresh(@, m)]
  /\ UNCHANGED <<is_free, unseen, idx, argVars, outVars>>

\* Slip used to test the properties: the failure goes on to the output.
EntropyIgnored(t) ==
  /\ Goto(t, "encaps", "output")
  /\ err' = [err EXCEPT ![t] = "entropy_failed"]
  /\ UNCHANGED <<memVars, idx, argVars, drawn, outVars>>

\* Slip used to test the properties: the failure returns at once.
EntropyReturns(t) ==
  /\ Goto(t, "encaps", "out")
  /\ err' = [err EXCEPT ![t] = "none"]
  /\ ret' = [ret EXCEPT ![t] = "entropy_failed"]
  /\ idx' = [idx EXCEPT ![t] = 0]
  /\ UNCHANGED <<memVars, argVars, drawn, ct, ss>>

\* The entropy source fails before the context is touched: to the cleanup.
EntropyFails(t) ==
  /\ Goto(t, "encaps", "wipe")
  /\ err' = [err EXCEPT ![t] = "entropy_failed"]
  /\ UNCHANGED <<memVars, idx, argVars, drawn, outVars>>

\* Secret and ciphertext go to the caller.
Output(t) ==
  /\ Goto(t, "output", "wipe")
  /\ ss' = [ss EXCEPT ![t] = ctx[Place(t)].K_bar]
  /\ ct' = [ct EXCEPT ![t] = ctx[Place(t)].ciphertext]
  /\ UNCHANGED <<memVars, idx, argVars, drawn, err, ret>>

\* Slip used to test the properties: only the shared slots are wiped.
WipeSharedOnly(t) ==
  /\ Goto(t, "wipe", "leave")
  /\ IF pooled[t] THEN unseen' = [unseen EXCEPT ![t] = {Place(t)}] ELSE UNCHANGED unseen
  /\ UNCHANGED <<is_free, ctx, idx, argVars, drawn, err, outVars>>

\* ml_kem_wipe_encaps.  Nobody else looks into the context of a single call.
Wipe(t) ==
  /\ Goto(t, "wipe", "leave")
  /\ \/ pooled[t] /\ unseen' = [unseen EXCEPT ![t] = {Place(t)}] /\ UNCHANGED ctx
     \/ ~pooled[t] /\ ctx' = [ctx EXCEPT ![Place(t)] = WipeEncaps(@)] /\ UNCHANGED unseen
  /\ UNCHANGED <<is_free, idx, argVars, drawn, err, outVars>>

Drain(t, p) ==
  /\ p \in unseen[t]
  /\ unseen' = [unseen EXCEPT ![t] = @ \ {p}]
  /\ ctx' = [ctx EXCEPT ![p] = WipeEncaps(@)]
  /\ UNCHANGED <<is_free, pc, idx, argVars, drawn, err, outVars>>

Return(t) ==
  /\ Goto(t, "leave", "out")
  /\ idx' = [idx EXCEPT ![t] = 0]
  /\ ret' = [ret EXCEPT ![t] = err[t]]
  /\ err' = [err EXCEPT ![t] = "none"]
  /\ UNCHANGED <<argVars, drawn, ct, ss>>

\* Slip used to test the properties: the flag is stored with relaxed order.
ReleaseRelaxed(t) ==
  /\ pooled[t]
  /\ Return(t)
  /\ is_free' = [is_free EXCEPT ![Place(t)] = 1]
  /\ UNCHANGED <<ctx, unseen>>

\* ml_kem_release_slot: the wipe is visible before the flag.
Release(t) ==
  /\ pooled[t]
  /\ unseen[t] = {}
  /\ Return(t)
  /\ is_free' = [is_free EXCEPT ![Place(t)] = 1]
  /\ UNCHANGED <<ctx, unseen>>

\* ml_kem_destroy_encaps frees the context of the call.
Destroy(t) ==
  /\ ~pooled[t]
  /\ Return(t)
  /\ ctx' = Restrict(ctx, DOMAIN ctx \ {Place(t)})
  /\ UNCHANGED <<is_free, unseen>>

-----------------------------------------------------------------------------

Next ==
  \E t \in Threads :
    \/ Invalid(t)
    \/ \E k \in Keys : CallPool(t, k) \/ CallAlone(t, k)
    \/ TryAcquire(t) \/ Busy(t) \/ CopyKey(t)
    \/ (\E m \in Messages : EncapsulateStep(t, m)) \/ EntropyFails(t)
    \/ Output(t) \/ Wipe(t)
    \/ \E p \in Slots : Drain(t, p)
    \/ Release(t) \/ Destroy(t)

Spec == Init /\ [][Next]_vars

-----------------------------------------------------------------------------
(* Properties *)

Working(t) == pc[t] \notin {"out", "scan"}

Errors == {"none", "einval", "enomem", "ebusy", "entropy_failed"}

TypeOK ==
  /\ is_free \in [Slots -> {0, 1}]
  /\ Slots \subseteq DOMAIN ctx /\ DOMAIN ctx \subseteq Slots \cup ({Heap} \X Threads)
  /\ unseen \in [Threads -> SUBSET Slots]
  /\ pc \in [Threads -> {"out", "scan", "copy", "encaps", "output", "wipe", "leave"}]
  /\ \A t \in Threads : idx[t] \in 0 .. PoolCount[LevelOf[pk[t]]]
  /\ \A t \in Threads : Working(t) => Place(t) \in DOMAIN ctx
  /\ pooled \in [Threads -> BOOLEAN]
  /\ pk \in [Threads -> Keys]
  /\ drawn \in [Threads -> Messages \cup {Zero}]
  /\ err \in [Threads -> {"none", "ok", "entropy_failed"}]
  /\ ret \in [Threads -> Errors \cup {"ok"}]

\* A successful call returns a ciphertext and a secret that belong together
\* and to the key it was given, made from the message it drew itself, whoever
\* used the slot before, under whatever key.
OutputsMatch ==
  \A t \in Threads : ret[t] = "ok" =>
    /\ drawn[t] \in Messages
    /\ ct[t] = EncapsCiphertext(pk[t], drawn[t])
    /\ ss[t] = EncapsSecret(pk[t], drawn[t])

\* A call that returns an error has written neither of the output buffers
\* (ml_kem.c:287, "Write both output values only after successful encapsulation").
NoOutputOnError ==
  \A t \in Threads : ret[t] \in Errors /\ pc[t] = "out" =>
    ct[t] = Junk /\ ss[t] = Junk

\* A slot marked free holds nothing of its last call but public keys: the
\* accumulators the next call adds to are zero.
FreeSlotsWiped ==
  \A p \in Slots : is_free[p] = 1 =>
    ctx[p] = NewContext(ctx[p].public_key_msg, ctx[p].public_key)

\* The context of a single call exists exactly while its call runs: none is
\* leaked and none is used after it was freed, on the error path either.
HeapMatchesCalls ==
  /\ TypeOK
  /\ \A t \in Threads :
       <<Heap, t>> \in DOMAIN ctx <=> Working(t) /\ ~pooled[t]

\* No secret is left in a context that is freed.
WipedBeforeFree ==
  [][\A t \in Threads :
       <<Heap, t>> \in DOMAIN ctx \ DOMAIN ctx' =>
         LET e == ctx[<<Heap, t>>] IN
         e = NewContext(e.public_key_msg, e.public_key)]_vars

-----------------------------------------------------------------------------
(* Refinement *)

\* Seen from the flags of level l, the callers with a key of that level run
\* the protocol of SlotPool and the others stay outside.
Pool(l) == INSTANCE SlotPool WITH
  PoolCount <- PoolCount[l],
  is_free <- [s \in 0 .. PoolCount[l] - 1 |-> is_free[<<l, s>>]],
  pc <- [t \in Threads |->
           IF LevelOf[pk[t]] # l \/ ~pooled[t] THEN "out"
           ELSE IF Working(t) THEN "hold" ELSE pc[t]],
  idx <- [t \in Threads |-> IF LevelOf[pk[t]] # l THEN 0 ELSE idx[t]]

\* Pool(l)!Spec for every level that has a subpool, as one action property: the
\* levels do not disturb each other's flags.
ImplementsPools ==
  /\ \A l \in Levels : PoolCount[l] > 0 => Pool(l)!Init
  /\ [][\A l \in Levels : PoolCount[l] > 0 =>
          Pool(l)!Next \/ UNCHANGED Pool(l)!vars]_vars
=============================================================================
