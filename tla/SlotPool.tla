------------------------------ MODULE SlotPool ------------------------------
(***************************************************************************)
(* The lock-free slot protocol of the decapsulation pool and of each       *)
(* encapsulation subpool: a caller walks the slot array from index 0, tries *)
(* to turn the flag is_free of each slot from 1 to 0 with one atomic        *)
(* compare-and-swap, works in the first slot it wins, and stores 1 in the   *)
(* flag when it is done.  A caller that walks past the last slot returns    *)
(* -EBUSY.  Nothing blocks and nothing is queued.                          *)
(***************************************************************************)
EXTENDS FiniteSets, Integers

CONSTANTS
  Threads,    \* the callers that share the pool
  PoolCount   \* ml_kem_pool_count, the number of slots

\* ml_kem_create_object and create_encaps_pool reject a pool of 0 slots; the
\* upper bound ML_KEM_MAX_POOL_SLOTS = 128 plays no part in the protocol.
ASSUME SlotPoolAssumption ==
  /\ IsFiniteSet(Threads)
  /\ PoolCount \in Nat \ {0}

Slots == 0 .. PoolCount - 1

\* The grant of a caller without a slot; an index no slot has.
NoSlot == PoolCount

VARIABLES
  is_free,    \* is_free[s]: the atomic flag of slot s, 1 when free
  pc,         \* pc[t]: "out" of a call, "scan"ning, or "hold"ing a slot
  idx         \* idx[t]: loop index i while scanning, curr_slot while holding

vars == <<is_free, pc, idx>>

Init ==
  /\ is_free = [s \in Slots |-> 1]
  /\ pc = [t \in Threads |-> "out"]
  /\ idx = [t \in Threads |-> 0]

\* A call that passed its argument checks starts the loop at i = 0.
Enter(t) ==
  /\ pc[t] = "out"
  /\ pc' = [pc EXCEPT ![t] = "scan"]
  /\ idx' = [idx EXCEPT ![t] = 0]
  /\ UNCHANGED is_free

\* Slips used to test the properties: the result of the compare-and-swap is
\* ignored; the scan gives up at the first occupied slot; it starts over
\* instead of ending; the sentinel curr_slot is used as a slot; the flag of
\* the slot is not set back.
AcquireUntested(t) ==
  /\ pc[t] = "scan"
  /\ idx[t] \in Slots
  /\ is_free' = [is_free EXCEPT ![idx[t]] = 0]
  /\ pc' = [pc EXCEPT ![t] = "hold"]
  /\ UNCHANGED idx

SkipAll(t) ==
  /\ pc[t] = "scan"
  /\ idx[t] \in Slots
  /\ is_free[idx[t]] # 1
  /\ idx' = [idx EXCEPT ![t] = PoolCount]
  /\ UNCHANGED <<is_free, pc>>

SkipAround(t) ==
  /\ pc[t] = "scan"
  /\ idx[t] \in Slots
  /\ is_free[idx[t]] # 1
  /\ idx' = [idx EXCEPT ![t] = (@ + 1) % PoolCount]
  /\ UNCHANGED <<is_free, pc>>

BusyUnchecked(t) ==
  /\ pc[t] = "scan"
  /\ idx[t] = PoolCount
  /\ pc' = [pc EXCEPT ![t] = "hold"]
  /\ UNCHANGED <<is_free, idx>>

ReleaseLeak(t) ==
  /\ pc[t] = "hold"
  /\ pc' = [pc EXCEPT ![t] = "out"]
  /\ idx' = [idx EXCEPT ![t] = 0]
  /\ UNCHANGED is_free

\* ml_kem_try_acquire_slot finds the flag 1, sets it to 0 and returns true.
Acquire(t) ==
  /\ pc[t] = "scan"
  /\ idx[t] \in Slots
  /\ is_free[idx[t]] = 1
  /\ is_free' = [is_free EXCEPT ![idx[t]] = 0]
  /\ pc' = [pc EXCEPT ![t] = "hold"]
  /\ UNCHANGED idx

\* It finds the flag 0 and returns false: on to the next slot.
Skip(t) ==
  /\ pc[t] = "scan"
  /\ idx[t] \in Slots
  /\ is_free[idx[t]] # 1
  /\ idx' = [idx EXCEPT ![t] = @ + 1]
  /\ UNCHANGED <<is_free, pc>>

\* The loop ended without a slot: return -EBUSY.
Busy(t) ==
  /\ pc[t] = "scan"
  /\ idx[t] = PoolCount
  /\ pc' = [pc EXCEPT ![t] = "out"]
  /\ idx' = [idx EXCEPT ![t] = 0]
  /\ UNCHANGED is_free

\* ml_kem_release_slot stores 1, whatever the flag holds, and the call returns.
Release(t) ==
  /\ pc[t] = "hold"
  /\ is_free' = [is_free EXCEPT ![idx[t]] = 1]
  /\ pc' = [pc EXCEPT ![t] = "out"]
  /\ idx' = [idx EXCEPT ![t] = 0]

Step(t) == Acquire(t) \/ Skip(t) \/ Busy(t) \/ Release(t)

Next == \E t \in Threads : Enter(t) \/ Step(t)

Spec == Init /\ [][Next]_vars

\* A thread inside a call keeps running; no thread is obliged to call.
Fairness == \A t \in Threads : WF_vars(Step(t))

FairSpec == Spec /\ Fairness

-----------------------------------------------------------------------------
(* Safety *)

TypeOK ==
  /\ is_free \in [Slots -> {0, 1}]
  /\ pc \in [Threads -> {"out", "scan", "hold"}]
  /\ idx \in [Threads -> 0 .. PoolCount]
  /\ \A t \in Threads : pc[t] = "hold" => idx[t] \in Slots

\* No slot, with the working memory behind it, is ever in the hands of two
\* callers (the scan of ml_kem.c:349-357 and the release at 377).
MutualExclusion ==
  \A t, u \in Threads :
    pc[t] = "hold" /\ pc[u] = "hold" /\ idx[t] = idx[u] => t = u

\* A slot is marked occupied exactly while some caller holds it: no slot is
\* lost to the pool on any path, and none is free while in use.
FlagsMatchHolders ==
  \A s \in Slots :
    is_free[s] = 0 <=> \E t \in Threads : pc[t] = "hold" /\ idx[t] = s

\* A slot is marked occupied exactly while one caller holds it: the scan of
\* ml_kem.c:349-357 and the release at 377 neither share a slot nor lose one.
ExclusiveUse == MutualExclusion /\ FlagsMatchHolders

\* The callers that got as far as slot i: they hold i or a later slot, or they
\* walk the array and have found every slot before i occupied.
Reached(i) == {t \in Threads : pc[t] # "out" /\ idx[t] >= i}

\* Whoever walked past slot i left its holder behind, so of n callers at most
\* n - i get as far as slot i, whatever was released in the meantime.
ScanBound ==
  \A i \in 0 .. PoolCount :
    Reached(i) # {} => Cardinality(Reached(i)) + i <= Cardinality(Threads)

\* The loop gives up (-EBUSY, ml_kem.c:360) only if the callers outnumber the
\* slots: an application with at most ml_kem_pool_count threads never sees it,
\* even though slots are taken and released behind the back of the scan.
BusyOnlyIfOverbooked ==
  \A t \in Threads :
    pc[t] = "scan" /\ idx[t] = PoolCount => Cardinality(Threads) > PoolCount

-----------------------------------------------------------------------------
(* Liveness *)

\* Every call returns: the scan is bounded and waits for nobody, and a holder
\* leaves.
EveryCallReturns == \A t \in Threads : pc[t] # "out" ~> pc[t] = "out"

\* Callers that retry on -EBUSY, as the pool tests do.
RetrySpec == FairSpec /\ \A t \in Threads : WF_vars(Enter(t))

\* Under contention some caller always gets through, though not each of them:
\* with every caller retrying, slots are won again and again.
SomeoneGetsThrough == []<><<\E t \in Threads : Acquire(t)>>_vars

\* A caller that retries where there is a slot for every caller gets through
\* itself, each time.
EveryoneGetsThrough ==
  Cardinality(Threads) <= PoolCount
    => \A t \in Threads : []<><<Acquire(t)>>_vars

-----------------------------------------------------------------------------
(* Refinement: a slot is granted at the successful compare-and-swap. *)

Asking == {t \in Threads : pc[t] = "scan"}
Granted == [t \in Threads |-> IF pc[t] = "hold" THEN idx[t] ELSE NoSlot]

Lease == INSTANCE SlotLease WITH asking <- Asking, grant <- Granted

\* The scan keeps the promise of SlotLease: exclusive leases, and no refusal
\* unless the callers outnumber the slots.
ImplementsLease == Lease!Spec
=============================================================================
