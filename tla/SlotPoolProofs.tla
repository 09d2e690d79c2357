--------------------------- MODULE SlotPoolProofs ---------------------------
(***************************************************************************)
(* Proofs about SlotPool for every finite set of callers and every number  *)
(* of slots: the flags agree with the holders, a slot has one holder, the  *)
(* scan bound, -EBUSY only for an overbooked pool, and the refinement of   *)
(* SlotLease.                                                              *)
(***************************************************************************)
EXTENDS SlotPool, FiniteSetTheorems, TLAPS

\* The inductive invariant.  ScanBound needs FlagsMatchHolders: a slot a scan
\* walks past has a holder that stays behind.
IInv == TypeOK /\ FlagsMatchHolders /\ MutualExclusion /\ ScanBound

\* A subset of the callers is finite and no larger than the set it lies in.
LEMMA SubsetCardinality ==
  ASSUME NEW S \in SUBSET Threads, NEW T \in SUBSET Threads, S \subseteq T
  PROVE  /\ Cardinality(S) \in Nat
         /\ Cardinality(T) \in Nat
         /\ Cardinality(S) <= Cardinality(T)
  <1>1. IsFiniteSet(T)
    BY SlotPoolAssumption, FS_Subset
  <1>2. IsFiniteSet(S)
    BY SlotPoolAssumption, FS_Subset
  <1>3. Cardinality(S) <= Cardinality(T)
    BY <1>1, FS_Subset
  <1> QED
    BY <1>1, <1>2, <1>3, FS_CardinalityType

\* Initially every slot is free and nobody is in a call.
LEMMA InitInv == Init => IInv
  <1> SUFFICES ASSUME Init PROVE IInv
    OBVIOUS
  <1> USE SlotPoolAssumption DEF Init
  <1>1. TypeOK
    BY DEF TypeOK, Slots
  <1>2. FlagsMatchHolders /\ MutualExclusion
    BY DEF FlagsMatchHolders, MutualExclusion, Slots
  <1>3. \A i \in 0 .. PoolCount : Reached(i) = {}
    BY DEF Reached
  <1>4. ScanBound
    BY <1>3 DEF ScanBound
  <1> QED
    BY <1>1, <1>2, <1>4 DEF IInv

\* The type invariant is inductive on its own.
LEMMA TypeStep == TypeOK /\ [Next]_vars => TypeOK'
  <1> SUFFICES ASSUME TypeOK, [Next]_vars PROVE TypeOK'
    OBVIOUS
  <1> USE SlotPoolAssumption DEF TypeOK, Slots
  <1>1. ASSUME NEW t \in Threads, Enter(t) PROVE TypeOK'
    BY <1>1 DEF Enter
  <1>2. ASSUME NEW t \in Threads, Acquire(t) PROVE TypeOK'
    BY <1>2 DEF Acquire
  <1>3. ASSUME NEW t \in Threads, Skip(t) PROVE TypeOK'
    BY <1>3 DEF Skip
  <1>4. ASSUME NEW t \in Threads, Busy(t) PROVE TypeOK'
    BY <1>4 DEF Busy
  <1>5. ASSUME NEW t \in Threads, Release(t) PROVE TypeOK'
    BY <1>5 DEF Release
  <1>6. CASE UNCHANGED vars
    BY <1>6 DEF vars
  <1> QED
    BY <1>1, <1>2, <1>3, <1>4, <1>5, <1>6 DEF Next, Step

\* The flags keep telling who holds what: only the compare-and-swap clears a
\* flag, only the holder sets it, and no slot gets a second holder.
LEMMA FlagStep ==
  ASSUME TypeOK, FlagsMatchHolders, MutualExclusion, [Next]_vars
  PROVE  FlagsMatchHolders' /\ MutualExclusion'
  <1> USE SlotPoolAssumption DEF TypeOK, FlagsMatchHolders, MutualExclusion, Slots
  <1>1. ASSUME NEW t \in Threads, Enter(t)
        PROVE  FlagsMatchHolders' /\ MutualExclusion'
    BY <1>1 DEF Enter
  <1>2. ASSUME NEW t \in Threads, Acquire(t)
        PROVE  FlagsMatchHolders' /\ MutualExclusion'
    <2>1. MutualExclusion'
      BY <1>2 DEF Acquire
    <2>2. FlagsMatchHolders'
      BY <1>2 DEF Acquire
    <2> QED
      BY <2>1, <2>2
  <1>3. ASSUME NEW t \in Threads, Skip(t)
        PROVE  FlagsMatchHolders' /\ MutualExclusion'
    BY <1>3 DEF Skip
  <1>4. ASSUME NEW t \in Threads, Busy(t)
        PROVE  FlagsMatchHolders' /\ MutualExclusion'
    BY <1>4 DEF Busy
  <1>5. ASSUME NEW t \in Threads, Release(t)
        PROVE  FlagsMatchHolders' /\ MutualExclusion'
    <2>1. MutualExclusion'
      BY <1>5 DEF Release
    <2>2. FlagsMatchHolders'
      BY <1>5 DEF Release
    <2> QED
      BY <2>1, <2>2
  <1>6. CASE UNCHANGED vars
    BY <1>6 DEF vars
  <1> QED
    BY <1>1, <1>2, <1>3, <1>4, <1>5, <1>6 DEF Next, Step

\* If no more callers reach slot i than before, the bound for i is kept.
LEMMA BoundKept ==
  ASSUME TypeOK, ScanBound, NEW i \in 0 .. PoolCount, Reached(i)' \subseteq Reached(i)
  PROVE  Reached(i)' # {} => Cardinality(Reached(i)') + i <= Cardinality(Threads)
  <1>1. Reached(i) \in SUBSET Threads /\ Reached(i)' \in SUBSET Threads
    BY DEF Reached
  <1>2. /\ Cardinality(Reached(i)') \in Nat
        /\ Cardinality(Reached(i)) \in Nat
        /\ Cardinality(Reached(i)') <= Cardinality(Reached(i))
    BY <1>1, SubsetCardinality
  <1>3. Cardinality(Threads) \in Nat
    BY SlotPoolAssumption, FS_CardinalityType
  <1>4. ASSUME Reached(i)' # {}
        PROVE  Cardinality(Reached(i)) + i <= Cardinality(Threads)
    BY <1>4 DEF ScanBound
  <1> QED
    BY <1>2, <1>3, <1>4

\* A scan that walks past slot j leaves the holder of j behind: the callers
\* that then reach j + 1 are among those that had reached j, without it.
LEMMA SkipBound ==
  ASSUME TypeOK, FlagsMatchHolders, ScanBound, NEW t \in Threads, Skip(t),
         NEW j \in Nat, j = idx[t]
  PROVE  Cardinality(Reached(j + 1)') + (j + 1) <= Cardinality(Threads)
  <1> DEFINE A == Reached(j)
             B == Reached(j + 1)'
  <1> USE SlotPoolAssumption DEF TypeOK, Slots
  <1>1. j \in Slots /\ is_free[j] = 0
    BY DEF Skip
  <1>2. PICK h \in Threads : pc[h] = "hold" /\ idx[h] = j
    BY <1>1 DEF FlagsMatchHolders
  <1>3. h # t /\ h \in A /\ t \in A
    BY <1>1, <1>2 DEF Skip, Reached
  <1>4. B \subseteq A \ {h}
    BY <1>1, <1>2, <1>3 DEF Skip, Reached
  <1>5. A \in SUBSET Threads /\ B \in SUBSET Threads /\ A \ {h} \in SUBSET Threads
    BY <1>4 DEF Reached
  <1>6. Cardinality(B) \in Nat /\ Cardinality(B) <= Cardinality(A \ {h})
    BY <1>4, <1>5, SubsetCardinality
  <1>7. IsFiniteSet(A)
    BY <1>5, FS_Subset
  <1>8. Cardinality(A) \in Nat /\ Cardinality(A \ {h}) = Cardinality(A) - 1
    BY <1>3, <1>7, FS_CardinalityType, FS_RemoveElement
  <1>9. Cardinality(A) + j <= Cardinality(Threads)
    BY <1>1, <1>3 DEF ScanBound
  <1>10. Cardinality(Threads) \in Nat
    BY FS_CardinalityType
  <1> QED
    BY <1>1, <1>6, <1>8, <1>9, <1>10

\* The scan bound is kept by every step, given the flags.
LEMMA BoundStep ==
  ASSUME TypeOK, FlagsMatchHolders, ScanBound, [Next]_vars
  PROVE  ScanBound'
  <1> SUFFICES ASSUME NEW i \in 0 .. PoolCount
               PROVE  Reached(i)' # {} => Cardinality(Reached(i)') + i <= Cardinality(Threads)
    BY DEF ScanBound
  <1> USE SlotPoolAssumption DEF TypeOK, Slots
  <1>1. ASSUME NEW t \in Threads, Enter(t)
        PROVE  Reached(i)' # {} => Cardinality(Reached(i)') + i <= Cardinality(Threads)
    <2>1. CASE i = 0
      <3>1. Reached(i)' \in SUBSET Threads
        BY DEF Reached
      <3>2. Cardinality(Reached(i)') \in Nat /\ Cardinality(Threads) \in Nat
            /\ Cardinality(Reached(i)') <= Cardinality(Threads)
        BY <3>1, SubsetCardinality
      <3> QED
        BY <2>1, <3>2
    <2>2. CASE i # 0
      <3>1. Reached(i)' \subseteq Reached(i)
        BY <1>1, <2>2 DEF Enter, Reached
      <3> QED
        BY <3>1, BoundKept
    <2> QED
      BY <2>1, <2>2
  <1>2. ASSUME NEW t \in Threads, Acquire(t)
        PROVE  Reached(i)' # {} => Cardinality(Reached(i)') + i <= Cardinality(Threads)
    <2>1. Reached(i)' \subseteq Reached(i)
      BY <1>2 DEF Acquire, Reached
    <2> QED
      BY <2>1, BoundKept
  <1>3. ASSUME NEW t \in Threads, Skip(t)
        PROVE  Reached(i)' # {} => Cardinality(Reached(i)') + i <= Cardinality(Threads)
    <2>1. CASE i = idx[t] + 1
      <3>1. i - 1 \in Nat /\ i - 1 = idx[t] /\ (i - 1) + 1 = i
        BY <2>1
      <3>2. Cardinality(Reached((i - 1) + 1)') + ((i - 1) + 1) <= Cardinality(Threads)
        BY <1>3, <3>1, SkipBound
      <3> QED
        BY <3>1, <3>2
    <2>2. CASE i # idx[t] + 1
      <3>1. Reached(i)' \subseteq Reached(i)
        BY <1>3, <2>2 DEF Skip, Reached
      <3> QED
        BY <3>1, BoundKept
    <2> QED
      BY <2>1, <2>2
  <1>4. ASSUME NEW t \in Threads, Busy(t) \/ Release(t)
        PROVE  Reached(i)' # {} => Cardinality(Reached(i)') + i <= Cardinality(Threads)
    <2>1. Reached(i)' \subseteq Reached(i)
      BY <1>4 DEF Busy, Release, Reached
    <2> QED
      BY <2>1, BoundKept
  <1>5. CASE UNCHANGED vars
    <2>1. Reached(i)' \subseteq Reached(i)
      BY <1>5 DEF vars, Reached
    <2> QED
      BY <2>1, BoundKept
  <1> QED
    BY <1>1, <1>2, <1>3, <1>4, <1>5 DEF Next, Step

\* The invariant is inductive.
LEMMA InvStep == IInv /\ [Next]_vars => IInv'
  BY TypeStep, FlagStep, BoundStep DEF IInv

\* The invariant holds throughout every behaviour.
THEOREM Invariance == Spec => []IInv
  BY InitInv, InvStep, PTL DEF Spec

\* Types: every index a caller works with is a slot of the pool.
THEOREM TypeCorrect == Spec => []TypeOK
  <1>1. IInv => TypeOK
    BY DEF IInv
  <1> QED
    BY <1>1, Invariance, PTL

\* No two callers ever hold the same slot, and the flag of a slot is 0 exactly
\* while it has a holder: no slot is shared and none is lost.
THEOREM ExclusiveSlots == Spec => []ExclusiveUse
  <1>1. IInv => ExclusiveUse
    BY DEF IInv, ExclusiveUse
  <1> QED
    BY <1>1, Invariance, PTL

\* Of n callers at most n - i get as far as slot i.
THEOREM ScanBounded == Spec => []ScanBound
  <1>1. IInv => ScanBound
    BY DEF IInv
  <1> QED
    BY <1>1, Invariance, PTL

\* A caller past the last slot is one of the at most n - PoolCount that get
\* there, so there are more than PoolCount callers.
LEMMA BusyBound == IInv => BusyOnlyIfOverbooked
  <1> SUFFICES ASSUME IInv, NEW t \in Threads, pc[t] = "scan", idx[t] = PoolCount
               PROVE  Cardinality(Threads) > PoolCount
    BY DEF BusyOnlyIfOverbooked
  <1> DEFINE R == Reached(PoolCount)
  <1> USE SlotPoolAssumption
  <1>1. t \in R /\ R \in SUBSET Threads
    BY DEF Reached
  <1>2. Cardinality(R) + PoolCount <= Cardinality(Threads)
    BY <1>1 DEF IInv, ScanBound
  <1>3. IsFiniteSet(R)
    BY <1>1, FS_Subset
  <1>4. Cardinality(R) \in Nat /\ Cardinality(R) # 0
    BY <1>1, <1>3, FS_CardinalityType, FS_EmptySet
  <1>5. Cardinality(Threads) \in Nat
    BY FS_CardinalityType
  <1> QED
    BY <1>2, <1>4, <1>5

\* ml_kem_decaps_core and ml_kem_encaps_core return -EBUSY only if more
\* callers share the pool than it has slots.
THEOREM NoNeedlessBusy == Spec => []BusyOnlyIfOverbooked
  BY BusyBound, Invariance, PTL

-----------------------------------------------------------------------------
(* Refinement *)

\* Every step of the scan is a step of the lease or a stutter: looking at an
\* occupied slot is invisible, -EBUSY is a refusal the lease allows.
LEMMA LeaseStep ==
  ASSUME IInv, [Next]_vars
  PROVE  [Lease!Next]_(Lease!vars)
  <1> USE SlotPoolAssumption DEF IInv, TypeOK, Slots, NoSlot
  <1>1. ASSUME NEW t \in Threads, Enter(t)
        PROVE  Lease!Ask(t)
    <2>1. t \notin Asking /\ Granted[t] = NoSlot
      BY <1>1 DEF Enter, Asking, Granted
    <2>2. Asking' = Asking \cup {t} /\ Granted' = Granted
      BY <1>1 DEF Enter, Asking, Granted
    <2> QED
      BY <2>1, <2>2 DEF Lease!Ask
  <1>2. ASSUME NEW t \in Threads, Acquire(t)
        PROVE  \E s \in Slots : Lease!Grant(t, s)
    <2>1. idx[t] \in Slots /\ t \in Asking
      BY <1>2 DEF Acquire, Asking
    <2>2. \A c \in Threads : Granted[c] # idx[t]
      BY <1>2 DEF Acquire, Granted, FlagsMatchHolders
    <2>3. Asking' = Asking \ {t}
      BY <1>2 DEF Acquire, Asking
    <2>4. Granted' = [Granted EXCEPT ![t] = idx[t]]
      BY <1>2 DEF Acquire, Granted
    <2> QED
      BY <2>1, <2>2, <2>3, <2>4 DEF Lease!Grant
  <1>3. ASSUME NEW t \in Threads, Skip(t)
        PROVE  UNCHANGED Lease!vars
    BY <1>3 DEF Skip, Lease!vars, Asking, Granted
  <1>4. ASSUME NEW t \in Threads, Busy(t)
        PROVE  Lease!Refuse(t)
    <2>1. Cardinality(Threads) > PoolCount
      BY <1>4, BusyBound DEF Busy, BusyOnlyIfOverbooked, IInv
    <2>2. Cardinality(Slots) = PoolCount
      BY FS_Interval
    <2>3. t \in Asking /\ Asking' = Asking \ {t} /\ Granted' = Granted
      BY <1>4 DEF Busy, Asking, Granted
    <2> QED
      BY <2>1, <2>2, <2>3 DEF Lease!Refuse, Lease!Cardinality, Cardinality
  <1>5. ASSUME NEW t \in Threads, Release(t)
        PROVE  Lease!Return(t)
    <2>1. Granted[t] # NoSlot
      BY <1>5 DEF Release, Granted
    <2>2. Granted' = [Granted EXCEPT ![t] = NoSlot]
      BY <1>5 DEF Release, Granted
    <2>3. Asking' = Asking
      BY <1>5 DEF Release, Asking
    <2> QED
      BY <2>1, <2>2, <2>3 DEF Lease!Return
  <1>6. CASE UNCHANGED vars
    BY <1>6 DEF vars, Lease!vars, Asking, Granted
  <1>7. ASSUME NEW t \in Threads, Enter(t) \/ Step(t)
        PROVE  [Lease!Next]_(Lease!vars)
    BY <1>1, <1>2, <1>3, <1>4, <1>5, <1>7 DEF Step, Lease!Next
  <1> QED
    BY <1>6, <1>7 DEF Next

\* The scan over atomic flags implements the lease: one holder for each slot,
\* and a refusal only when callers outnumber slots.
THEOREM ScanImplementsLease == Spec => ImplementsLease
  <1>1. Init => Lease!Init
    BY DEF Init, Lease!Init, Asking, Granted
  <1>2. IInv /\ [Next]_vars => [Lease!Next]_(Lease!vars)
    BY LeaseStep
  <1> QED
    BY <1>1, <1>2, Invariance, PTL DEF Spec, ImplementsLease, Lease!Spec
=============================================================================
