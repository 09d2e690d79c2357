---------------------------- MODULE SlotPoolScan ----------------------------
(***************************************************************************)
(* SlotPool with a history variable, to compare the meaning the            *)
(* documentation gives to -EBUSY with what the scan can know when it       *)
(* returns it.                                                             *)
(***************************************************************************)
EXTENDS SlotPool

VARIABLE sawFull   \* the callers in whose call all slots were once occupied

Full == \A s \in Slots : is_free[s] = 0

HistInit == Init /\ sawFull = {}

\* A call starts with a clean record; from then on every state counts, the one
\* its scan starts in and the one it gives up in included.
HistNext ==
  /\ Next
  /\ sawFull' = {t \in Threads :
       /\ pc'[t] # "out"
       /\ Full' \/ (pc[t] # "out" /\ t \in sawFull)}

HistSpec == HistInit /\ [][HistNext]_<<vars, sawFull>>

\* The API section of the README says that -EBUSY indicates that no matching
\* slot is currently free: a call that ends so must at least once, between its
\* start and its end, have been in a state where every slot was occupied.
BusyMeansFull ==
  \A t \in Threads : pc[t] = "scan" /\ idx[t] = PoolCount => t \in sawFull
=============================================================================
