------------------------------ MODULE SlotLease ------------------------------
(***************************************************************************)
(* What a pool of reusable working contexts promises its callers: a slot   *)
(* is leased to one caller at a time, and a caller is refused only when    *)
(* there are more callers than slots.  How the pool finds a slot is not    *)
(* said here; SlotPool says it.                                            *)
(***************************************************************************)
EXTENDS FiniteSets, Integers

CONSTANTS
  Threads,    \* the callers that share the pool
  Slots,      \* the slots of the pool
  NoSlot      \* what a caller that holds no slot is granted

VARIABLES
  asking,     \* the callers that asked for a slot and have no answer yet
  grant       \* grant[t]: the slot leased to t, or NoSlot

vars == <<asking, grant>>

Init ==
  /\ asking = {}
  /\ grant = [t \in Threads |-> NoSlot]

Ask(t) ==
  /\ t \notin asking
  /\ grant[t] = NoSlot
  /\ asking' = asking \cup {t}
  /\ UNCHANGED grant

\* The pool leases the slot s, which nobody holds, to t.
Grant(t, s) ==
  /\ t \in asking
  /\ \A c \in Threads : grant[c] # s
  /\ asking' = asking \ {t}
  /\ grant' = [grant EXCEPT ![t] = s]

\* The pool answers "busy".  It may do so without all slots being leased at
\* that moment, but only if the callers outnumber the slots.
Refuse(t) ==
  /\ t \in asking
  /\ Cardinality(Threads) > Cardinality(Slots)
  /\ asking' = asking \ {t}
  /\ UNCHANGED grant

Return(t) ==
  /\ grant[t] # NoSlot
  /\ grant' = [grant EXCEPT ![t] = NoSlot]
  /\ UNCHANGED asking

Next ==
  \E t \in Threads :
    \/ Ask(t)
    \/ \E s \in Slots : Grant(t, s)
    \/ Refuse(t)
    \/ Return(t)

Spec == Init /\ [][Next]_vars
=============================================================================
