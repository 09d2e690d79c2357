--------------------------------- MODULE Xof ---------------------------------
(***************************************************************************)
(* What SHAKE and SHA-3 promise their callers: a message fixes an endless   *)
(* stream of bytes, and whoever reads gets the next bytes of that stream,   *)
(* however many reads the bytes are asked for in.                          *)
(***************************************************************************)
EXTENDS Integers, Sequences

CONSTANTS
  Messages,      \* what may be hashed
  MaxRead,       \* the most bytes one step delivers
  Byte(_, _)     \* Byte(m, n): byte n, from 0, of the stream of message m

VARIABLES
  msg,           \* the message being hashed
  out            \* the bytes of its stream delivered so far

vars == <<msg, out>>

Init == msg \in Messages /\ out = <<>>

New(m) == msg' = m /\ out' = <<>>

Read(n) ==
  /\ out' = out \o [i \in 1 .. n |-> Byte(msg, Len(out) + i - 1)]
  /\ UNCHANGED msg

Next == (\E m \in Messages : New(m)) \/ (\E n \in 1 .. MaxRead : Read(n))

Spec == Init /\ [][Next]_vars
=============================================================================
