------------------------------ MODULE Entropy ------------------------------
(***************************************************************************)
(* How a call gets its random bytes: key generation draws the seed d and    *)
(* later z, encapsulation draws m, each from the platform's ml_kem_entropy  *)
(* or from the caller's function. The userspace port calls getrandom, which *)
(* may give fewer bytes than asked for, be interrupted by a signal, or fail;*)
(* the kernel's call always fills the buffer; FreeRTOS has no such call.    *)
(* Calls outside the library are modelled by what they may return.          *)
(***************************************************************************)
EXTENDS Integers, FiniteSets

CONSTANT ML_KEM_SEED_BYTES

VARIABLES
  port,      \* "userspace", "kernel" or "freertos"
  callback,  \* whether the caller passed a function of its own
  draw,      \* what is drawn: "d", "z" or "m"
  pc,        \* "draw", "loop", "getrandom", "derive", "done", "failed"
  offset,    \* bytes that ml_kem_entropy has so far
  buf,       \* buf[x][b], how often byte b of x was given a random value
  err        \* the code a failed call returns

vars == <<port, callback, draw, pc, offset, buf, err>>

Bytes == 0 .. ML_KEM_SEED_BYTES - 1
Draws == {"d", "z", "m"}
Blank == [b \in Bytes |-> 0]

Init ==
  /\ port \in {"userspace", "kernel", "freertos"} /\ callback \in BOOLEAN
  /\ draw \in {"d", "m"} /\ pc = "draw" /\ offset = 0
  /\ buf = [x \in Draws |-> Blank] /\ err = "none"

\* Slip used to test the properties: each answer goes to the start of the
\* buffer.
TargetStart(n) == 0 .. n - 1

\* The bytes that an answer of n bytes fills.
Target(n) == offset .. offset + n - 1

\* Whether the while loop asks again.
StillMissing(n) == n < ML_KEM_SEED_BYTES

\* The stack buffer of d and of m is wiped when the draw fails; z lies in the
\* key context, which is wiped when it is destroyed.
Cleaned(x) == x \in {"d", "m"}

Code == IF callback THEN "ML_KEM_CALLBACK_ENTROPY_FAILED" ELSE "ML_KEM_SYSTEM_ENTROPY_FAILED"

Fill(bytes) == buf' = [buf EXCEPT ![draw] = [b \in Bytes |-> IF b \in bytes THEN @[b] + 1 ELSE @[b]]]

\* The caller's non-zero branch.
Fail(bytes) ==
  /\ pc' = "failed" /\ err' = Code
  /\ IF Cleaned(draw) THEN buf' = [buf EXCEPT ![draw] = Blank] ELSE Fill(bytes)

\* entropy(buf, 32) of the caller's choice: all of it, or a failure after some.
Callback ==
  /\ pc = "draw" /\ callback
  /\ \/ Fill(Bytes) /\ pc' = "derive" /\ UNCHANGED err
     \/ \E n \in 0 .. ML_KEM_SEED_BYTES - 1 : Fail(0 .. n - 1)
  /\ UNCHANGED <<port, callback, draw, offset>>

\* ml_kem_entropy of the kernel: get_random_bytes fills the buffer.
KernelEntropy ==
  /\ port = "kernel"
  /\ Fill(Bytes) /\ pc' = "derive"
  /\ UNCHANGED <<offset, err>>

\* That of FreeRTOS has no source and fails.
FreeRtosEntropy ==
  /\ port = "freertos"
  /\ Fail({})
  /\ UNCHANGED offset

\* That of userspace enters its loop.
UserspaceEntropy ==
  /\ port = "userspace"
  /\ offset' = 0 /\ pc' = "loop"
  /\ UNCHANGED <<buf, err>>

System ==
  /\ pc = "draw" /\ ~callback
  /\ KernelEntropy \/ FreeRtosEntropy \/ UserspaceEntropy
  /\ UNCHANGED <<port, callback, draw>>

\* The head of the while loop: return 0, or call getrandom.
Loop ==
  /\ pc = "loop"
  /\ pc' = IF StillMissing(offset) THEN "getrandom" ELSE "derive"
  /\ UNCHANGED <<port, callback, draw, offset, buf, err>>

\* getrandom answers with some of the bytes asked for, at least one if any.
Answer ==
  /\ pc = "getrandom"
  /\ \E n \in 0 .. ML_KEM_SEED_BYTES - offset :
       /\ n = 0 => offset = ML_KEM_SEED_BYTES
       /\ Fill(Target(n)) /\ offset' = offset + n
  /\ pc' = "loop"
  /\ UNCHANGED <<port, callback, draw, err>>

\* EINTR: continue.
Interrupted ==
  /\ pc = "getrandom" /\ pc' = "loop"
  /\ UNCHANGED <<port, callback, draw, offset, buf, err>>

\* Any other error: return -1.
Refused ==
  /\ pc = "getrandom" /\ Fail({})
  /\ UNCHANGED <<port, callback, draw, offset>>

\* What was drawn is used; after d key generation goes on to z.
Derive ==
  /\ pc = "derive"
  /\ IF draw = "d" THEN draw' = "z" /\ pc' = "draw" /\ offset' = 0
                   ELSE pc' = "done" /\ UNCHANGED <<draw, offset>>
  /\ UNCHANGED <<port, callback, buf, err>>

Next == Callback \/ System \/ Loop \/ Answer \/ Interrupted \/ Refused \/ Derive

Spec == Init /\ [][Next]_vars

\* The thread runs on, and signals do not interrupt it for ever.
FairSpec ==
  /\ Spec
  /\ WF_vars(Callback \/ System \/ Loop \/ Derive)
  /\ SF_vars(Answer \/ Refused)
----------------------------------------------------------------------------
\* Type invariant: no byte lies outside the buffer, and the code of a failed call
\* names the source that failed.
TypeOK ==
  /\ draw \in Draws /\ offset \in 0 .. ML_KEM_SEED_BYTES
  /\ buf \in [Draws -> [Bytes -> Nat]]
  /\ pc # "failed" => err = "none"
  /\ pc = "failed" => callback = (err = "ML_KEM_CALLBACK_ENTROPY_FAILED")

\* A seed from which anything is derived is random in each byte, and no byte was
\* drawn twice: answers of any sizes follow each other without a gap.
WholeSeeds ==
  /\ pc \in {"derive", "done"} => buf[draw] = [b \in Bytes |-> 1]
  /\ draw = "z" => buf["d"] = [b \in Bytes |-> 1]

\* A draw that failed leaves none of its bytes on the stack.
NothingLeft == pc = "failed" /\ draw # "z" => buf[draw] = Blank

\* What the callers of the entropy source rely on: a seed is whole or its draw
\* failed, under the code of the source that failed, and is gone.
SeedsSound == TypeOK /\ WholeSeeds /\ NothingLeft

\* Every call comes to its end, interrupted and answered in pieces or not.
Returns == <>(pc \in {"done", "failed"})
=============================================================================
