-------------------------------- MODULE Shake --------------------------------
(***************************************************************************)
(* The sponge behind SHAKE128, SHAKE256, SHA3-256 and SHA3-512, and the     *)
(* ways the library calls it.  One state of 200 bytes, behind the XOF       *)
(* buffer of a slot, serves a shake_ctx and a sha3_ctx in turn.  A byte is  *)
(* the set of things xor-ed into it; Keccak-f is a free permutation: the    *)
(* state is the list of the states that went through it, and what was       *)
(* xor-ed in since.  Rates and lengths are scaled down.                     *)
(***************************************************************************)
EXTENDS Integers, Sequences

CONSTANTS
  Rate128,   \* rate of SHAKE128, 168 in the code
  Rate256,   \* rate of SHAKE256 and SHA3-256, 136 in the code
  Rate512,   \* rate of SHA3-512, 72 in the code
  MaxIn,     \* the longest message
  MaxOut,    \* the longest output asked for in one call
  MaxCalls   \* bound: calls of shake128 on one seed

ASSUME ShakeAssumption ==
  /\ {Rate128, Rate256, Rate512, MaxIn, MaxOut, MaxCalls} \subseteq Nat \ {0}
  /\ Rate512 <= Rate256 /\ Rate256 <= Rate128
  /\ Rate256 <= MaxIn

Positions == 0 .. Rate128 - 1

VARIABLES
  state,     \* the Keccak state: [past, now]
  ctx,       \* ctx["shake"], ctx["sha3"]: rate, pos, in and outlen
  run,       \* the context whose function runs
  pc,        \* "idle", "prefix" (shake_absorb alone), "absorb", "squeeze"
  left,      \* local_outlen
  calls,     \* calls of a shake function since the last initialisation
  fed, out   \* history: the message, and all bytes delivered for it

vars == <<state, ctx, run, pc, left, calls, fed, out>>

-----------------------------------------------------------------------------
(* The sponge state *)

a (+) b == (a \ b) \cup (b \ a)

Blank == [p \in Positions |-> {}]
Zero == [past |-> <<>>, now |-> Blank]

\* keccak_f1600: a state is only known by where it came from.
Permute(s) == [past |-> Append(s.past, s.now), now |-> Blank]

\* in[0 .. n - 1] is xor-ed into the state from position p on.
Mix(s, p, n, in) ==
  [s EXCEPT !.now = [q \in Positions |->
     IF q \in p .. p + n - 1 THEN s.now[q] (+) in[q - p + 1] ELSE s.now[q]]]

Flip(s, p, b) == [s EXCEPT !.now[p] = @ (+) b]

\* Byte p of the state.
Out(s, p) == <<s.past, s.now[p], p>>

\* The domain bits of the two families and the last bit of the padding.
Suffix(c) == IF c = "shake" THEN {<<"1F", 0>>} ELSE {<<"06", 0>>}
Last == {<<"80", 0>>}

Lesser(a, b) == IF a < b THEN a ELSE b

-----------------------------------------------------------------------------
(* The standard's view: the padded message is cut into blocks, every block  *)
(* is permuted in, and the stream is the first rate bytes of the state, of  *)
(* the state permuted once more, and so on.                                 *)

Message(n) == [i \in 1 .. n |-> {<<"in", i>>}]

PadByte(m, i, total) ==
  LET n == Len(m.bytes)
      body == CASE i < n -> m.bytes[i + 1] [] i = n -> Suffix(m.by) [] OTHER -> {}
  IN  IF i = total - 1 THEN body (+) Last ELSE body

Blocks(m) ==
  LET count == Len(m.bytes) \div m.rate + 1
  IN  [b \in 1 .. count |-> [p \in Positions |->
         IF p < m.rate THEN PadByte(m, (b - 1) * m.rate + p, count * m.rate)
                       ELSE {}]]

StreamByte(m, n) ==
  <<Blocks(m) \o [j \in 1 .. n \div m.rate |-> Blank], {}, n % m.rate>>

Messages ==
  [by : {"shake"}, rate : {Rate128, Rate256}, bytes : {Message(n) : n \in 0 .. MaxIn}]
    \cup
  [by : {"sha3"}, rate : {Rate256, Rate512}, bytes : {Message(n) : n \in 0 .. MaxIn}]

-----------------------------------------------------------------------------
(* The contexts *)

NewContext == [rate |-> 0, pos |-> 0, in |-> <<>>, outlen |-> 0]

\* The memory may hold what an earlier user left there.
Init ==
  /\ state \in {Zero, Flip(Zero, 0, Last)}
  /\ ctx = [c \in {"shake", "sha3"} |-> NewContext]
  /\ run = "shake"
  /\ pc = "idle"
  /\ left = 0
  /\ calls = 0
  /\ fed = [by |-> "shake", rate |-> Rate256, bytes |-> Message(0)]
  /\ out = <<>>

\* Slips used to test the properties: the buffer for the first block of z || c
\* is filled one byte short; the state is not permuted when the rate is
\* exhausted.
PrefixShort == Rate256 - 1
NeverExhausted == FALSE

\* shake128 and shake256 tell a first call from a continued one by pos.
Entry(pos) == IF pos # 0 THEN "squeeze" ELSE "absorb"

\* The bytes of z || c the fallback absorbs first: exactly one block.
Prefix == Rate256

\* Whether squeezing must permute before it reads on.
Exhausted == ctx.shake.pos = ctx.shake.rate

\* The bytes one iteration of squeezing copies, and where pos is after it.
Piece(room, wanted) == Lesser(room, wanted)
Advance(p, n) == p + n

Finalized(s, c) ==
  Permute(Flip(Flip(s, ctx[c].pos, Suffix(c)), ctx[c].rate - 1, Last))

-----------------------------------------------------------------------------
(* The callers.  Each starts with shake_ctx_zero or sha3_ctx_init, which      *)
(* clear the state.                                                          *)

Start(c, rate, n) ==
  /\ pc = "idle"
  /\ state' = Zero
  /\ run' = c
  /\ fed' = [by |-> c, rate |-> rate, bytes |-> Message(n)]
  /\ out' = <<>>

\* sha3_ctx_init, then sha3_256 or sha3_512.
Hash(rate, n) ==
  /\ Start("sha3", rate, n)
  /\ \E outlen \in 1 .. Lesser(rate, MaxOut) :
       /\ ctx' = [ctx EXCEPT !.sha3 =
            [rate |-> rate, pos |-> 0, in |-> Message(n), outlen |-> outlen]]
       /\ left' = outlen
  /\ pc' = "absorb"
  /\ calls' = 0

\* Noise and matrix: shake_ctx_zero, shake_ctx_init, shake256 or shake128.
Expand(rate, n) ==
  /\ Start("shake", rate, n)
  /\ \E outlen \in 1 .. MaxOut :
       /\ ctx' = [ctx EXCEPT !.shake =
            [rate |-> rate, pos |-> 0, in |-> Message(n), outlen |-> outlen]]
       /\ left' = outlen
  /\ pc' = Entry(0)
  /\ calls' = 1

\* The sampler of the matrix calls shake128 again on the same context.
Again ==
  /\ pc = "idle" /\ run = "shake"
  /\ ctx.shake.rate = Rate128
  /\ calls \in 1 .. MaxCalls - 1
  /\ pc' = Entry(ctx.shake.pos)
  /\ left' = ctx.shake.outlen
  /\ calls' = calls + 1
  /\ UNCHANGED <<state, ctx, run, fed, out>>

\* The implicit rejection secret SHAKE256(z || c), first its first block ...
Fallback(n) ==
  /\ n >= Prefix
  /\ Start("shake", Rate256, n)
  /\ ctx' = [ctx EXCEPT !.shake =
       [rate |-> Rate256, pos |-> 0, in |-> SubSeq(Message(n), 1, Prefix), outlen |-> 1]]
  /\ pc' = "prefix"
  /\ left' = 0
  /\ calls' = 0

\* ... then a second shake_ctx_init with the rest, and shake256.
Rest ==
  /\ pc = "prefix" /\ ctx.shake.in = <<>>
  /\ ctx' = [ctx EXCEPT !.shake =
       [rate |-> Rate256, pos |-> 0, outlen |-> 1,
        in |-> SubSeq(fed.bytes, Prefix + 1, Len(fed.bytes))]]
  /\ pc' = Entry(0)
  /\ left' = 1
  /\ calls' = 1
  /\ UNCHANGED <<state, run, fed, out>>

-----------------------------------------------------------------------------
(* The functions, one action per iteration of their loops *)

\* shake_absorb, sha3_absorb.
Absorb ==
  LET c == ctx[run]
      n == Lesser(c.rate - c.pos, Len(c.in))
      mixed == Mix(state, c.pos, n, c.in)
      full == c.pos + n = c.rate
  IN  /\ pc \in {"prefix", "absorb"}
      /\ c.in # <<>>
      /\ state' = IF full THEN Permute(mixed) ELSE mixed
      /\ ctx' = [ctx EXCEPT ![run].pos = IF full THEN 0 ELSE c.pos + n,
                            ![run].in = SubSeq(c.in, n + 1, Len(c.in))]
      /\ UNCHANGED <<run, pc, left, calls, fed, out>>

\* shake_finalize and sha3_finalize; SHAKE then sets pos to 0.
Finalize ==
  /\ pc = "absorb" /\ ctx[run].in = <<>>
  /\ state' = Finalized(state, run)
  /\ ctx' = IF run = "shake" THEN [ctx EXCEPT !.shake.pos = 0] ELSE ctx
  /\ pc' = "squeeze"
  /\ UNCHANGED <<run, left, calls, fed, out>>

\* sha3_squeeze: the digest is the head of the state.
SqueezeHash ==
  /\ pc = "squeeze" /\ run = "sha3"
  /\ out' = out \o [i \in 1 .. left |-> Out(state, i - 1)]
  /\ left' = 0
  /\ pc' = "idle"
  /\ UNCHANGED <<state, ctx, run, calls, fed>>

\* shake_squeeze.
Squeeze ==
  LET s == IF Exhausted THEN Permute(state) ELSE state
      p == IF Exhausted THEN 0 ELSE ctx.shake.pos
      n == Piece(ctx.shake.rate - p, left)
  IN  /\ pc = "squeeze" /\ run = "shake"
      /\ state' = s
      /\ out' = out \o [i \in 1 .. n |-> Out(s, p + i - 1)]
      /\ ctx' = [ctx EXCEPT !.shake.pos = Advance(p, n)]
      /\ left' = left - n
      /\ pc' = IF left = n THEN "idle" ELSE pc
      /\ UNCHANGED <<run, calls, fed>>

Step == Rest \/ Absorb \/ Finalize \/ SqueezeHash \/ Squeeze

Call ==
  \E n \in 0 .. MaxIn :
    \/ \E rate \in {Rate256, Rate512} : Hash(rate, n)
    \/ \E rate \in {Rate128, Rate256} : Expand(rate, n)
    \/ Fallback(n)

Next == Call \/ Again \/ Step

Spec == Init /\ [][Next]_vars

\* A thread that entered one of the functions runs on.
FairSpec == Spec /\ WF_vars(Step)

-----------------------------------------------------------------------------
(* Properties.  pos alone tells a continued call from a first one: it must be 0 *)
(* before anything was squeezed and never 0 again, however the length of an     *)
(* output lies to the rate, or a finalized state would absorb once more.        *)

\* The stream is that of the whole message and is read without gap or overlap,
\* over all calls, on a state that served other messages before: in pieces
\* (matrix), from a message absorbed in two parts (z || c), SHAKE and SHA-3
\* alternating on one state.
Stream == INSTANCE Xof WITH msg <- fed, MaxRead <- MaxOut, Byte <- StreamByte
ImplementsXof == Stream!Spec

\* Every call returns: no loop of the sponge runs in place.
EveryCallReturns == pc # "idle" ~> pc = "idle"
=============================================================================
