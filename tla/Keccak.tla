------------------------------- MODULE Keccak -------------------------------
(***************************************************************************)
(* Keccak-f[1600] of keccak_1600.c, step mapping by step mapping, on 25     *)
(* lanes of 64 bits. A lane is the set of its bits that are one.            *)
(***************************************************************************)
EXTENDS Integers, Sequences, FiniteSets

VARIABLES
  s,       \* the lanes; lane x + 5 y is A[x, y] of the standard
  round,   \* the rounds completed
  step,    \* the step mapping that is next
  from0    \* history: whether the permutation started from the zero state

vars == <<s, round, step, from0>>

Lanes == 0 .. 24
Bits == 0 .. 63

a (+) b == (a \ b) \cup (b \ a)

keccak_rc == <<
  {0}, {1, 7, 15}, {1, 3, 7, 15, 63}, {15, 31, 63}, {0, 1, 3, 7, 15}, {0, 31},
  {0, 7, 15, 31, 63}, {0, 3, 15, 63}, {1, 3, 7}, {3, 7}, {0, 3, 15, 31}, {1, 3, 31},
  {0, 1, 3, 7, 15, 31}, {0, 1, 3, 7, 63}, {0, 3, 7, 15, 63}, {0, 1, 15, 63}, {1, 15, 63},
  {7, 63}, {1, 3, 15}, {1, 3, 31, 63}, {0, 7, 15, 31, 63}, {7, 15, 63}, {0, 31}, {3, 15, 31, 63}>>

Offsets == <<0, 1, 62, 28, 27, 36, 44, 6, 55, 20, 3, 10, 43, 25, 39,
             41, 45, 15, 21, 8, 18, 2, 61, 56, 14>>

\* keccak_pi writes these lanes in this order, each with the one after it.
Chain == <<1, 6, 9, 22, 14, 20, 2, 12, 13, 19, 23, 15, 4, 24, 21, 8, 16, 5, 3, 18, 17, 11, 7, 10>>

\* Slip used to test the properties: the last lane of the chain from lane 1
\* itself.
LastMovedLate(lanes, moved) == moved[1]

rotl64(lane, n) == {(b + n) % 64 : b \in lane}

keccak_theta(lanes) ==
  LET c[x \in 0 .. 4] == (((lanes[x] (+) lanes[x + 5]) (+) lanes[x + 10]) (+) lanes[x + 15]) (+) lanes[x + 20]
      d[x \in 0 .. 4] == c[(x + 4) % 5] (+) rotl64(c[(x + 1) % 5], 1)
  IN  [l \in Lanes |-> lanes[l] (+) d[l % 5]]

keccak_rho(lanes) ==
  [l \in Lanes |-> IF l = 0 THEN lanes[0] ELSE rotl64(lanes[l], Offsets[l + 1])]

\* What the last lane of the chain gets: t, saved before the first move.
LastMoved(lanes, moved) == lanes[1]

keccak_pi(lanes) ==
  LET moved[n \in 0 .. 23] ==
        IF n = 0 THEN lanes
        ELSE LET before == moved[n - 1] IN [before EXCEPT ![Chain[n]] = before[Chain[n + 1]]]
  IN  [moved[23] EXCEPT ![Chain[24]] = LastMoved(lanes, moved[23])]

\* a ^ (~b & c) for the lanes of each row, from copies of the row.
keccak_chi(lanes) ==
  LET row(l) == 5 * (l \div 5)
  IN  [l \in Lanes |-> lanes[l] (+) (lanes[row(l) + ((l + 2) % 5)] \ lanes[row(l) + ((l + 1) % 5)])]

RoundConstant(r) == keccak_rc[r + 1]

keccak_iota(lanes, r) == [lanes EXCEPT ![0] = @ (+) RoundConstant(r)]

\* The zero state, states of one bit, and states with many.
Init ==
  /\ \/ s = [l \in Lanes |-> {}]
     \/ \E l \in {0, 6, 24}, b \in {0, 63} : s = [[k \in Lanes |-> {}] EXCEPT ![l] = {b}]
     \/ \E n \in {3, 7} : s = [l \in Lanes |-> {b \in Bits : (b * (l + 1)) % n = 1}]
  /\ round = 0 /\ step = "theta"
  /\ from0 = (s = [l \in Lanes |-> {}])

\* The next step mapping of keccak_f1600.
Map(name, lanes, then) ==
  /\ step = name /\ round < 24
  /\ s' = lanes /\ step' = then
  /\ round' = IF name = "iota" THEN round + 1 ELSE round
  /\ UNCHANGED from0

Next ==
  \/ Map("theta", keccak_theta(s), "rho")
  \/ Map("rho", keccak_rho(s), "pi")
  \/ Map("pi", keccak_pi(s), "chi")
  \/ Map("chi", keccak_chi(s), "iota")
  \/ Map("iota", keccak_iota(s, round), "theta")

Spec == Init /\ [][Next]_vars
----------------------------------------------------------------------------
(* The step mappings of the standard, bit by bit. A[x, y, z] is bit z of    *)
(* lane x + 5 y.                                                            *)

A(x, y, z) == z \in s[x + 5 * y]

Odd(x, z) == Cardinality({y \in 0 .. 4 : A(x, y, z)}) % 2 = 1

\* The lane (x, y) that rho visits as its t-th, and the offset it gets there.
Visited[t \in 0 .. 23] ==
  IF t = 0 THEN <<1, 0>>
  ELSE LET p == Visited[t - 1] IN <<p[2], (2 * p[1] + 3 * p[2]) % 5>>

RhoOffset(x, y) ==
  IF x = 0 /\ y = 0 THEN 0
  ELSE LET t == CHOOSE n \in 0 .. 23 : Visited[n] = <<x, y>>
       IN  (((t + 1) * (t + 2)) \div 2) % 64

\* The register that the round constants are read from, as the set of its ones.
Register[t \in 0 .. 168] ==
  IF t = 0 THEN {0}
  ELSE LET r == Register[t - 1]
       IN  {b + 1 : b \in r \ {7}} (+) (IF 7 \in r THEN {0, 4, 5, 6} ELSE {})

StandardConstant(r) == {2^j - 1 : j \in {n \in 0 .. 6 : 0 \in Register[n + 7 * r]}}

StandardBit(x, y, z) ==
  CASE step = "theta" -> (A(x, y, z) # Odd((x + 4) % 5, z)) # Odd((x + 1) % 5, (z + 63) % 64)
    [] step = "rho" -> A(x, y, (z + 64 - RhoOffset(x, y)) % 64)
    [] step = "pi" -> A((x + 3 * y) % 5, x, z)
    [] step = "chi" -> A(x, y, z) # (~ A((x + 1) % 5, y, z) /\ A((x + 2) % 5, y, z))
    [] step = "iota" -> A(x, y, z) # (x = 0 /\ y = 0 /\ z \in StandardConstant(round))

\* Type invariant: no bit leaves its lane.
TypeOK ==
  /\ s \in [Lanes -> SUBSET Bits]
  /\ round \in 0 .. 24 /\ step \in {"theta", "rho", "pi", "chi", "iota"}

\* Each unrolled, in-place step mapping with its tables does to each bit what the
\* standard defines: pi although it overwrites the lanes it moves, rho by offsets
\* and iota by constants that are written out.
StepsFollowStandard ==
  \A x, y \in 0 .. 4, z \in Bits : (z \in s'[x + 5 * y]) = StandardBit(x, y, z)

\* The permutation of the zero state is the published one, in its first and its
\* last lane (0xF1258F7940E1DDE7 and 0xEAF1FF7B5CECA249).
KnownAnswer ==
  from0 /\ round = 24 =>
    /\ s[0] = {0, 1, 2, 5, 6, 7, 8, 10, 11, 12, 14, 15, 16, 21, 22, 23, 30, 32, 35, 36, 37, 38,
               40, 41, 42, 43, 47, 48, 50, 53, 56, 60, 61, 62, 63}
    /\ s[24] = {0, 3, 6, 9, 13, 15, 18, 19, 21, 22, 23, 26, 27, 28, 30, 32, 33, 35, 36, 37, 38,
                40, 41, 42, 43, 44, 45, 46, 47, 48, 52, 53, 54, 55, 57, 59, 61, 62, 63}

=============================================================================
