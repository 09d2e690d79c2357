# A TLA+ model of the ML-KEM implementation

This directory holds the formal model of the ML-KEM library in `src/portable`:
what its pools, key objects and operations do when several threads use them,
when allocations and the entropy source fail, and when memory is reused from
call to call. TLC checks the model on small instances; TLAPS proves its main
results for every number of threads, slots, keys and objects, and for every
length of polynomials, messages and seeds. All paths below are relative to
`src/portable/` unless they say otherwise.

## 1. Inventory

| Component | Code | State it keeps | Operations | What must be right |
| --- | --- | --- | --- | --- |
| Slot protocol | `src/ml_kem.c:267-276, 348-360, 377`, port atomics | one atomic flag per slot | scan, acquire, release, `-EBUSY` | a slot in one hand; none lost; no needless refusal; progress |
| Decapsulation | `src/ml_kem.c:330-380, 633-679`, `src/ml_kem_decrypt.c` | a decryption and a re-encapsulation context per slot | decrypt, re-encapsulate, select, wipe | the secret of this ciphertext whatever ran before; nothing left in a free slot |
| Encapsulation | `src/ml_kem.c:227-307`, `src/ml_kem_encaps.c` | the contexts of three subpools, or one of its own per call | choose level, copy key, encapsulate, output, wipe, release or free | ciphertext and secret match key and message; no output on error; nothing leaked or left |
| Key object | `src/ml_kem.c:41-199`, `src/ml_kem_create_keys.c`, `src/ml_kem_decaps_pool.c` | keys, temporary seeds, pool: up to 15 heap blocks | create, import, destroy | complete or nothing; no double free; secrets wiped before they are freed |
| Encapsulation pool | `src/ml_kem.c:466-630`, `src/ml_kem_encaps_pool.c` | a descriptor and 4 blocks per level | create, destroy | complete or nothing; the destructor copes with a partly built pool |
| Pool memory layout | `src/ml_kem_decaps_pool.c:166-231`, `src/ml_kem_encaps_pool.c:105-229`, `src/ml_kem_encaps.c:40-122`, `src/ml_kem_create_keys.c:79-139` | slices of shared buffers | slicing, wipe ranges | slices disjoint and aligned; a wipe covers exactly `u` .. `poly` |
| K-PKE data flow | `src/ml_kem_create_keys.c:318-420`, `src/ml_kem_encaps.c:191-579`, `src/ml_kem_decrypt.c:21-95` | the polynomials of a context, the full matrix | generate, fill matrix, encrypt, decrypt | one matrix, its transpose where it belongs, fresh noise, clean accumulators |
| Key codec | `src/ml_kem.c:98-170, 387-447, 682-743`, `src/ml_kem_create_keys.c:423-470` | none | export, pack, unpack, validate, import | import of an export is the identity; 12-bit fields |
| Arithmetic | `src/ml_kem_core_header.h:352-516`, `src/ml_kem_ntt_main.c` | none | Barrett, CBD, rejection sampling, NTT | reference functions mod 3329, no overflow |
| Compression | `src/ml_kem_encaps.c:581-678`, `src/ml_kem_decrypt.c:103-217` | none | compress, pack, unpack, decode | rounding error bound, inverse packing |
| Hashing | `src/ml_kem_shake.c`, `ml_kem_sha3.c`, `keccak_1600.c` | a 200-byte state in the slot | absorb, finalize, squeeze, permute | the stream does not depend on how it is asked for; the permutation is the standard's |
| Ports | `ports/userspace`, `ports/linux_kernel`, `ports/freertos` | none | allocate, wipe, atomics, entropy | what the core assumes of them |
| Public header | `src/ml_kem.h` | | declarations | |
| Tests, benchmarks, examples | `tests/`, `benchmarks/`, `ports/freertos/examples` | | clients | not part of the library |

Interaction: the library has no threads, locks or queues of its own. Callers'
threads meet in the flags of the slots only, and what one call leaves in a slot
is the next call's initial state. Decapsulation calls the encapsulation routine
on the context of its slot, with the message it found. Keys are owned by the
key object and shared, read only, by all slots of its pool.

Where it is hard: a scan that races with releases (the answer `-EBUSY` comes
from flags read at different times); accumulators that are added to and never
assigned, so that correctness of a call rests on the wipe of the one before;
the order of the wipe and the release in memory; one unpacked key per slot that
every wipe must spare; failure of any of up to 15 allocations or of the entropy
source between two steps; destructors that work on partly built objects; byte
streams that arrive in pieces (random bytes, XOF buffers, the two halves of
`z || c`), with one position that also tells a first call from a continued one;
fields of 4, 5, 10, 11 and 12 bits across byte boundaries, written and read in
different files; arithmetic without division or branches, which must be exact for
every operand that can occur; in-place transforms with tables written by hand.
`PROJECT.json` lists these hazards with their lines.

## 2. Modules

| Module | Models | Builds on |
| --- | --- | --- |
| `SlotLease` | abstract: a slot is leased to one caller; refusal only if the callers outnumber the slots | |
| `SlotPool` | the flags and the scan, one action per atomic operation | implements `SlotLease` |
| `SlotPoolScan` | `SlotPool` with a history of the states a call saw | extends `SlotPool` |
| `EncapsContext` | `struct ml_kem_encaps_ctx`, the encapsulation routine and its wipe as operators | |
| `DecapsPool` | `ml_kem_decaps_core` on the pool of one key | extends `EncapsContext`, implements `SlotPool` |
| `EncapsPool` | `ml_kem_encaps_core`, pooled and standalone, three levels | extends `EncapsContext`, implements one `SlotPool` per level |
| `ObjectHeap` | the blocks of an object and what they hold | |
| `KeyObject` | create, import and destroy of key objects | extends `ObjectHeap` |
| `EncapsPoolObject` | create, use and destroy of encapsulation pools | extends `ObjectHeap` |
| `Application` | key objects and encapsulation pools on one heap, interleaved | extends `KeyObject`, instantiates `EncapsPoolObject` |
| `PoolLayout` | the cutting of every block into buffers, and the ranges of the wipes | |
| `Xof` | abstract: an endless stream of bytes for a message, read in pieces | |
| `Shake` | the sponge, SHAKE and SHA-3 on one state, and the ways they are called | implements `Xof` |
| `MatrixSampler` | rejection sampling over one XOF buffer after the other | |
| `Entropy` | the three draws and the entropy sources of the ports | |
| `Streams` | the three above, one of them per behaviour | extends `Shake` |
| `ModArith` | arithmetic modulo 3329 with its integer widths | |
| `ModArithSweep`, `CompressionSweep` | walks through their operands | extend `ModArith`, `Compression` |
| `KeyCodec` | keys as bytes: export, import, publication | extends `ModArith` |
| `Compression` | compression, decompression, decoding of one coefficient | extends `ModArith` |
| `CiphertextCodec` | the two bit accumulators and the layout of a ciphertext | extends `Compression` |
| `Codecs` | `KeyCodec`, `CiphertextCodec`, `CompressionSweep`, one per behaviour | extends `KeyCodec` |
| `FormalPoly` | polynomials as formal sums of sampled ones, with their domain | |
| `KpkeFlow` | key generation, encryption, decryption on formal polynomials | extends `FormalPoly` |
| `Ntt` | transform, product and inverse, block by block | extends `ModArith` |
| `Cbd` | centered binomial noise on words of bits | extends `ModArith` |
| `Keccak` | the five step mappings on 64-bit lanes | |
| `Primitives` | `ModArithSweep`, `Ntt`, `Cbd`, `Keccak`, `KpkeFlow`, one per behaviour | extends `ModArithSweep` |
| `MCDecapsPool`, `MCEncapsPool` | instances for TLC | |
| `SlotPoolProofs`, `DecapsPoolProofs`, `EncapsPoolProofs` | theorems about the pools, with proofs | extend the module they are about |
| `ApplicationProofs` | theorems about the objects, their blocks, and how these are cut | extends `Application`, `PoolLayout` |
| `StreamsProofs`, `CodecsProofs` | theorems about sampling, randomness, the sponge, the codecs | |
| `TransformProofs` | theorems about the arithmetic and the transform | extends `Primitives` |
| `PrimitivesProofs` | theorems about the noise, the permutation and the scheme | extends `TransformProofs` |

`Streams`, `Codecs` and `Primitives` gather parts that share no state: the
initial state chooses a part, and the others stay at rest. This is no
composition, it only lets one run answer one question about several leaves of the
library. `Application` is one: every step of a key object may come between any
two steps of a pool. In each module, definitions introduced as slips are
plausible mistakes in the definition next to them; with one of them in place TLC
finds the corresponding property violated.

### The slot protocol

`pc[t]` is `out`, `scan` or `hold`; `idx[t]` is the loop index `i` and, while
holding, `curr_slot`. `Acquire` and `Skip` are the two results of one
`ml_kem_try_acquire_slot`, a single compare-and-swap in all three ports; `Busy`
is the return after the loop; `Release` stores 1. The loop runs from 0 each
time and looks at each flag once.

### The working contexts

Polynomials and byte strings are *symbolic terms*: a buffer's value says what it
was computed from. `Ciphertext(rho, t, y, m, r)` is the pair of the terms of `u`
and `v`, `Derive(m, h)` stands for `SHA3-512(m || h)`, whose two halves
determine each other. The abstraction keeps what memory reuse can spoil: `u`,
`v` and the `poly` of decryption are accumulators (`ml_kem_add(x, x, ...)` at
`src/ml_kem_encaps.c:396, 414, 471, 490, 514, 537, 572` and
`src/ml_kem_decrypt.c:67`), the message is or-ed together bit by bit
(`src/ml_kem_decrypt.c:88`), and anything added to a value that is not zero is
`Junk`. Every other field is overwritten before it is read.

The term algebra makes the scheme ideal: decryption of an honest ciphertext
gives its message (the real failure probability is below 2^-138), different
inputs give different hashes. `Plain` says which message decryption finds in a
forged ciphertext, arbitrary and fixed.

The wiping functions' stores are plain stores. In both pool modules a wipe goes
into `unseen[t]`, the stores of thread `t` that others may not see yet, and
`Drain` makes them visible one buffer at a time, at any moment. `Release`, a
store with release order, waits until none is left: this is what
`memory_order_release` promises and the only place where the memory order of
the ports matters. Earlier stores to the same memory are made visible at once,
since the same thread overwrites them with the wipe and only a holder reads
them.

### Decapsulation and encapsulation

`DecapsPool`: `Call`/`Invalid`, `TryAcquire`, `Busy`, `DecryptStep`,
`ReencapsStep`, `SelectStep`, two `WipeStep`s, `Drain`, `Release`; one action
per function `ml_kem_decaps_core` calls, in its order. Working memory is indexed
by slot, not by thread, so that a slot in two hands would show.
`arg`, `ret` and `result` remember the last call of each caller for the
properties; each call brings a fresh result buffer (`Zero`).

`EncapsPool`: `CallPool` and `CallAlone` choose the context, `CopyKey` is the
`memcpy` of the key into a pooled slot, `EncapsulateStep` and `EntropyFails` are
the two ends of `ml_kem_encapsulation`, `Output` copies secret and ciphertext,
`Wipe`, `Release` and `Destroy` are the common cleanup path. `Junk` in `ct`/`ss`
stands for what the caller's buffers held before. `drawn` remembers the random
message; the entropy source delivers no message that is still some caller's.

### Objects on the heap

`ObjectHeap` holds, per object, the live blocks and whether each holds nothing,
public data or secrets. `fault` records accesses to blocks that are not live,
`spilled` what was in a block when it was freed. `KeyObject` asks for the blocks
one by one in the order of the code; a failed request frees the blocks before
it, as the chain of labels does, and the caller frees the rest. `Bind` fills the
pool, `FullMatrix` is the extra block of `FULL_MATRIX=1` with its own label.
`EncapsPoolObject` keeps `ptrs`, the fields of the pool that are not NULL, and
the destructor frees what they lead to, on partly built pools too. `Application`
runs both on one heap.

### The layout of the blocks

`PoolLayout` has the real sizes. `kind` says whose memory is cut: a
decapsulation pool's, an encapsulation subpool's, a standalone context's, or the
key generator's; one action is one pass of the slicing loop, with the running
pointers in `next`. A slice is a block, an offset and a length. The wipes are
modelled by the ranges they clear, so that `WipeExact` can compare them with the
slices: `2k + 2` polynomials from `u` on are `u`, `v`, `y` and `poly` only if
those four follow each other.

### Streams of bytes

`Shake` keeps `rate` and `pos` of the two contexts, the input not yet absorbed,
and the bytes still wanted; one action is one turn of a loop. A byte of the state
is the set of what was xor-ed into it, and Keccak-f is a *free* permutation: the
state remembers the states that went through it, so two states are equal only
when the same was fed in the same order. `Xof` is what the callers want; the
refinement compares the bytes delivered with those of the padded message cut
into blocks, computed without `pos`. The callers are those of the library: a
digest, an expansion, a repeated `shake128` on one seed, and the fallback secret
whose input `z || c` is absorbed in two parts with a second `shake_ctx_init` in
between. Which message is first on a state, and what an earlier user left in the
memory, is free.

`MatrixSampler` is the loop of the callers around
`ml_kem_gen_polynomial_for_matrix`. A candidate is its number in the stream;
whether it is below *q* is free, so every pattern of rejections occurs. Two cells
behind the polynomial show a write beyond it.

`Entropy` draws `d` and then `z`, or `m`, from the caller's function or the
port's source. `getrandom` (outside the library) answers with any number of the
bytes asked for, with EINTR, or with another error; `buf` counts how often each
byte was filled, so that gaps and overlaps show.

### Codecs

`KeyCodec` has a key object, a buffer of the caller's and a peer. A generated key
has coefficients at the boundaries of bytes and of *q*; a buffer of unknown
origin has fields on both sides of *q* and a right or a wrong hash. 32-byte seeds
and hashes take one element. `Compression` and `ModArith` compute with the widths
of the code: `% 65536` for `u16`; the 64-bit products are evaluated in halves or
digits because TLC's integers have 32 bits. `CiphertextCodec` is the packing and
the unpacking loop, one coefficient at a time, over the accumulator.

### The scheme and its primitives

`KpkeFlow` is about *which* polynomials are multiplied and added. A sampled
polynomial is an atom named by the bytes the XOF is fed (seed, two indices or a
counter) and the distribution. `FormalPoly` adds and multiplies sums of such
atoms and carries the domain along: a transform of something transformed, or a
product of coefficients, is "mixed". Key generation, the fill of the full matrix,
`y`, `u`, `v`, decryption and re-encryption are the loops of the code, and the
contexts are reused from message to message. Decoding finds the message under
noise, not under a term that still has a matrix polynomial.

`Ntt` works on 256 coefficients with the tables of the source, one action per
block of butterflies (and eight products at a time); the input is X^m, the second
factor the transform of X^n. `Cbd` counts bits in words, field by field. `Keccak`
is the code's theta, rho, pi (the chain of 24 in-place moves), chi and iota, on
lanes as sets of bits, compared with the bit-level definition of FIPS 202, which
generates offsets and round constants where the code has tables.

## 3. Runs

| Run | Instance | Shows |
| --- | --- | --- |
| `slotpool_overbooked` | 4 retrying threads, 3 slots | `TypeOK`, `ExclusiveUse`, `ScanBound`, `ImplementsLease`, `EveryCallReturns`, `SomeoneGetsThrough` |
| `slotpool_enough` | 3 retrying threads, 3 slots | `BusyOnlyIfOverbooked`, `EveryoneGetsThrough` |
| `slotpool_scan` | 3 threads, 2 slots | `BusyMeansFull` is **violated** |
| `decaps_safety` | 3 threads, 2 slots, 2 honest and 1 forged ciphertext, full matrix | `CorrectSecret`, `FreeSlotsAsCreated`, `NoStoreAfterRelease`, `ImplementsPool` |
| `decaps_liveness` | 2 threads, 1 slot, 1 honest and 1 forged ciphertext | `EveryCallAnswered` |
| `encaps_safety` | 2 threads, 3 levels with 1, 1 and 0 slots, 4 keys (two of one level), 3 messages | `OutputsMatch`, `NoOutputOnError`, `FreeSlotsWiped`, `HeapMatchesCalls`, `WipedBeforeFree`, `ImplementsPools` |
| `objects` | a key object with the full matrix and an encapsulation pool, every choice of levels | `NothingLeaks`, `NoBadAccess`, `NoSecretFreed` |
| `keyobject_wipe` | 1 key object | `DestroyWipesAll` is **violated** |
| `pool_layout` | every level, up to 8 slots, real sizes | `SlicesDisjoint`, `SlicesFit`, `WipeExact` |
| `streams` | rates 4, 3, 2; polynomials of 5 coefficients from buffers of 4 candidates; seeds of 8 bytes | `ImplementsXof`, `SamplesStream`, `SeedsSound`, `EveryCallEnds` |
| `codecs` | keys of 2 coefficients per polynomial; ciphertexts of 8; every coefficient and width through compression | `ImportRestores`, `PublicKeyReadable`, `PackAndUnpackAgree`, `CompressionExact` |
| `primitives` | every residue, every monomial, noise of 16 coefficients, 9 Keccak states, 2 messages | `ModularExact`, `NegacyclicProduct`, `NoiseFromStream`, `PermutationIsKeccak`, `ZeroStateKnown`, `NoiseOnce`, `AlgorithmsAgree` |

### Why the bounds are enough

- *Scan.* A caller meets at most one holder per slot, so the interesting cases
  are: a slot is released behind a scan, two callers race for one flag, and
  callers outnumber slots by one; 3 or 4 threads with 2 or 3 slots have them all,
  and the safety results are proved without bounds anyway.
- *Contexts.* A context is affected by the last call in it only; two messages
  plus a forged ciphertext, and two keys of one level plus one of another, make
  every pair of consecutive users differ. Three messages in `encaps_safety` are
  one more than two callers can hold, so that drawing is never stuck. Threads
  (and messages of `EncapsPool`) are interchangeable and used as symmetry in the
  safety runs only.
- *Objects.* Allocation sequences are finite and run to the end, with a failure
  at every point; one object of each kind suffices for every pair of steps of the
  two, which share nothing but the heap.
- *Layout.* The offsets are linear in the slot number; 8 slots are for TLC,
  disjointness, fit and wipes are proved up to the 128 slots the code admits.
- *Sponge.* Inputs reach two blocks and one byte of the smaller SHAKE rate,
  outputs two blocks and one byte of the larger, over up to three calls
  (`MaxCalls`): every position of an end of input and of an end of output
  relative to the rate occurs, including both boundaries and the lengths that
  need two permutations. Nothing in the code depends on the rate otherwise.
- *Sampler.* Five coefficients from buffers of four candidates: an odd count,
  hence a triple with a second candidate too many, a buffer that fills the
  polynomial exactly, and buffers that add nothing. `MaxRejects` (6, more than
  a whole buffer) bounds the stream's rejections; a stream that rejects for ever
  would keep the code in its loop, as it would FIPS 203's.
- *Entropy.* 8 bytes in answers of every size.
- *Sponge to ciphertexts.* `StreamsProofs` and `CodecsProofs` prove the same for
  every rate, length and polynomial; the instances are there to be searched
  quickly, and to run the mutants of `PROJECT.json`.
- *Keys.* A twelve-bit field depends on two bytes and its parity only; the
  vectors differ in one place at every position. Two levels make two lengths, one
  of which an oversized buffer may hit.
- *Ciphertexts.* 8 coefficients of *d* bits fill *d* bytes, which is one full
  period of the accumulator for every *d*; levels 2 and 4 have all four widths.
- *Compression, arithmetic.* All 3329 coefficients with all four widths; all
  residues, with second operands and products at the boundaries.
  `TransformProofs` has the rest.
- *NTT.* All 256 monomials; every step is linear in the buffer once every
  coefficient is reduced (`StepsAreLinear`). The second factor is 1, X and X^255
  (no shift, the smallest, and one that wraps all but one). Proved for every pair
  of monomials.
- *Noise.* Every value of each field, against the two fillings of the others
  from which a carry could come; 16 coefficients are two or four words. Proved
  for every stream and every number of coefficients.
- *Keccak.* 24 rounds from the zero state (with the published result) and from
  single bits and patterns; theta, rho and pi are linear, and chi acts on rows,
  all of whose patterns the 24 rounds produce. The step mappings are proved for
  every state.
- *Scheme.* All three levels with and without the full matrix; the second message
  meets the contexts as the first one left them, and either may be damaged. What
  does not depend on the values of the sums is proved for any number of both.

Deadlock checking is off where the system really stops: a block is cut once, an
entropy draw ends, a ciphertext is done when it is unpacked, a primitive returns.

### Disagreements with the documentation

- `slotpool_scan`. `src/README.md:220` says `-EBUSY` "indicates that no matching
  slot is currently free". TLC finds a call that returns `-EBUSY` although in no
  state of the call all slots were occupied: it finds slot 0 taken; slot 0 is
  released; another caller that had already passed slot 0 takes slot 1; the call
  finds slot 1 taken and gives up. The weaker statement that does hold, and is
  proved, is `BusyOnlyIfOverbooked`.
- `keyobject_wipe`. The comment at `src/ml_kem_decaps_pool.c:311-316` says the
  pool destructor wipes all memory, "slot descriptors and the pool head itself"
  included; the code frees these two (and the matrix) without zeroing them. They
  hold pointers, counts and public data: `NoSecretFreed` holds of the same code.

Three more comments differ from the code and have no run, since what the code
does is right and is what the modules have: `src/ml_kem_core_header.h:484` says
the sampler returns `-ENOMEM` when bytes are missing (it returns the number of
coefficients, and its callers rely on that); `:362` says Barrett reduction takes
a 32-bit value (it is exact up to 2^24, proved, and every caller stays there);
`src/ml_kem_encaps.c:140-141` lists the unpacked public key among what is wiped
(it is spared, and `FreeSlotsAsCreated` needs that).

### Fairness

- `SlotPool!Fairness` and `DecapsPool!Fairness`: weak fairness of each thread's
  own steps inside a call. A thread in the library never waits for another one,
  so its next step stays enabled, and any preemptive scheduler eventually runs
  it. Nobody is obliged to call. `Work(t)` in `DecapsPool` includes `Drain`:
  store buffers drain in finite time.
- `RetrySpec` adds weak fairness of `Enter`: callers that retry, as in
  `tests/test_memory_safety/test.c:97-115`. Under contention a particular caller
  may be refused for ever, which is why `SomeoneGetsThrough` speaks of some
  caller, and `EveryoneGetsThrough` only of pools with a slot for each.
- `StreamsSpec`: weak fairness of the steps inside a call, as above. The only
  strong fairness is that of `Answer \/ Refused` in `Entropy`: a signal may
  interrupt `getrandom` any number of times, but not every time for ever. Without
  it the loop of the userspace port need not end.

## 4. Proofs

`SlotPoolProofs`, from `SlotPoolAssumption` (finitely many threads, at least one
slot):

- `IInv == TypeOK /\ FlagsMatchHolders /\ MutualExclusion /\ ScanBound`.
  Exclusion alone is not inductive: the flag must tell whether the slot is held.
  `BusyOnlyIfOverbooked` says nothing about the middle of a scan; `ScanBound` is
  its strengthening: of *n* callers at most *n - i* hold slot *i* or later or
  have scanned up to *i*. A skip of slot *i* is the hard step (`SkipBound`): its
  flag is 0, so somebody holds *i* and is not among those that get past it;
  `BoundKept` handles the steps by which nobody new gets as far.
- Theorems: `TypeCorrect`, `ExclusiveSlots` (`ExclusiveUse`: no slot is shared
  and none is lost), `ScanBounded`, `NoNeedlessBusy`, and `ScanImplementsLease`, the refinement of `SlotLease`, in
  which `Busy` needs `NoNeedlessBusy` and `Acquire` needs `FlagsMatchHolders`.

`DecapsPoolProofs`, from `DecapsPoolAssumption` (`Junk` is no ciphertext, forged
ciphertexts are not honest, decryption of a forged one gives some message):

- `IInv` joins `TypeOK`, `MemoryOK` (shapes of the contexts), `Exclusive`,
  `NoStoreAfterRelease`, `FreeSlotsAsCreated`, `CorrectSecret` and, for each
  caller, `Stage(t)`: what its slot holds at each step of the call. `Stage`
  closes the circle that makes the invariant inductive: a slot that is free is
  as created, so decryption and re-encryption start from zero accumulators, so
  the secret is right, and the two wipes bring the slot back.
- One lemma per action (`AcquireInv` .. `ReleaseInv`), on top of lemmas about the
  operators of `EncapsContext` (`ReencapsulateCorrect`, `DecryptCorrect`,
  `WipeRestores`).
- Theorems: `TypeCorrect`, `SecretsCorrect`, `SlotsClean`, `WipesContained`,
  `DecapsImplementsPool` (so all of `SlotPoolProofs` holds of decapsulation), and
  `HonestAgreement`, which has both sides of the code in it: in every reachable
  state a call that returned 0 gave the ciphertext that `EncapsulateFresh` made in
  a sender's context the `K_bar` in that same context, whatever key the context
  held before, and gave a forged one the fallback. It joins `SecretsCorrect` with
  what the two routines compute (`SenderCorrect`, `HonestMessage`,
  `ForgedRejected`).

The layout of the blocks, in `ApplicationProofs`, from `LayoutAssumption` (the
three levels, at most 128 slots):

- Disjointness is not inductive: nothing keeps the next slot's buffers off the
  earlier ones. `LayoutInv` adds `Pointers`, which ties each running pointer to
  stride times slot number, and `InWindows`: the buffers of slot *j* lie in
  window *j* of their block. Windows do not meet (`WindowsApart`), and within one
  the buffers follow each other (`EncapsPolysFit`, `DecryptPolysFit`,
  `RawBuffersFit`), so a pass preserves `LayoutInv` (`NextWindow` and one lemma per
  action).
- `WipesAreExact` needs another strengthening, `Exact`: the slices are those of
  the slots cut so far and no others (`SlotSlices`), so that the range a wipe
  clears in a window can be compared with the buffers that lie in it
  (`EncapsWipe`, `AloneWipe`, `TempWipe`: `u`, `v`, `y`, `poly` are neighbours and
  `2k + 2` polynomials are exactly these four).
- Theorems: `SlicesAreDisjoint`, `SlicesAllFit` (with its halves
  `SlicesStayInside` and `StateIsAligned`), `WipesAreExact`.

`EncapsPoolProofs`, from `EncapsPoolAssumption` (finitely many threads, any
number of slots per level, each key of one level, fresh buffers hold neither key
nor message):

- `IInv` joins `HeapMatchesCalls`, `MemoryOK`, `Exclusive` (per level),
  `WipesOwned` (only a context in use has stores under way), `Stage(t)`,
  `FreeSlotsWiped`, `OutputsMatch` and `NoOutputOnError`. The circle is that of
  decapsulation, with two differences: a free slot is wiped but for the public
  key of an earlier user, which `CopyKey` replaces, and one cleanup path serves
  success, failure of the entropy source, slots and contexts of one's own.
- Theorems: `OutputsCorrect`, `ErrorsWriteNothing`, `SlotsClean`,
  `ContextsOwned`, `FreedClean`, and `EncapsImplementsPools`: each level's flags
  are a `SlotPool`.

`ApplicationProofs`, from `KeyObjectAssumption` and `ApplicationAssumption` (every
object is either a key object or a pool), for any number of both on one heap:

- `AppInv == KeyInv /\ PoolInv /\ NoBadAccess /\ NoSecretFreed`. What makes it
  inductive is `KeyStage(o)` and `PoolStage(o)`: for each step of a construction,
  an unwinding or a destruction, exactly which blocks are live and which of them
  may hold secrets. `NothingLeaks` compares the two ends of a life only.
- Each action is shown to be good for its own object (`KeyStepGood`: no fault,
  nothing secret spilled, no other object's block touched); `KeysFramed` and
  `PoolsFramed` say that what does not touch an object keeps its stage. So the
  proof of an interleaving is that of the steps.
- Theorems: `Invariance`, `NoLeaks`, `NoFaults`, `SecretsWiped`.

`StreamsProofs`, from `ShakeAssumption` and `StreamsAssumption`:

- `StreamSampled`: `SamplerInv` adds to `SamplesStream` that a buffer is read in
  whole triples and a call asks for what is missing.
- `SeedsAreSound`: `EntropyInv` says that while a seed is drawn exactly the bytes
  before `offset` have come, each once, and that later seeds have none.
- `SpongeImplementsXof`, the refinement of `Xof` for every rate, length and
  number of calls. `SpongeInv` describes the state by the padded message:
  while absorbing, the blocks of the message before the current one went through
  the permutation and `pos` bytes of this one are xor-ed in (`Absorbing`); after
  the last call of it exactly the padded blocks did (`FinalizedBlocks`); while
  squeezing, `Len(out) = n * Rate + pos` after *n* further permutations
  (`Squeezing`). Between calls `pos` is not 0 once something was read, which is
  why the code may tell a continued call from a first one by `pos` alone.

`CodecsProofs`, from `CodecAssumption` (*N* even, not 0) and `CodecsAssumption`
(*N* divisible by 8):

- *Keys.* `CodecInv`: the key object is canonical (`KeyOK`), the buffer is an
  export of some object, a foreign key, or empty (`BufInv`), and the peer read what
  was published (`PeerInv`). The lemmas go up from two coefficients in three bytes
  (`PackPair`, `UnpackTriple`) over vectors (`PackVector`, `RepackVector`) to whole
  keys; `PaddingRefused` has the check of `ml_kem_validate_pk` on fields that are
  no residues. Theorems: `Invariance`, `PublicKeysReadable`, `ImportsRestore`.
- *Compression.* `Reciprocal`: the product by digits, carried, is within one of the
  quotient, for every numerator that occurs; `QuotientExact`: the correction makes
  it exact. From there `CompressExactAt`, `RoundTripIs`, `InvertsAt`, `DecodeAt`
  are arithmetic, and `CompressionIsExact` puts them together.
- *Ciphertexts.* What a byte or an accumulator holds is stated in terms of one
  *stream*, the compressed coefficients of a polynomial as bits: `HasBits(r,
  word, many, n)`. Bits may be appended to a word (`Appended`) and taken from it
  (`Dropped`), and a word is determined by its bits (`SameBits`). `CtInv` is then
  simple: bytes out and accumulator hold the stream up to coefficient *i*
  (`Packing`), respectively what was read and not yet taken (`Unpacking`), and what
  was unpacked is what compression left (`Restored`); `Layout` says where each
  polynomial's bytes are. One lemma per action (`PackStep` .. `UnpackNextStep`).
  `PackingAgrees` states what the run checks; `EveryPolynomialAgrees` drops the
  restriction to `Samples`: all polynomials with coefficients below *q*.

`CodecInv` and `CtInv` were checked by TLC on the instance of `codecs` before
they were proved.

`TransformProofs` (arithmetic, induction, transform) and `PrimitivesProofs` (noise,
permutation, scheme), from `ModArithAssumption` and `PrimitivesAssumption` (second
operands below *q*, products up to 2^24, polynomials of noise whose length is
divisible by 8, levels 2, 3 and 4):

- *Arithmetic.* The Barrett quotient is within one of *x / q* for all *x* up to
  2^24 (`QuotientBounds`, `RemainderBounds`), so that the two corrections
  suffice: `ReduceCorrect`; `SubIfGeCorrect` is the 16-bit wrap-around. From them
  `AddCorrect`, `SubCorrect` and `MulCorrect`, the latter for any two 12-bit
  numbers, because the fields of an unpacked public key are only known to have
  12 bits. `ModularSafe` states what the sweep checks, for any choice of second
  operands and of products up to 2^24.
- *Induction.* What a recursive function gives is proved by `LeastExists`: a set
  of numbers that is not empty has a least element, so the numbers at which a
  statement fails have none if the recursion carries it from smaller ones. This
  needs no theorem with an operator as its parameter.
- *Transform: loops.* `NttInv` ties the running index to the block,
  `128 / len + start / (2 len)` forwards and `256 / len - 1 - start / (2 len)`
  backwards (`ForwardTwiddle`, `BackwardTwiddle`), says that a block ends inside
  the buffer, and that every coefficient is a residue; without the first two the
  table might be read outside its 128 entries. Theorem: `TransformStaysReduced`,
  the first two parts of `NegacyclicProduct`.
- *Transform: powers and tables.* `Pow(e)` is the power of 17 that the recursive
  `Power` gives: exponents add (`PowSum`), 256 of them are a turn and 128 are -1
  (`PowWhole`, `PowHalf`). The reversal of seven bits is taken digit by digit
  (`RevDigits`); doubling an index shifts its reversal (`RevShift`,
  `RevTwiddle`). Whence `TablesArePowers`: all 256 entries of the two tables.
- *Transform: values.* `NttExact` gives every coefficient at every point of the
  loops in closed form. Before the layer of `len` = *l* block *b* of *2l*
  coefficients holds X^m modulo X^(2l) - 17^Root(l, b), that is `Value(l, m, c)`
  at *c*; within a layer the blocks before `start` are a layer ahead.
  `ForwardWing` and `BackwardWing` are one butterfly, `ProductValues` one
  iteration of the multiplication. In the inverse the values carry a factor
  (`Scaled`) that doubles with every layer, until the final scaling takes the 128
  away. `NttExact`
  was checked by TLC before. Theorem: `ProductIsRight`, all of
  `NegacyclicProduct`, for every pair of monomials.
- *Transform: every polynomial.* `After(g)` is the buffer that the current step
  makes when it finds *g*. `StepsAreLinear`: a step of the system is `After(f)`,
  and `After` of a combination of any two buffers is the combination of what it
  makes of each. `FactorsExchange` has the other factor of the product. That a
  polynomial is the sum of its 256 monomials is all that is missing from here to
  the product of any two polynomials.
- *Noise.* A word is a function from 32 positions to bits. `Plus` is defined by a
  recursive carry; under a mask no two bits of which are neighbours the carry has
  a closed form (`CarriesAre`), since it never passes the next position, and two
  (for eta = 3, three) masked summands become counts of two bits in fields that
  do not meet (`CountedTwo`, `CountedThree`). `CbdInv` says that the coefficients
  written so far are the differences of the counts of their bits in the stream,
  and that as many bytes were read as the iteration says. Theorem:
  `NoiseIsStream`.
- *Permutation.* `MappingsAreStandard`: on every state of 25 lanes each step
  mapping of the code does what the standard defines, bit by bit. Theta's parity
  of a column is a count there and five exclusive ors here (`ParityOfFive`); for
  rho and pi the standard walks through the lanes by a recursion (`VisitedIs`),
  the code has the offsets and the order of the moves written out (`OffsetIs`,
  `ChainIs`), and `MovesFollow` says that a lane is moved before it is
  overwritten; for iota the constants of all 24 rounds come out of the shift
  register of the standard (`RegisterIs`, `ConstantsAre`), which makes 168 bits
  by a recursion. Theorem: `PermutationIsStandard`, all of
  `PermutationIsKeccak`.
- *Scheme: noise.* `SchemeInv` gives for the key (`KeyStage`) and each context
  (`CallStage`) the monomials its buffers may have at that step: the row *i* of
  *t* has its own noise and products with a matrix polynomial in them, and so on.
  The noise polynomial itself is among them with coefficient 1, because nothing
  else in the sum is the same monomial (`SumKeeps`). So the seeds and counters of
  a finished key are exactly `sigma` with *0 .. 2k - 1*, those of a ciphertext
  besides the key's exactly `r` with *0 .. 2k*, and counting them is a
  bijection (`KeySeedsAre`, `CallSeedsAre`). Theorems: `SchemeSafe`,
  `NoiseIsOnce`, and `CallsStartClean`, the part `StartsClean` of
  `AlgorithmsAgree`.
- *Scheme: domains.* `DomainInv` follows each buffer through its life:
  accumulators are zero or transforms until the step that transforms them back
  and adds the noise, what travels is coefficients, the *u* of decryption turns
  row by row. It uses `SchemeInv` for what is clean. Theorem: `DomainsAgree`, the
  part `TypeOK` of `AlgorithmsAgree`.
- *Scheme: sums.* `ExactInv` says what every buffer is worth at every point of
  its loop: `Sums(g, F)`, *g* is the sum of the products of the sets of atoms in
  *F*, each once. Adding two such sums with no product in common gives one
  (`SumsAdd`), and multiplying one by an atom that is in none of its products
  (`SumsMultiply`) too; that what a loop adds is new each time is `PublicNext`,
  `UNext`, `VNext` and `PolyNext`. So the *i*-th row of *t* ends as
  `PublicFull(k, i)`, the polynomials of a ciphertext as `UFull` and `VFull`. In
  decryption the terms with a matrix polynomial of both sums are the same sets
  (`MatrixCancels`: the transposed index, and why the same matrix on both sides
  matters), what is left besides the message has at most one factor of the key's
  and the damage none (`Decrypted`), which is `Legible`. Equal ciphertexts have
  equal sums, and a damaged one has a product no encryption has
  (`SameWhenIntact`). Sums, bags and products are folds in the model; what is used
  of a fold is its value over one or two elements (`SumOfOne`, `PairCounted`),
  because distinct products never meet in one coefficient. Theorem:
  `KeysAlwaysAgree`, all of `AlgorithmsAgree`.

Only model-checked:

- the liveness properties: fairness and ENABLED are beyond the prover;
- `BusyMeansFull` and `DestroyWipesAll`, which fail;
- `ZeroStateKnown`, the published answer: a computation of 24 rounds from one
  state, which TLC does and a proof would only repeat.

## 5. Not modelled, and the plan

Not modelled:

- the *size* of the noise, hence the failure rate of decryption (below 2^-138):
  `KpkeFlow` and the pool modules take the message to be legible whenever only
  noise is on top of it; `RoundingBounded` has the part of compression;
- timing and side channels, and what compilers do to the wipes;
- the translation of error codes to error pointers in the kernel port and the
  stubs of the FreeRTOS port that return NULL: one expression each;
- the public header (declarations), tests, benchmarks and the example boards;
- a pool that is destroyed while a call works in it: the caller breaks the
  contract of `src/README.md:111`, and the code has nothing to say about it.

What could be added:

1. That a polynomial is the sum of its monomials, as a fold over its 256
   coefficients, which with `ProductIsRight`, `StepsAreLinear` and
   `FactorsExchange` gives the product of any two polynomials as one theorem.
2. The bound on the noise, as intervals instead of formal sums, from which the
   failure rate of decryption would follow.
3. The translation of error codes in the kernel port and the stubs of the FreeRTOS
   port, once they do more than one expression each.
