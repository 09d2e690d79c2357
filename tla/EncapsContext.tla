--------------------------- MODULE EncapsContext ----------------------------
(***************************************************************************)
(* The encapsulation routine on its working context, struct                *)
(* ml_kem_encaps_ctx, which both pools reuse from call to call.            *)
(*                                                                         *)
(* Polynomials, seeds and byte strings are symbolic terms: a term names    *)
(* what a buffer was computed from.  What matters is kept: u and v are     *)
(* accumulators, added to and never assigned, so that what a previous call *)
(* left in them spoils the result; everything else is overwritten.         *)
(***************************************************************************)

CONSTANTS
  Zero,     \* the content of a wiped buffer
  Junk      \* a value computed from the leftovers of another call

-----------------------------------------------------------------------------
(* The symbolic functions of the scheme, for a serialized public key pk. *)

Vector(pk) == <<"t", pk>>      \* the k polynomials t of pk, unpacked
Rho(pk) == <<"rho", pk>>       \* the last 32 bytes of pk, the matrix seed
Hash(pk) == <<"H", pk>>        \* SHA3-256(pk)

\* SHA3-512(m || h): its halves K_bar and r determine each other, so that one
\* term stands for both.
Derive(m, h) == <<m, h>>

\* ml_kem_add into a buffer that should be zero.
AddInto(old, x) == IF old = Zero THEN x ELSE Junk

\* What K-PKE encryption of m under pk computes in fresh buffers.
Ciphertext(rho, t, y, m, r) == <<  <<rho, y, r>>, <<t, y, r, m>> >>

\* The reference: the ciphertext and the shared secret of m under pk.
EncapsCiphertext(pk, m) ==
  LET r == Derive(m, Hash(pk)) IN Ciphertext(Rho(pk), Vector(pk), r, m, r)
EncapsSecret(pk, m) == Derive(m, Hash(pk))

-----------------------------------------------------------------------------
(* The context and its operations.  The temporary polynomial poly is       *)
(* overwritten before each use and zeroed after it inside every function,  *)
(* so that it has no field of its own.                                     *)

\* A context as the allocators leave it.  A decapsulation slot gets the key of
\* its pool, packed and unpacked; a pooled encapsulation slot gets neither; a
\* standalone context gets the packed key.
NewContext(packed, unpacked) ==
  [public_key_msg |-> packed, public_key |-> unpacked,
   seed_rho |-> Zero, seed_m |-> Zero, K_bar |-> Zero,
   u |-> Zero, v |-> Zero, y |-> Zero,
   ciphertext |-> Zero, raw_bytes |-> Zero]

\* ml_kem_create_temp_secret_y: y from r, through the XOF buffer.
CreateY(e, r) == [e EXCEPT !.y = r, !.raw_bytes = r]

\* ml_kem_create_u and ml_kem_create_u_full_matrix: u += A*y + e1.
CreateU(e, r) ==
  [e EXCEPT !.u = AddInto(@, <<e.seed_rho, e.y, r>>), !.raw_bytes = r]

\* ml_kem_create_v: v += t*y + e2 + m.
CreateV(e, r) ==
  [e EXCEPT !.v = AddInto(@, <<e.public_key, e.y, r, e.seed_m>>), !.raw_bytes = r]

CompressCiphertext(e) == [e EXCEPT !.ciphertext = <<e.u, e.v>>]

\* From the derivation of K_bar and r on, both callers of ml_kem_encapsulation
\* take the same path.
Encrypt(e, m, h) ==
  LET r == Derive(m, h)
      seeded == [e EXCEPT !.seed_m = m, !.K_bar = r, !.seed_rho = Rho(e.public_key_msg)]
  IN  CompressCiphertext(CreateV(CreateU(CreateY(seeded, r), r), r))

UnpackKey(e) == [e EXCEPT !.public_key = Vector(e.public_key_msg)]

\* ml_kem_encapsulation(ctx, msg, hash_pk, ...) during decapsulation: the
\* message and the hash are given, the key was unpacked when the pool was made.
Reencapsulate(e, m, h) == Encrypt(e, m, h)

\* ml_kem_encapsulation(ctx, NULL, NULL, ...) with the random message m drawn:
\* the hash is computed and the key unpacked from the packed key.
EncapsulateFresh(e, m) == Encrypt(UnpackKey(e), m, Hash(e.public_key_msg))

\* Slips used to test the properties: the accumulators or the secret stay
\* behind.
KeepAccumulators(e) ==
  [NewContext(e.public_key_msg, e.public_key) EXCEPT !.u = e.u, !.v = e.v]
KeepSecret(e) ==
  [NewContext(e.public_key_msg, e.public_key) EXCEPT !.K_bar = e.K_bar]

\* ml_kem_wipe_encaps zeroes everything but the packed and the unpacked key.
WipeEncaps(e) == NewContext(e.public_key_msg, e.public_key)
=============================================================================
