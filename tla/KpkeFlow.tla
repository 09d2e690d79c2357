------------------------------ MODULE KpkeFlow ------------------------------
(***************************************************************************)
(* What is computed from what: key generation, the fill of the full matrix, *)
(* encapsulation by a client and decapsulation in a slot of the pool, loop  *)
(* by loop, on formal polynomials. A sampled polynomial is named by the     *)
(* seed, the bytes appended to it and the distribution, so two samples are  *)
(* equal exactly when the code feeds the XOF the same bytes. The client's   *)
(* context and the slot are used again for the next message, and their      *)
(* accumulators start from whatever the last use left in them.              *)
(***************************************************************************)
EXTENDS FormalPoly, Sequences

CONSTANTS Levels,     \* the values of k
          Rounds,     \* messages the client encapsulates
          Damages     \* ciphertexts that are changed on their way

VARIABLES
  k, full,     \* the level; whether the build keeps the full matrix
  keygen,      \* [pc, i, j] of key generation and of the matrix fill
  secret, t,   \* the key pair; s and t lie in the domain of the transform
  full_matrix,
  job,         \* [pc, i, j, m] of the encapsulation each context runs
  y, u, v,     \* buffers of each encapsulation context
  decrypt,     \* [u, v, poly, m, ciphertext] of the slot's decryption context
  wire,        \* the ciphertext on its way, if any
  sent, damaged, results

vars == <<k, full, keygen, secret, t, full_matrix, job, y, u, v, decrypt,
          wire, sent, damaged, results>>

Contexts == {"client", "slot"}
Rows == 0 .. k - 1

\* ML_KEM_CBD_ETA_3 for the first level, of the key's and of y's noise.
eta1 == IF k = 2 THEN 3 ELSE 2

\* A message is a set: message bits are or-ed into a buffer, so that what an
\* earlier decryption left there would join the new one. 0 stands for bits
\* decoded from a polynomial in which the message is drowned.
Drowned == {0}

MatrixPoly(b32, b33) == SampledInNtt(<<"A", b32, b33>>)
Noise(seed, counter, eta) == Atom(<<"noise", seed, counter, eta>>)
Message(m) == Atom(<<"m", m>>)
sigma == <<"sigma", {}>>
r(m) == <<"r", m>>

\* What compression and decompression add to polynomial p of m's ciphertext.
Rounding(m, p) == Atom(<<"rounding", m, p>>)

\* Slips used to test the properties: the noise counter of e not moved past
\* those of s; the full matrix filled with its indices exchanged.
KeyNoiseFromZero(row) == row
FillTransposed(i, j) == MatrixPoly(j, i)

KeySeed(row, col) == MatrixPoly(col, row)
KeyNoiseCounter(row) == k + row
FillSeed(i, j) == MatrixPoly(i, j)
TemporarySecret(c, i) == Ntt(Noise(r(job[c].m), i, eta1))

\* ml_kem_wipe_decrypt on u, v and poly, which share an allocation, and on m.
DecryptWiped == [decrypt EXCEPT !.u = [i \in Rows |-> Zero], !.v = Zero, !.poly = Zero, !.m = {}]

\* Zeroed at allocation: the public key in the temporary structure, the
\* polynomial buffers of the standalone context and of the pool.
Init ==
  /\ k \in Levels /\ full \in BOOLEAN
  /\ keygen = [pc |-> "secret", i |-> 0, j |-> 0]
  /\ secret = [i \in Rows |-> Zero] /\ t = [i \in Rows |-> Zero]
  /\ full_matrix = [p \in 0 .. k * k - 1 |-> Zero]
  /\ job = [c \in Contexts |-> [pc |-> "idle", i |-> 0, j |-> 0, m |-> {}]]
  /\ y = [c \in Contexts |-> [i \in Rows |-> Zero]]
  /\ u = [c \in Contexts |-> [i \in Rows |-> Zero]]
  /\ v = [c \in Contexts |-> Zero]
  /\ decrypt = [u |-> [i \in Rows |-> Zero], v |-> Zero, poly |-> Zero, m |-> {},
                ciphertext |-> << >>]
  /\ wire = << >> /\ sent = 0 /\ damaged = 0 /\ results = << >>

keyVars == <<secret, t, full_matrix>>
encapsVars == <<job, y, u, v>>
channelVars == <<decrypt, wire, sent, damaged, results>>
----------------------------------------------------------------------------
\* ml_kem_create_vector_poly: one polynomial of s.
CreateSecret ==
  /\ keygen.pc = "secret"
  /\ secret' = [secret EXCEPT ![keygen.i] = Ntt(Noise(sigma, keygen.i, eta1))]
  /\ keygen' = IF keygen.i + 1 < k THEN [keygen EXCEPT !.i = @ + 1]
                                   ELSE [pc |-> "public", i |-> 0, j |-> 0]
  /\ UNCHANGED <<k, full, t, full_matrix, encapsVars, channelVars>>

\* ml_kem_create_public_key: one term of row i, and the row's noise at its end.
CreatePublic ==
  /\ keygen.pc = "public"
  /\ \/ /\ keygen.j < k
        /\ t' = [t EXCEPT ![keygen.i] =
                   Add(@, Multiply(KeySeed(keygen.i, keygen.j), secret[keygen.j]))]
        /\ keygen' = [keygen EXCEPT !.j = @ + 1]
     \/ /\ keygen.j = k
        /\ t' = [t EXCEPT ![keygen.i] =
                   Add(@, Ntt(Noise(sigma, KeyNoiseCounter(keygen.i), eta1)))]
        /\ keygen' = IF keygen.i + 1 < k THEN [keygen EXCEPT !.i = @ + 1, !.j = 0]
                     ELSE [pc |-> IF full THEN "fill" ELSE "ready", i |-> 0, j |-> 0]
  /\ UNCHANGED <<k, full, secret, full_matrix, encapsVars, channelVars>>

\* get_full_matrix: one entry.
FillMatrix ==
  /\ keygen.pc = "fill"
  /\ full_matrix' = [full_matrix EXCEPT ![keygen.i * k + keygen.j] = FillSeed(keygen.i, keygen.j)]
  /\ keygen' = CASE keygen.j + 1 < k -> [keygen EXCEPT !.j = @ + 1]
                 [] keygen.j + 1 = k /\ keygen.i + 1 < k -> [keygen EXCEPT !.i = @ + 1, !.j = 0]
                 [] OTHER -> [keygen EXCEPT !.pc = "ready"]
  /\ UNCHANGED <<k, full, secret, t, encapsVars, channelVars>>
----------------------------------------------------------------------------
\* ml_kem_encapsulation without a message draws one.
StartClient ==
  /\ keygen.pc = "ready" /\ job["client"].pc = "idle" /\ sent < Rounds
  /\ sent' = sent + 1
  /\ job' = [job EXCEPT !["client"] = [pc |-> "y", i |-> 0, j |-> 0, m |-> {sent + 1}]]
  /\ UNCHANGED <<k, full, keygen, keyVars, y, u, v, decrypt, wire, damaged, results>>

\* ml_kem_create_temp_secret_y: one polynomial.
CreateY(c) ==
  /\ job[c].pc = "y"
  /\ LET i == job[c].i
     IN  /\ y' = [y EXCEPT ![c][i] = TemporarySecret(c, i)]
         /\ job' = [job EXCEPT ![c] = IF i + 1 < k THEN [@ EXCEPT !.i = i + 1]
                                                   ELSE [@ EXCEPT !.pc = "u", !.i = 0, !.j = 0]]
  /\ UNCHANGED <<k, full, keygen, keyVars, u, v, channelVars>>

\* The matrix entry of ml_kem_create_u or of ml_kem_create_u_full_matrix, which
\* only decapsulation calls.
Entry(c, i, j) == IF c = "slot" /\ full THEN full_matrix[i * k + j] ELSE MatrixPoly(i, j)

\* ml_kem_create_u: one term of u[i], or its transform and noise at the end.
CreateU(c) ==
  /\ job[c].pc = "u"
  /\ LET i == job[c].i
         j == job[c].j
     IN  \/ /\ j < k
            /\ u' = [u EXCEPT ![c][i] = Add(@, Multiply(Entry(c, i, j), y[c][j]))]
            /\ job' = [job EXCEPT ![c].j = j + 1]
         \/ /\ j = k
            /\ u' = [u EXCEPT ![c][i] = Add(Intt(@), Noise(r(job[c].m), k + i, 2))]
            /\ job' = [job EXCEPT ![c] = IF i + 1 < k THEN [@ EXCEPT !.i = i + 1, !.j = 0]
                                                      ELSE [@ EXCEPT !.pc = "v", !.i = 0]]
  /\ UNCHANGED <<k, full, keygen, keyVars, y, v, channelVars>>

\* ml_kem_create_v: one term, or the transform, the noise and the message.
CreateV(c) ==
  /\ job[c].pc = "v"
  /\ LET i == job[c].i
     IN  \/ /\ i < k
            /\ v' = [v EXCEPT ![c] = Add(@, Multiply(t[i], y[c][i]))]
            /\ job' = [job EXCEPT ![c].i = i + 1]
         \/ /\ i = k
            /\ v' = [v EXCEPT ![c] = Add(Add(Intt(@), Noise(r(job[c].m), 2 * k, 2)),
                                         Message(job[c].m))]
            /\ job' = [job EXCEPT ![c].pc = "done"]
  /\ UNCHANGED <<k, full, keygen, keyVars, y, u, channelVars>>

\* ml_kem_wipe_encaps, from u on.
WipeEncaps(c) ==
  /\ y' = [y EXCEPT ![c] = [i \in Rows |-> Zero]]
  /\ u' = [u EXCEPT ![c] = [i \in Rows |-> Zero]]
  /\ v' = [v EXCEPT ![c] = Zero]
  /\ job' = [job EXCEPT ![c] = [pc |-> "idle", i |-> 0, j |-> 0, m |-> {}]]

\* ml_kem_encaps_core copies the ciphertext out, wipes and leaves.
Send ==
  /\ job["client"].pc = "done" /\ wire = << >>
  /\ wire' = <<[u |-> u["client"], v |-> v["client"], m |-> job["client"].m, intact |-> TRUE]>>
  /\ WipeEncaps("client")
  /\ UNCHANGED <<k, full, keygen, keyVars, decrypt, sent, damaged, results>>

\* The ciphertext changes on its way, by too little to hide the message.
Damage ==
  /\ wire # << >> /\ damaged < Damages /\ wire[1].intact
  /\ wire' = [wire EXCEPT ![1].v = Add(@, Atom(<<"damage">>)), ![1].intact = FALSE]
  /\ damaged' = damaged + 1
  /\ UNCHANGED <<k, full, keygen, keyVars, encapsVars, decrypt, sent, results>>
----------------------------------------------------------------------------
\* ml_kem_decrypt up to ml_kem_decompress.
Receive ==
  /\ wire # << >> /\ job["slot"].pc = "idle"
  /\ LET c == wire[1]
     IN  decrypt' = [decrypt EXCEPT
            !.u = [i \in Rows |-> Add(c.u[i], Rounding(c.m, i))],
            !.v = Add(c.v, Rounding(c.m, k)), !.ciphertext = wire]
  /\ wire' = << >>
  /\ job' = [job EXCEPT !["slot"] = [@ EXCEPT !.pc = "decrypt", !.i = 0]]
  /\ UNCHANGED <<k, full, keygen, keyVars, y, u, v, sent, damaged, results>>

\* ml_kem_decrypt_get_seed_m: the message is legible under noise, but not under
\* a term with a matrix polynomial or on top of another message.
Decoded(poly) ==
  LET messages == {a \in Atoms(poly) : a[1] = "m"}
  IN  IF (\E a \in Atoms(poly) : a[1] = "A") \/ Cardinality(messages) # 1 THEN Drowned
      ELSE (CHOOSE a \in messages : TRUE)[2]

\* ml_kem_decrypt_get_poly: one term of <s, u>, or the end of decryption, from
\* which ml_kem_encapsulation takes its message.
Decrypt ==
  /\ job["slot"].pc = "decrypt"
  /\ LET i == job["slot"].i
     IN  \/ /\ i < k
            /\ LET product == Multiply(Ntt(decrypt.u[i]), secret[i])
               IN  decrypt' = [decrypt EXCEPT !.u[i] = product, !.poly = Add(@, product)]
            /\ job' = [job EXCEPT !["slot"].i = i + 1]
         \/ /\ i = k
            /\ LET poly == Sub(decrypt.v, Intt(decrypt.poly))
                   m == decrypt.m \cup Decoded(poly)
               IN  /\ decrypt' = [decrypt EXCEPT !.poly = poly, !.m = m]
                   /\ job' = [job EXCEPT !["slot"] = [pc |-> "y", i |-> 0, j |-> 0, m |-> m]]
  /\ UNCHANGED <<k, full, keygen, keyVars, y, u, v, wire, sent, damaged, results>>

\* ml_kem_decaps_ct_select_ss, the two wipes and the release of the slot.
Select ==
  /\ job["slot"].pc = "done"
  /\ LET c == decrypt.ciphertext[1]
         same == u["slot"] = c.u /\ v["slot"] = c.v
     IN  results' = Append(results, [m |-> c.m, intact |-> c.intact,
                                     key |-> IF same THEN job["slot"].m ELSE {}])
  /\ WipeEncaps("slot")
  /\ decrypt' = [DecryptWiped EXCEPT !.ciphertext = << >>]
  /\ UNCHANGED <<k, full, keygen, keyVars, wire, sent, damaged>>

Next ==
  \/ CreateSecret \/ CreatePublic \/ FillMatrix
  \/ StartClient \/ Send \/ Damage \/ Receive \/ Decrypt \/ Select
  \/ \E c \in Contexts : CreateY(c) \/ CreateU(c) \/ CreateV(c)

Spec == Init /\ [][Next]_vars
----------------------------------------------------------------------------
\* Type invariant, with the domain of each buffer: the key, y and the matrix
\* live in that of the transform, a finished ciphertext in that of coefficients,
\* and no operation combines the two.
TypeOK ==
  /\ keygen.pc \in {"secret", "public", "fill", "ready"}
  /\ \A i \in Rows : {secret[i].dom, t[i].dom} \subseteq {"zero", "ntt"}
  /\ \A p \in DOMAIN full_matrix : full_matrix[p].dom \in {"zero", "ntt"}
  /\ \A c \in Contexts :
       /\ job[c].pc \in {"idle", "decrypt", "y", "u", "v", "done"}
       /\ \A i \in Rows : y[c][i].dom \in {"zero", "ntt"} /\ u[c][i].dom # "mixed"
       /\ v[c].dom # "mixed"
       /\ job[c].pc = "done" => v[c].dom = "time" /\ \A i \in Rows : u[c][i].dom = "time"
  /\ decrypt.poly.dom # "mixed" /\ \A i \in Rows : decrypt.u[i].dom # "mixed"

\* Decryption leaves the message and noise: all terms with a matrix polynomial
\* cancel, because key generation and encapsulation use the matrix and its
\* transpose. In each term is at most one factor of the key's noise and one of
\* the ciphertext's.
DecryptsToMessage ==
  job["slot"].pc = "y" =>
    LET c == decrypt.ciphertext[1]
    IN  /\ Coefficient(decrypt.poly, SetToBag({<<"m", c.m>>})) = 1
        /\ \A m \in DOMAIN decrypt.poly.terms :
             /\ BagCardinality(m) <= 2
             /\ \A a \in BagToSet(m) : a[1] \in {"m", "noise", "rounding", "damage"}
             /\ Cardinality({a \in BagToSet(m) : a[1] = "noise" /\ a[2] = sigma}) <= 1

\* No seed and counter, which are all that the XOF is fed, are used for two noise
\* polynomials: the 2k of a key and the 2k + 1 of a ciphertext all differ.
NoiseOnce ==
  LET noise(polys) == {<<a[2], a[3]>> : a \in {b \in UNION {Atoms(f) : f \in polys} : b[1] = "noise"}}
      ofKey == noise({secret[i] : i \in Rows} \cup {t[i] : i \in Rows})
  IN  /\ keygen.pc \in {"fill", "ready"} => Cardinality(ofKey) = 2 * k
      /\ \A c \in Contexts : job[c].pc = "done" =>
           Cardinality(noise({y[c][i] : i \in Rows} \cup {u[c][i] : i \in Rows} \cup {v[c]})
                         \ ofKey) = 2 * k + 1

\* A call finds its accumulators zero, and the or-ed message bits too, although
\* none of the loops clears them: earlier calls have wiped the context.
StartsClean ==
  /\ \A c \in Contexts : job[c].pc = "y" => v[c] = Zero /\ \A i \in Rows : u[c][i] = Zero
  /\ job["slot"].pc = "decrypt" /\ job["slot"].i = 0 => decrypt.poly = Zero /\ decrypt.m = {}

\* Decapsulation of an intact ciphertext gives the client's message, hence its
\* key, with either build's matrix and in every reuse of the contexts; that of a
\* changed one gives the fallback.
KeysAgree ==
  \A n \in DOMAIN results :
    results[n].key = IF results[n].intact THEN results[n].m ELSE {}

\* The three algorithms fit together: all of the above but the noise.
AlgorithmsAgree == TypeOK /\ DecryptsToMessage /\ StartsClean /\ KeysAgree
=============================================================================
