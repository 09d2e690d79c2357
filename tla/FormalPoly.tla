----------------------------- MODULE FormalPoly -----------------------------
(***************************************************************************)
(* Polynomials as formal sums. What a polynomial is made of is a sampled    *)
(* polynomial, an atom; a sum maps its monomials, which are bags of atoms,  *)
(* to their coefficients. Each sum lies in one domain, that of              *)
(* coefficients or that of the number theoretic transform, as the buffers   *)
(* of the code do without saying so.                                        *)
(***************************************************************************)
EXTENDS Integers, Bags, FiniteSetsExt

Domains == {"zero", "time", "ntt", "mixed"}    \* "mixed": an operation met the wrong one

\* A zeroed buffer is in either domain.
Zero == [dom |-> "zero", terms |-> << >>]

Atom(a) == [dom |-> "time", terms |-> [m \in {SetToBag({a})} |-> 1]]

SampledInNtt(a) == [Atom(a) EXCEPT !.dom = "ntt"]

Coefficient(f, m) == IF m \in DOMAIN f.terms THEN f.terms[m] ELSE 0

SumDomain(f, g) ==
  IF f.dom = "zero" THEN g.dom ELSE IF g.dom \in {"zero", f.dom} THEN f.dom ELSE "mixed"

Combine(f, g, sign) ==
  LET value(m) == Coefficient(f, m) + sign * Coefficient(g, m)
      left == {m \in DOMAIN f.terms \cup DOMAIN g.terms : value(m) # 0}
  IN  [dom |-> SumDomain(f, g), terms |-> [m \in left |-> value(m)]]

Add(f, g) == Combine(f, g, 1)
Sub(f, g) == Combine(f, g, -1)

\* Pointwise in the transform's domain, and meaningless in the other one.
Multiply(f, g) ==
  LET pairs == (DOMAIN f.terms) \X (DOMAIN g.terms)
      value(m) == MapThenSumSet(LAMBDA p : f.terms[p[1]] * g.terms[p[2]],
                                {p \in pairs : p[1] (+) p[2] = m})
      doms == {f.dom, g.dom}
  IN  [dom |-> IF "zero" \in doms THEN "zero" ELSE IF doms = {"ntt"} THEN "ntt" ELSE "mixed",
       terms |-> [m \in {p[1] (+) p[2] : p \in pairs} |-> value(m)]]

Ntt(f)  == [f EXCEPT !.dom = IF f.dom = "time" THEN "ntt" ELSE IF f.dom = "zero" THEN "zero" ELSE "mixed"]
Intt(f) == [f EXCEPT !.dom = IF f.dom = "ntt" THEN "time" ELSE IF f.dom = "zero" THEN "zero" ELSE "mixed"]

Atoms(f) == UNION {BagToSet(m) : m \in DOMAIN f.terms}
=============================================================================
