\* Every residue; the products of every monomial by 1, X and X^255; noise
\* polynomials of sixteen coefficients; the permutation of nine states; two
\* messages under one key, one ciphertext changed.
SPECIFICATION PrimitivesSpec
CONSTANTS
  Others = {0, 1, 2, 17, 1664, 1665, 1729, 3303, 3327, 3328}
  Wide = {13627905, 13633536}
  Factors = {0, 1, 255}
  CbdCoeffs = 16
  Levels = {2, 3, 4}
  Rounds = 2
  Damages = 1
\* All parts but the walk through the residues end.
CHECK_DEADLOCK FALSE
INVARIANTS
  ModularExact
  NegacyclicProduct
  NoiseFromStream
  NoiseOnce
  AlgorithmsAgree
  ZeroStateKnown
PROPERTIES
  PermutationIsKeccak
