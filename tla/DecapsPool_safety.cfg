\* Three callers, two slots, two honest ciphertexts and a forged one.
SPECIFICATION Spec
CONSTANTS
  Zero = Zero
  Junk = Junk
  Pk = Pk
  Z = Z
  m1 = m1
  m2 = m2
  f1 = f1
  Threads = {t1, t2, t3}
  PoolCount = 2
  Messages = {m1, m2}
  Forged = {f1}
  Plain <- MCPlain
  FULL_MATRIX = TRUE
SYMMETRY Symmetry
INVARIANTS
  CorrectSecret
  FreeSlotsAsCreated
  NoStoreAfterRelease
PROPERTIES
  ImplementsPool
