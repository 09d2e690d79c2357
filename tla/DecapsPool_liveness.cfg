\* Two callers compete for one slot.
SPECIFICATION FairSpec
CONSTANTS
  Zero = Zero
  Junk = Junk
  Pk = Pk
  Z = Z
  m1 = m1
  m2 = m2
  f1 = f1
  Threads = {t1, t2}
  PoolCount = 1
  Messages = {m1}
  Forged = {f1}
  Plain <- MCPlain
  FULL_MATRIX = FALSE
PROPERTIES
  EveryCallAnswered
