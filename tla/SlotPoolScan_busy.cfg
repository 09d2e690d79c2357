\* One slot fewer than callers.
SPECIFICATION HistSpec
CONSTANTS
  Threads = {t1, t2, t3}
  PoolCount = 2
INVARIANTS
  BusyMeansFull
