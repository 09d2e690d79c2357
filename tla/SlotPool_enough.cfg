\* A slot for every caller: nobody is ever refused, everybody gets through.
SPECIFICATION RetrySpec
CONSTANTS
  Threads = {t1, t2, t3}
  PoolCount = 3
INVARIANTS
  BusyOnlyIfOverbooked
PROPERTIES
  EveryoneGetsThrough
