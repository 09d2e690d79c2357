\* More callers than slots: -EBUSY happens.
SPECIFICATION RetrySpec
CONSTANTS
  Threads = {t1, t2, t3, t4}
  PoolCount = 3
INVARIANTS
  TypeOK
  ExclusiveUse
  ScanBound
PROPERTIES
  ImplementsLease
  EveryCallReturns
  SomeoneGetsThrough
