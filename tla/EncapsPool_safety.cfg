\* Callers with two keys share the pool or bring their own context.
SPECIFICATION Spec
CONSTANTS
  Zero = Zero
  Junk = Junk
  Heap = Heap
  l1 = l1
  l2 = l2
  l3 = l3
  k1 = k1
  k2 = k2
  k3 = k3
  k4 = k4
  Threads = {t1, t2}
  Levels = {l1, l2, l3}
  PoolCount <- MCPoolCount
  Keys = {k1, k2, k3, k4}
  LevelOf <- MCLevelOf
  Messages = {m1, m2, m3}
SYMMETRY Symmetry
INVARIANTS
  OutputsMatch
  NoOutputOnError
  FreeSlotsWiped
  HeapMatchesCalls
PROPERTIES
  WipedBeforeFree
  ImplementsPools
