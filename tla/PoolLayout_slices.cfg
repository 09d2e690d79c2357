\* Every level, up to eight slots, with the real sizes.
SPECIFICATION LayoutSpec
CONSTANTS
  Levels = {2, 3, 4}
  Counts = {1, 2, 3, 5, 8}
\* A pool is cut once.
CHECK_DEADLOCK FALSE
INVARIANTS
  SlicesDisjoint
  SlicesFit
  WipeExact
