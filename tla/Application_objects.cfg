\* A key object, with the expanded matrix, and an encapsulation pool of any
\* choice of levels.
SPECIFICATION AppSpec
CONSTANTS
  Objects = {o1, o2}
  KeyObjects = {o1}
  Pools = {o2}
  FULL_MATRIX = TRUE
INVARIANTS
  NothingLeaks
  NoBadAccess
  NoSecretFreed
