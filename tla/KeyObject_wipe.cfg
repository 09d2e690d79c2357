\* One object.
SPECIFICATION Spec
CONSTANTS
  Objects = {o1}
  KeyObjects = {o1}
  FULL_MATRIX = FALSE
PROPERTIES
  DestroyWipesAll
