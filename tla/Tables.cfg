SPECIFICATION TablesSpec
CONSTANTS
  N = 3
  Blocks = {0, 1, 3, 6}
INVARIANTS ItemsConserved
PROPERTIES ImplementsTagMap
