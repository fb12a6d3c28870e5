SPECIFICATION Spec
CONSTANTS
  WORD = 1024
  PAGE = 32
  ALIGN = 8
  Bases = {1, 20, 32}
  StartPages = 1
  MaxPages = 4
  Sizes = {0, 1, 8, 17, 24, 57}
  Counts = {3}
  MaxBlocks = 3
INVARIANTS
  TypeOK
  Disjoint
  InMemory
