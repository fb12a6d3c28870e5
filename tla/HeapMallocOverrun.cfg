SPECIFICATION AnySpec
CONSTANTS
  MARK = 1
  BLOCK = 2
  PAGE = 8
  SLACK = 2
  INITIAL = 8
  HEAPS = 3
  Bases = {4, 8}
  StartPages = 2
  MaxPages = 3
  Sizes = {0, 1, 2, 7}
  Counts = {2}
  MaxBlocks = 3
INVARIANT
  BlocksApart
