SPECIFICATION FairSpec
CONSTANTS
  MAXSIZE = 2
  MaxSeq = 7
  Word = 16
INVARIANTS
  TypeOK
  Linked
  Ordered
  TraversalComplete
PROPERTIES
  ImplementsSet
  DeleteReturns
