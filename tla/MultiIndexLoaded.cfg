SPECIFICATION Spec
CONSTANTS
  MAXSIZE = 2
  Column <- KeyFields
  Indices <- NameAge
  Atom = {0, 1}
  DefaultRow <- EmptyKeys
  MaxSeq = 2
  KeepIterators = TRUE
  AnyIndexErase = FALSE
INVARIANT
  IndexesAgree
