SPECIFICATION Spec
CONSTANTS
  MAXSIZE = 2
  Column <- KeyFields
  Indices <- AgeName
  Atom = {0, 1}
  DefaultRow <- EmptyKeys
  MaxSeq = 3
  KeepIterators = FALSE
  AnyIndexErase = TRUE
INVARIANT
  IndexesAgree
