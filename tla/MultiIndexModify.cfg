SPECIFICATION Spec
CONSTANTS
  MAXSIZE = 2
  Column <- MemberFields
  Indices <- NameAge
  Atom = {0, 1}
  DefaultRow <- EmptyMember
  MaxSeq = 2
  KeepIterators = TRUE
  AnyIndexErase = FALSE
PROPERTY
  ModifyKeepsOtherColumns
