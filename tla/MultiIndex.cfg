SPECIFICATION Spec
CONSTANTS
  MAXSIZE = 1
  Column <- MemberFields
  Indices <- NameAgeSex
  Atom = {0, 1}
  DefaultRow <- EmptyMember
  MaxSeq = 4
  KeepIterators = FALSE
  AnyIndexErase = FALSE
INVARIANTS
  TypeOK
  IndexesAgree
  CacheCoherent
  DereferenceIsRow
  VisitsAllRows
PROPERTY
  SequenceAdvances
