SPECIFICATION Spec
CONSTANTS
  BASE = 12
  DataImmLenStart = 2
  ListStart = 7
  MaxLengthBytes = 3
  SIZEOF = 2
  WIDE = 2
  HashLen = 2
  Payloads <- SomePayloads
  Ints <- SomeInts
  Hashes <- SomeHashes
  Raws <- SomeRaws
  PrefixSet <- OneByte
  Counts = {0, 1, 2, 3}
  MaxItems = 4
  MaxDepth = 2
  MaxInput = 5
  MaxIndex = 4
  Widths = {1, 2}
  Methods <- SomeMethods
  IntArgs = {0, 1, 2, 11}
  NUMBER = 1
  NoCall = NoCall
INVARIANTS
  CallArrives
  DispatchExact
  StreamIsEncoding
  SizeIsLength
  IndexIsItem
  LoopVisitsItems
  Canonical
  IntsExact
