SPECIFICATION Spec
CONSTANTS
  Byte <- Bytes
  NUL = "NUL"
  CR = "CR"
  LF = "LF"
  BufferSize = 3
  ExtraSize = 2
  Streams <- SomeStreams
  MaxLineLen = 2
  MaxHeaders = 2
INVARIANTS
  TypeOK
  InOrder
  SameForAnyCut
PROPERTIES
  GrowsForBacklog
CHECK_DEADLOCK FALSE
