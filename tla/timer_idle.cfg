SPECIFICATION FairSpec
CONSTANTS
  c1 = c1
  c2 = c2
  Conns = {c1, c2}
  Timeout = 3
  MaxEvents = 2
  MaxId = 6
INVARIANTS
  TypeOK
  OneTimerEach
  DueIsReported
  LargerIdLater
PROPERTIES
  NotTooEarly
  IdleIsClosed
CHECK_DEADLOCK FALSE
