SPECIFICATION FairSpec
CONSTANTS
  w1 = w1
  w2 = w2
  c1 = c1
  c2 = c2
  NoClient = NoClient
  NSubs = 2
  Workers = {w1, w2}
  Clients = {c1, c2}
  Modes = {TRUE, FALSE}
  MaxRequests = 1
INVARIANTS
  TypeOK
  NeverTerminated
  NothingLeftBehind
PROPERTIES
  StopReturns
CHECK_DEADLOCK FALSE
