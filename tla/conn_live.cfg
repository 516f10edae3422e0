SPECIFICATION FairSpec
CONSTANTS
  c1 = c1
  c2 = c2
  Conns = {c1}
  NoConn = NoConn
  Modes = {TRUE, FALSE}
  Loads <- Alone
  Faults = {"fin", "rst", "idle", "stop"}
  MaxEvents = 2
  MaxStalls = 1
PROPERTIES
  PeerCloseHasReason
  EventuallyReleased
CHECK_DEADLOCK FALSE
