SPECIFICATION Spec
CONSTANTS
  c1 = c1
  c2 = c2
  Conns = {c1}
  NoConn = NoConn
  Modes = {TRUE, FALSE}
  Loads <- AloneOnce
  Faults = {"rst"}
  MaxEvents = 2
  MaxStalls = 1
INVARIANTS
  RemovedIsDead
CHECK_DEADLOCK FALSE
