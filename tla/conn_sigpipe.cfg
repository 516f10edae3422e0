SPECIFICATION Spec
CONSTANTS
  c1 = c1
  c2 = c2
  Conns = {c1}
  NoConn = NoConn
  Modes = {FALSE}
  Loads <- AloneOnce
  Faults = {"fin", "rst"}
  MaxEvents = 2
  MaxStalls = 1
INVARIANTS
  NotKilled
CHECK_DEADLOCK FALSE
