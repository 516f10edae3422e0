SPECIFICATION Spec
CONSTANTS
  c1 = c1
  c2 = c2
  Conns = {c1}
  NoConn = NoConn
  Modes = {FALSE}
  Loads <- AloneKeptAlive
  Faults = {"fin"}
  MaxEvents = 2
  MaxStalls = 1
PROPERTIES
  EofAnsweredInline
CHECK_DEADLOCK FALSE
