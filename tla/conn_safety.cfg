SPECIFICATION Spec
CONSTANTS
  c1 = c1
  c2 = c2
  Conns = {c1, c2}
  NoConn = NoConn
  Modes = {TRUE, FALSE}
  Loads <- AloneOrPair
  Faults = {"fin", "rst", "idle", "stop"}
  MaxEvents = 2
  MaxStalls = 1
INVARIANTS
  TypeOK
  DeadIsDetached
  WorkingCounts
  EachAnsweredOnce
  NoLostEdge
  StoppedIsDead
PROPERTIES
  DeadIsFinal
  EofAnsweredByPool
  ErasedAfterBatch
SYMMETRY Symmetry
CHECK_DEADLOCK FALSE
