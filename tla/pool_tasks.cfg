SPECIFICATION FairSpec
CONSTANTS
  w1 = w1
  w2 = w2
  w3 = w3
  p1 = p1
  p2 = p2
  Workers = {w1, w2, w3}
  Producers = {p1, p2}
  MaxTasks = 2
INVARIANTS
  TypeOK
  WorkConserving
  EachTaskOnce
  StopRunsAll
PROPERTIES
  AcceptedIsRun
  StopReturns
CHECK_DEADLOCK FALSE
