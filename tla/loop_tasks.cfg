SPECIFICATION FairSpec
CONSTANTS
  main = main
  worker = worker
  reactor = reactor
  loop = loop
  Main = main
  LoopThread = loop
  Others = {main, worker, reactor}
  MaxPosts = 1
INVARIANTS
  TypeOK
  NoLostWakeup
PROPERTIES
  ImplementsTaskQueue
  QueuedIsRun
  StopEnds
CHECK_DEADLOCK FALSE
