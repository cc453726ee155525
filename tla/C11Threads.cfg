SPECIFICATION Spec
CONSTANTS
  main = main
  t1 = t1
  t2 = t2
  Threads <- MCThreads
  Main = main
  None = None
  Programs <- MCPrograms
  Deadlines <- MCDeadlines
  TicksPerMs = 2
  MaxTimeout = 3
  MaxTicks = 10
  MaxSpurious = 2
  MaxTime = 2
INVARIANTS
  TypeOK
  SpawnOutlivesUse
  HandlesAccounted
  NoEarlyTimeout
PROPERTIES
  CreateReturns
  TimedWaitEnds
CHECK_DEADLOCK FALSE
