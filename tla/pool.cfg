SPECIFICATION FairSpec
CONSTANTS
  PoolSize = 2
  Sessions = {s1, s2}
  StreamCounts = {1, 3}
  AutoRestart = TRUE
  MaxRestarts = 1
  MayFail = TRUE
  MaxRequests = 2
  MaxLifecycle = 2
INVARIANT StepHasProcess
PROPERTY ImplementsAllocator WaitsOnlyForDeadSlot DrainEnds
CHECK_DEADLOCK FALSE
