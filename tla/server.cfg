SPECIFICATION FairSpec
CONSTANTS
  k1 = k1
  k2 = k2
  Conns = {k1, k2}
  Workers = {w1}
  Hub = hub
  Bus = bus
  Threads <- AllThreads
  Lives <- AllLives
INVARIANT ClosedOnce
PROPERTY PendingServed StopReturns
CHECK_DEADLOCK FALSE
