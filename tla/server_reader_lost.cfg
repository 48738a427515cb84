SPECIFICATION Spec
CONSTANTS
  k1 = k1
  k2 = k2
  Conns = {k1, k2}
  Workers = {w1}
  Hub = hub
  Bus = bus
  Threads <- AllThreads
  Lives <- LostLives
INVARIANT ReadersReclaimed
CHECK_DEADLOCK FALSE
