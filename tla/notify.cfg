SPECIFICATION FairSpec
CONSTANTS
  t1 = t1
  t2 = t2
  plain = plain
  Lives <- MCLives
  Tests <- MCTests
  WithCallback <- MCWithCallback
  MaxAttempts = 2
  Backoff = 1
  HistoryLimit = 2
INVARIANT OneStoryPerTest PendingExact
PROPERTY EveryEndCalledBack StopReturns
CHECK_DEADLOCK FALSE
