SPECIFICATION Spec
CONSTANTS
  Ids = {s1, s2}
  Sources <- Texts
  Times <- Midnight
  SaveMayFail = TRUE
  MaxEdits = 2
  MaxFireNow = 1
  MaxFaults = 1
INVARIANT TickOncePerMinute NoOverlap CronMeansSource
SYMMETRY PermutedIds
CHECK_DEADLOCK FALSE
