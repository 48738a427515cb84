SPECIFICATION FairSpec
CONSTANTS
  t1 = t1
  t2 = t2
  Tests = {t1, t2}
  Priority <- MCPriority
  Workers = {w1}
  Clients = {c1}
  Outcomes = {"PASSED"}
  HistoryLimit = 1
  MaxCrashes = 0
  MayStop = TRUE
  SaveMayFail = FALSE
  LoadMayThrow = TRUE
PROPERTY EveryTestEnds StopCompletes
