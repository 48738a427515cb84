SPECIFICATION FairSpec
CONSTANTS
  Requests <- MCRequests
  Outcomes = {"PASSED", "FAILED"}
  FailingHooks = {"before_suite", "before_spec", "after_spec", "before_scenario"}
  MayExpire = TRUE
INVARIANT EveryScenarioAccounted VerdictSound
PROPERTY FailFastBounds PolledNeverBack RunEnds
CHECK_DEADLOCK FALSE
