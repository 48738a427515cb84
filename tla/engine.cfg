SPECIFICATION Spec
CONSTANTS
  t1 = t1
  t2 = t2
  Tests = {t1, t2}
  Priority <- MCPriority
  Workers = {w1, w2}
  Clients = {c1, c2}
  Outcomes = {"PASSED"}
  HistoryLimit = 1
  MaxCrashes = 1
  MayStop = FALSE
  SaveMayFail = TRUE
  LoadMayThrow = TRUE
SYMMETRY Symmetry
INVARIANT SingleOwner PersistBeforeVisible NoOrphanFile FinalEventOnce CountedOnce CancelHonoured
PROPERTY ImplementsLifecycle
