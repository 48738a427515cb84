SPECIFICATION FairSpec
CONSTANTS
  Owner = engine
  Clients = {api}
  PipeSize = 1
  MaxCalls <- Calls
INVARIANT AnswerMatches NothingLeft
PROPERTY CallsReturn
CHECK_DEADLOCK FALSE
