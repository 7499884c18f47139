SPECIFICATION Spec
CONSTANTS
  Issues = {i1}
  InProgress = working
  Intents = {working, parked}
  Workload = {"status"}
  MaxRows = 3
  MaxTask = 2
  ReviveLimit = 1
  OperatorWaits = TRUE
PROPERTIES ResolutionDurable
CHECK_DEADLOCK FALSE
