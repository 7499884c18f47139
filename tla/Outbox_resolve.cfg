SPECIFICATION Spec
CONSTANTS
  Issues = {i1}
  InProgress = working
  Intents = {working, parked}
  Workload = {"status"}
  MaxRows = 3
  MaxTask = 2
  ReviveLimit = 1
  OperatorWaits = FALSE
PROPERTIES NotResolvedUnderSender
CHECK_DEADLOCK FALSE
