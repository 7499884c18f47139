SPECIFICATION Spec
CONSTANTS
  Issues = {i1, i2}
  InProgress = working
  Intents = {working, parked}
  Workload = {"status", "history"}
  MaxRows = 2
  MaxTask = 2
  ReviveLimit = 1
  OperatorWaits = TRUE
SYMMETRY Symmetry
INVARIANTS SnapshotCurrent
PROPERTIES HistoryFollowsStatus
CHECK_DEADLOCK FALSE
