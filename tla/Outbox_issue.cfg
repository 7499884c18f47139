SPECIFICATION Spec
CONSTANTS
  Issues = {i1}
  InProgress = working
  Intents = {working, parked}
  Workload = {"status", "closeout", "history"}
  MaxRows = 3
  MaxTask = 2
  ReviveLimit = 1
  OperatorWaits = TRUE
CONSTRAINT StatusesOrComments
INVARIANTS TypeOK AtMostOnce OneStatusInFlight ReceiptAfterCloseout SentMeansLanded MarkerTruth
PROPERTIES NeverStale
CHECK_DEADLOCK FALSE
