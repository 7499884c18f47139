SPECIFICATION Spec
CONSTANTS
  Deliveries = {"d1", "d2"}
  LastTime = 2
  Scripts <- SomeScripts
  MaxTrouble = 1
  MaxLog = 5
  MaxRefusals = 1
  MaxRestarts = 1
  Plots <- ShortPlots
  MaxHistory = 2
  Window = 1
  MaxTroubles = 1
  Tools = {"t1"}
  MaxRuns = 2
  MaxSteps = 2
  MaxAsked = 1
  MaxLost = 1
INVARIANTS IntakeSound StepSound
PROPERTIES DeliveriesSettled ReportsSettled OptionalWorkSettled
CHECK_DEADLOCK FALSE
