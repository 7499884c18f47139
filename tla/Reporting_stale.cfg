SPECIFICATION ReportingSpec
CONSTANTS
  Plots <- SomePlots
  MaxLog = 5
  MaxRefusals = 1
  MaxRestarts = 0
INVARIANTS CompletionsClosedOut
CHECK_DEADLOCK FALSE
