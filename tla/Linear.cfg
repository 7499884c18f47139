SPECIFICATION Spec
CONSTANTS
  MaxCalls = 2
  MaxEvents = 2
  Survives = {"hand_off"}
  Questions = {"q1", "q2"}
  Replies = {"r1", "r2"}
  Adapters = {"old", "new"}
  AskKinds <- SomeKinds
  Dialogues <- SomeDialogues
  Reaches <- SomeReaches
  MaxInputs = 2
  Budgets <- SomeBudgets
  Heads = {"h1", "h2"}
  Runs = {"r1", "r2"}
  Checks = {1, 2}
  Origins <- SomeOrigins
  Begun <- SomeBegun
  MaxChanges = 1
  ChatTurns = {"t1", "t2", "t3"}
  SessionOf <- SomeSessions
  Asked <- SomeRequests
  Named = TRUE
  MaxTurns = 1
  GraceCalls = 1
  MaxToolCalls = 2
  AllClients = {"c1", "c2"}
  Deployments <- SomeDeployments
  MaxTokens = 3
  MaxTime = 2
  MaxLog = 5
  MaxRefusals = 1
  MaxRestarts = 0
  Plots <- SomePlots
  MaxHistory = 3
  Window = 1
  MaxTroubles = 1
INVARIANTS TakeOverSound AnswersSound ConversationSound EvidenceSound GuardSound  OnlyParksResumed
PROPERTIES SweepRespectsPeople DelegateFollowsAdmission
CHECK_DEADLOCK FALSE
