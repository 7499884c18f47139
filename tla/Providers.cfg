SPECIFICATION Spec
CONSTANTS
  AsyncCalls = {a1, a2}
  SyncCalls = {s1}
  Streams = {a1, s1}
  Slots = 1
  NoCall = NoCall
  Ids = {i1, i2}
  Names = {n1, n2}
  Args = {x}
  MaxCaptures = 2
  MaxTools = 2
  QueueSize = 2
  MaxChunks = 3
  NativeCalls = {c1}
  MaxPosts = 2
  MaxBlocks = 2
  Conversations <- Turns
  Elsewhere = {0, 2}
  Lookback = 2
  MaxMarks = 4
INVARIANTS AcpSound AnswersWhole
PROPERTIES CancelsOnlyItsOwn SlotsComeBack DirectSettles
