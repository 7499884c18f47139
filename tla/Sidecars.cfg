SPECIFICATION SidecarSpec
CONSTANTS
  Jobs = {j1, j2, j3}
  Workers = {w1, w2}
  Capacity = 1
  NoJob = NoJob
  Requests = {r1, r2, r3}
INVARIANTS LaneInv AnswersTruthful ClosedLane NoOverlap
PROPERTIES EveryoneAnswered Drains
CHECK_DEADLOCK FALSE
