SPECIFICATION FairSpec
CONSTANTS
  MaxSlaves = 2
  MaxReq = 3
  MaxFaults = 3
  MaxBoth = 3
  TidTop = 3
  TidStep = 1
  MayRefuse = TRUE
  Tids = {2}
INVARIANTS
  TypeOK
  CountAgrees
  NotForgotten
  HeldIsDriven
PROPERTIES
  AcceptsOwn
  AnswerKept
  Reconnects
CHECK_DEADLOCK FALSE
