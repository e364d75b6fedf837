SPECIFICATION FairSpec
CONSTANTS
  MaxReq = 3
  MaxFaults = 2
  QueueLen = 3
  Prompt = FALSE
VIEW ControlView
INVARIANTS
  TypeOK
  LeakHeals
PROPERTIES
  RequestAnswered
CHECK_DEADLOCK FALSE
