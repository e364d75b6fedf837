SPECIFICATION Spec
CONSTANTS
  MaxReq = 4
  MaxFaults = 3
  QueueLen = 10
  Prompt = TRUE
INVARIANTS
  ServesOnce
  ErrTypeAccounted
CHECK_DEADLOCK FALSE
