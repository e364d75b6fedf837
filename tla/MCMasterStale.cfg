SPECIFICATION Spec
CONSTANTS
  MaxReq = 3
  MaxStops = 0
  MaxFaults = 0
  LongTimeout = TRUE
  Race = FALSE
  SlowT35 = FALSE
INVARIANTS
  OkIsOwn
CHECK_DEADLOCK FALSE
