SPECIFICATION FairSpec
CONSTANTS
  MaxReq = 2
  MaxStops = 1
  MaxFaults = 1
  LongTimeout = TRUE
  Race = TRUE
  SlowT35 = FALSE
VIEW ControlView
INVARIANTS
  TypeOK
  ErrTypeAccounted
  HeldIsDriven
PROPERTIES
  ResourceComesFree
CHECK_DEADLOCK FALSE
