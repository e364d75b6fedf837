SPECIFICATION Spec
CONSTANTS
  MaxReq = 4
  MaxStops = 0
  MaxFaults = 3
  LongTimeout = FALSE
  Race = FALSE
  SlowT35 = TRUE
PROPERTIES
  WritesOwnBuffer
  ImplementsReply
CHECK_DEADLOCK FALSE
