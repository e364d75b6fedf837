SPECIFICATION Spec
CONSTANTS
  WordTop = 65536
  AreaList <- MCAreas
  Params <- MCNone
  ParamValues <- MCParamValues
  RawCalls <- MCNone
  ForeignFrames <- MCLongRead
  AppWrites <- MCNone
  EarlyAreas = 6
  MaxAsks = 1
  MaxFaults = 0
  QueueSize = 2
  InfoPrompt = TRUE
INVARIANTS
  IllegalRefused
CHECK_DEADLOCK FALSE
