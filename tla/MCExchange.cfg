SPECIFICATION Spec
CONSTANTS
  WordTop = 65536
  AreaList <- MCAreas
  Params <- MCParams
  ParamValues <- MCParamValues
  RawCalls <- MCRawCalls
  ForeignFrames <- MCForeignFrames
  AppWrites <- MCAppWrites
  EarlyAreas = 6
  MaxAsks = 2
  MaxFaults = 1
  QueueSize = 2
  InfoPrompt = TRUE
INVARIANTS
  SetIsWhatSlaveGets
  GetIsWhatSlaveHad
  WritesNoticed
PROPERTIES
  ImplementsRegisterMap
CHECK_DEADLOCK FALSE
