SPECIFICATION Spec
CONSTANTS
  c1 = c1
  c2 = c2
  cInvalid = cInvalid
  FuncCodes <- MCFuncCodes
  ValidCodes <- MCValidCodes
  BuiltinCodes <- MCBuiltinCodes
  RangeCodes <- MCRangeCodes
  Handlers = {h1, h2}
  Builtin = h1
  Dispatcher = Dispatcher
  None = None
  HandlersMax = 2
  Starts <- MCStarts
  Lengths <- MCLengths
  AllocMayFail = TRUE
INVARIANTS
  TypeOK
  RoutesDisjoint
  NothingUnreachable
  CountCoversEntries
PROPERTY
  ImplementsMap
CHECK_DEADLOCK FALSE
