SPECIFICATION DispatchSpec
CONSTANTS
  c1 = c1
  c2 = c2
  h1 = h1
  h2 = h2
  FuncCodes = {c1, c2}
  ValidCodes = {c1, c2}
  BuiltinCodes = {c1}
  RangeCodes = {c1}
  Handlers = {h1, h2}
  Builtin = h1
  Dispatcher = Dispatcher
  None = None
  HandlersMax = 2
  Starts <- MCStarts
  Lengths <- MCLengths
  AllocMayFail = TRUE
  Roles = {"master", "slave"}
  Broadcasts = {1}
INVARIANTS
  DispatchTypeOK
  PendingIsOwn
  RanWasSelected
