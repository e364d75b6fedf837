SPECIFICATION Spec
CONSTANTS
  MaxConn = 3
  Asks <- MCAsks
  MaxNodes = 2
  MaxFaults = 1
  Parallel = TRUE
  UidEnabled = FALSE
INVARIANTS
  TypeOK
  AnswersOwn
  ItemsAreOfTheirSlot
  ExecutedInOrder
  AnsweredInOrder
  HeldIsDriven
CHECK_DEADLOCK FALSE
