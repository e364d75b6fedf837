SPECIFICATION Spec
CHECK_DEADLOCK FALSE
CONSTANTS
  RtuSlaves = {rs}
  AsciiSlaves = {as}
  TcpSlaves = {ts}
  RtuMasters = {rm}
  AsciiMasters = {am}
  TcpMasters = {tm}
  Overlap = {ts, tm}
  MaxAlive = 2
  MaxQueue = 1
  MaxFaults = 1
INVARIANTS  DeleteFreesAll LoopServesAll
PROPERTY StoppedInHandler
