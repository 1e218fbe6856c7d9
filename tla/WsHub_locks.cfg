SPECIFICATION Spec
CONSTANTS
  MaxConns = 2
  Emitters = {}
  Requests = {}
  MaxEvents = 0
  MaxTurns = 0
  Capacity = 1
  SendBuffer = 2
  MayClose = FALSE
CHECK_DEADLOCK FALSE
INVARIANT NoLockCycle
