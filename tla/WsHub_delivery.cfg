SPECIFICATION Spec
CONSTANTS
  MaxConns = 2
  Emitters = {e1, e2}
  Requests = {}
  MaxEvents = 2
  MaxTurns = 0
  Capacity = 1
  SendBuffer = 1
  MayClose = FALSE
CHECK_DEADLOCK FALSE
SYMMETRY Alike
INVARIANT NoEventMissed
