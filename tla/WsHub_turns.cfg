SPECIFICATION Spec
CONSTANTS
  MaxConns = 2
  Emitters = {}
  Requests = {r1}
  MaxEvents = 0
  MaxTurns = 2
  Capacity = 2
  SendBuffer = 2
  MayClose = TRUE
CHECK_DEADLOCK FALSE
INVARIANT TurnCancellable
PROPERTY AnsweredRequestReturns
