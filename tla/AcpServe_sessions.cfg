SPECIFICATION ServeSpec
CONSTANTS
  Inits = {i}
  News = {n, k}
  Prompts = {p, q}
  Inbound = {i, n, k, p, q, m}
  Malformed = {m}
  MaxNotes = 2
  Outside = {}
  Backlog = 1
  Faults = {"stalled"}
  MaxInbox = 1
  MaxAnswers = 0
SYMMETRY Alike
CHECK_DEADLOCK FALSE
INVARIANTS SoleSession TurnSlot NotesInOrder
