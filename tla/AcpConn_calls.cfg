SPECIFICATION FairSpec
CONSTANTS
  Inbound = {r1}
  Malformed = {}
  MaxNotes = 1
  Outside = {a}
  Backlog = 1
  Faults = {"broken"}
  MaxInbox = 1
  MaxAnswers = 2
CHECK_DEADLOCK FALSE
INVARIANTS OwnAnswer RoutingNeverBlocks NoEntryLeaked AnsweredBeforeReturn
PROPERTIES NoCallerLeftWaiting ServeEnds
