SPECIFICATION Spec
CONSTANTS
  MaxPrompts = 2
  MaxCrashes = 1
  MaxTurns = 2
  RecoveryLimit = 1
  MaxRepeatedRounds = 2
  MinDrainPairs = 1
  Replies <- ToolReplies
  ProviderErrors = {}
  Compaction = {}
  HookOutcomes = {}
  Environment = {"cancel"}
CHECK_DEADLOCK FALSE
INVARIANT NoToolTwice
INVARIANT SnapshotCoversResults
INVARIANT RequestWellFormed
INVARIANT ResultsInCallOrder
PROPERTY CancelSealsOnlyUnrun
