SPECIFICATION Spec
CONSTANTS
  MaxPrompts = 2
  MaxCrashes = 1
  MaxTurns = 2
  RecoveryLimit = 1
  MaxRepeatedRounds = 2
  MinDrainPairs = 1
  Replies <- PlainReplies
  ProviderErrors = {}
  Compaction = {}
  HookOutcomes = {}
  Environment = {}
CHECK_DEADLOCK FALSE
INVARIANT ResumeRestoresReplies
