SPECIFICATION Spec
CONSTANTS
  MaxPrompts = 1
  MaxCrashes = 0
  MaxTurns = 2
  RecoveryLimit = 1
  MaxRepeatedRounds = 2
  MinDrainPairs = 1
  Replies <- FaultyReplies
  ProviderErrors = {"too_long", "max_tokens", "overloaded", "other"}
  Compaction = {"shrinks", "exhausted"}
  HookOutcomes = {"message", "prevent"}
  Environment = {"cancel", "panic", "skills_fail", "budget", "wake"}
CHECK_DEADLOCK FALSE
INVARIANT TypeOK
INVARIANT CallsBounded
INVARIANT EveryUseAnswered
PROPERTY TurnEnds
