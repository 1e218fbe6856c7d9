SPECIFICATION FairSpec
CONSTANTS
  NumCalls = 4
  MaxParallel = 2
  Kinds <- MixedKinds
CHECK_DEADLOCK FALSE
INVARIANTS TypeOK UnsafeRunsAlone UnsafeKeepsOrder AbortHasCause ResultsKept
PROPERTY ToolsEnd
