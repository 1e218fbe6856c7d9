SPECIFICATION Spec
CONSTANTS
  Files <- MCFiles
  Contents <- MCContents
  Absent = "absent"
  NoFile = "none"
  SizeOf <- MCSizeOf
  SpillThreshold = 2
  MemBudget = 3
  MaxEdits = 3
  MaxTurns = 2
  DiskFaults = TRUE
INVARIANT MemAccounted
INVARIANT BudgetKept
INVARIANT SpillsKept
INVARIANT EditsUndoable
PROPERTY RefinesUndoLog
