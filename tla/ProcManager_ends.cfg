SPECIFICATION FairSpec
CONSTANTS
  Procs = {p, q}
  Callers = {k, s}
  MaxProcesses = 1
CHECK_DEADLOCK FALSE
INVARIANTS LimitKept EndedIsEnded
PROPERTIES StatusFinal KillsReturn
