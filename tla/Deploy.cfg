CONSTANTS
  None = None
  Empty = Empty
  MaxRuns = 2
  MaxLost = 1
  MaxIgnored = 1
  MaxInterrupts = 2
  MaxChanges = 1
  MaxTeardowns = 2
SPECIFICATION Spec
CHECK_DEADLOCK FALSE
INVARIANTS
  NeverLeftDead
PROPERTIES
  CleanMeansUndone
