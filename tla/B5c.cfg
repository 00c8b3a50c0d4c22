CONSTANTS
  None = None
  HeldOut <- MCHeldOut
  PerClass = 1
  Ours = 30
  Foreign <- MCForeign
  MaxRuns = 1
  MaxForeign = 2
  MaxStrangers = 1
  MaxFaults = 1
SPECIFICATION Spec
CHECK_DEADLOCK FALSE
INVARIANTS
  PassedMeansUncontended
  PassedMeansClassified
  ArmsDoNotFeedEachOther
