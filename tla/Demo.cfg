CONSTANTS
  Nothing = Nothing
  KeepRunning = FALSE
  MaxPresses = 2
SPECIFICATION FairDemoSpec
CHECK_DEADLOCK FALSE
INVARIANTS
  PassMeansProved
  EverythingTornDown
PROPERTIES
  DemoEnds
