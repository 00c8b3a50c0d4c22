CONSTANTS
  NoCode = NoCode
  Scenarios <- MCScenarios
  Leftovers <- MCLeftovers
  MaxDeaths = 1
  MaxSignals = 2
SPECIFICATION FairBenchSpec
CHECK_DEADLOCK FALSE
INVARIANTS
  ExitZeroMeansAllRan
PROPERTY BenchEnds
