CONSTANTS
  None = None
  w1 = w1  w2 = w2
  Workers = {w1, w2}
  Plan <- TwoMissArms
  Warmup = 1
  AllowErrors = 1
  Faults = {"connect", "transport", "status", "close", "build", "callback"}
SPECIFICATION FairSpec
INVARIANTS
  EachIndexOnce
  PassedMeansComplete
  MissesMiss
PROPERTY RunEnds
