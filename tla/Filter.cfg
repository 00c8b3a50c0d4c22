CONSTANTS
  simple = simple  complex = complex  other = other
  small = small  large = large  general = general
  v1 = v1  r1 = r1  r2 = r2
  None = None
  Reject = Reject
  Labels = {simple, complex, other}
  Clusters = {small, large, general}
  Scores = {1, 2, 3}
  NaNs = {}
  Revisions = {v1}
  Requests = {r1, r2}
  Configs <- MCConfigs
  Inputs <- MCInputs
  Answers <- MCAnswers
  QueueCapacity = 1
  CounterModulus = 2
  MaxCrashes = 1
SPECIFICATION FairSpec
INVARIANTS
  TypeOK
  MetricsAccount
  NoForgedProvenance
  SeriesBounded
  GeneratedIdsDistinct
  OneConnection
PROPERTIES
  DecidedOnce
  ImplementsContract
  EveryRequestAnswered
