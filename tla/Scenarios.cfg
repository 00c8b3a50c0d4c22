CONSTANTS
  simple = simple  complex = complex  other = other
  small = small  large = large  general = general
  v1 = v1  p1 = p1  p2 = p2
  None = None
  Reject = Reject
  Labels = {simple, complex, other}
  Clusters = {small, large, general}
  Scores = {1, 2}
  NaNs = {}
  Revisions = {v1}
  DEFAULT_LABEL_TO_CLUSTER <- MCLabelToCluster
  Easy = {simple}
  LARGE_MODEL = large
  SMALL_MODEL = small
  BodyBytes = 20
  FillerBytes = 3
  Stopwords = {"what", "is", "the", "of", "a", "and", "by"}
  Opaque = {"opaque"}
  AnchorFiles = {"complexity", "cost", "sensitivity"}
  Classes = {simple, complex}
  MinPrompts = 2
  MinPerClass = 1
  Measured = 3
  Invocations <- MCInvocations
SPECIFICATION Spec
INVARIANTS
  AttributionIsTrue
  DegradedAsClaimed
  ArmsDifferInTheFilter
  CountersProveIt
  HeldOut
