CONSTANTS
  simple = simple  complex = complex  other = other
  small = small  large = large  general = general
  v1 = v1
  None = None
  Reject = Reject
  DefaultCluster = general
  Labels = {simple, complex, other}
  Clusters = {small, large, general}
  Scores = {1, 2, 3}
  NaNs = {3}
  Revisions = {v1}
  MaxRanked = 3
  Policies <- MCPolicies
  Outcomes <- MCOutcomes
  RawConfigs <- MCRawConfigs
  Bodies <- MCBodies
  Chars = {"a", "w", " ", "n"}
  Space = {" ", "n"}
  Newline = "n"
  Width <- MCWidth
  MaxPromptChars = 2
  MaxBodyBytes = 4
SPECIFICATION FunctionsSpec
CHECK_DEADLOCK FALSE
INVARIANTS
  TableHolds
  RecordExplainsRoute
  ContextIsThePrompt
  LastUserTurnDecides
  TablesMatchTheConfig
