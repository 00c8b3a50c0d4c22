CONSTANTS
  None = None
  Target = 1
  MaxAttempts = 2
  Prompts = 2
  Tolerance = 2
  PromptTolerance = 4
  PromptCounted = TRUE
  Ours <- MCOurs
  Foreign <- MCForeign
  Consecutive = 2
  MaxForeign = 2
  MaxStops = 1
  MaxRestarts = 1
SPECIFICATION FairSpec
CHECK_DEADLOCK FALSE
INVARIANTS
  IsolatedMeansAlone
  AttemptsInOrder
PROPERTY ImplementsCampaign
