CONSTANTS
  NoRun = NoRun
  Runs <- MCRuns
  spec <- Mcspec
  path <- Mcpath
  MaxReports = 1
SPECIFICATION PublishSpec
CHECK_DEADLOCK FALSE
INVARIANTS PageIsLatest
