\* The same phases, one product per map; the test goroutine is weakly fair,
\* the operator is not.
CONSTANTS
  ManagedApi <- MCManagedApiOne
  MTManagedApi <- MCMTManagedApi
  Completed = "completed"
  InProgress = "in progress"
  NoPhase = ""
  Phases = {"", "in progress", "completed", "failed"}
SPECIFICATION FairSpec
PROPERTY
  SettledPollEnds
\* The test returns once the poll passes or GetRHMI fails.
CHECK_DEADLOCK FALSE
