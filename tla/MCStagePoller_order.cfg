\* The phases the operator writes, a failure included.
CONSTANTS
  ManagedApi <- MCManagedApi
  MTManagedApi <- MCMTManagedApi
  Completed = "completed"
  InProgress = "in progress"
  NoPhase = ""
  Phases = {"in progress", "completed", "failed"}
SPECIFICATION Spec
PROPERTY
  ErrorEndsPoll
\* The test returns once the poll passes or GetRHMI fails.
CHECK_DEADLOCK FALSE
