\* The phases the operator writes, a failure and the empty phase of a stage not yet reconciled included.
CONSTANTS
  ManagedApi <- MCManagedApi
  MTManagedApi <- MCMTManagedApi
  Completed = "completed"
  InProgress = "in progress"
  NoPhase = ""
  Phases = {"", "in progress", "completed", "failed"}
SPECIFICATION Spec
INVARIANTS
  PassedMeansComplete
\* The test returns once the poll passes or GetRHMI fails.
CHECK_DEADLOCK FALSE
