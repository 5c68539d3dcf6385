\* The phases the operator writes, the empty phase of a stage not yet
\* reconciled and a failure included, in any order and moving back.
CONSTANTS
  ManagedApi <- MCManagedApi
  MTManagedApi <- MCMTManagedApi
  Completed = "completed"
  InProgress = "in progress"
  NoPhase = ""
  Phases = {"", "in progress", "completed", "failed"}
SPECIFICATION Spec
INVARIANTS
  TypeOK
  PassedMeansAccepted
\* The test returns once the poll passes or GetRHMI fails.
CHECK_DEADLOCK FALSE
