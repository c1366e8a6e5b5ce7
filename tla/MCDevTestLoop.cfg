CONSTANTS
  MaxCycles = 3
  NoProgressLimit = 2
  MaxContinuations = 2
  ParalysisCap = 2
  TerminateThreshold = 3
  MaxRetries = 1
  AuditTypes = {TRUE, FALSE}
  FileSets <- MCFileSets
  MaxDispatches = 2
SPECIFICATION Spec
CHECK_DEADLOCK FALSE
INVARIANTS TypeOK SuccessLeavesNoCheckpoint PassedMeansTested
PROPERTY ImplementsTaskRun
