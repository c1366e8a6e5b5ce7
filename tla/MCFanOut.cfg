CONSTANTS
  Tasks = {t1, t2, t3}
  InitialStatuses = {"todo", "done"}
  MaxConcurrent = 2
  Refusable = {t1, t2, t3}
SPECIFICATION Spec
CHECK_DEADLOCK FALSE
INVARIANTS TypeOK FlowTellsOutcomes SkippedIsCancelled
PROPERTY FlowEnds
