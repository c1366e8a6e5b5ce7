CONSTANTS
  Tasks = {t1, t2}
  InitialStatuses = {"todo"}
  MaxConcurrent = 2
  Refusable = {}
SPECIFICATION Spec
CHECK_DEADLOCK FALSE
PROPERTY CancelledTaskStaysCancelled
