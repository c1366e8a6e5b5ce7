CONSTANTS
  Dispatchers = {d1, d2}
  Tasks = {t1, t2}
  InitialStatuses = {"todo", "done"}
  MaxRevision = 3
SPECIFICATION Spec
SYMMETRY Symmetry
CHECK_DEADLOCK FALSE
INVARIANTS TypeOK DenseLog LogReplaysChildren
PROPERTIES CancelIsSticky LedgerSpec
