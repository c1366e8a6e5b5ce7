SPECIFICATION Spec
CONSTANTS
  Threads = {t1, t2, t3}
  Free = free
  Commands = {ls, rm}
  Flagged = {rm}
  MaxChecks = 5
INVARIANTS TypeOK AnswersItsQuestion KeptWorkerOwesNothing
PROPERTY LockIsGivenBack
CHECK_DEADLOCK FALSE
