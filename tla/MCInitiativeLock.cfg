CONSTANTS
  t1 = t1
  t2 = t2
  t3 = t3
  Tasks = {t1, t2, t3}
  Graphs <- MCGraphs
  Runs = {r1, r2}
  RepoGiven = FALSE
  MaxWaves = 2
  MaxStarts = 2
  MaxEdits = 0
SPECIFICATION Spec
CHECK_DEADLOCK FALSE
INVARIANT OneLiveRun
