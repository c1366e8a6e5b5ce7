CONSTANTS
  Tasks = {t1, t2}
  Nobody = Nobody
  MaxConcurrent = 1
  SecurityReviewEnabled = FALSE
  BlockOnMissing = TRUE
  MaxCommits = 2
  MaxMoves = 2
  MaxRuns = 1
SPECIFICATION Spec
SYMMETRY Symmetry
CHECK_DEADLOCK FALSE
INVARIANTS TypeOK ChainIsOwnMerges
PROPERTIES StopsMerging DoneIsLanded
