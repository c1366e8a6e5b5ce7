CONSTANTS
  Tasks = {t1}
  Nobody = Nobody
  MaxConcurrent = 1
  SecurityReviewEnabled = TRUE
  BlockOnMissing = FALSE
  MaxCommits = 2
  MaxMoves = 1
  MaxRuns = 2
SPECIFICATION Spec
CHECK_DEADLOCK FALSE
PROPERTIES MergesReviewedCommit DeletesMergedOnly EveryTaskIsAnswered
