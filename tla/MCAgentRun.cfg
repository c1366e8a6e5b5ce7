CONSTANTS
  Modes = {"waiting", "streaming"}
  Persistent = {TRUE, FALSE}
  MaxRetries = 3
  Ceiling = 3
SPECIFICATION Spec
CHECK_DEADLOCK FALSE
INVARIANTS TypeOK NothingOutlivesTheRun AbortReachesTheAgent
PROPERTIES StartsAreWanted OrphansStop RunEnds
