SPECIFICATION FairSpec
CONSTANTS
  Caller = {c1, c2}
  Ghost = ghost
  MaxDirs = 3
  MaxCrashes = 1
  Deadline = TRUE
INVARIANTS MutualExclusion NothingLeftBehind
PROPERTY EveryCallReturns
CHECK_DEADLOCK FALSE
