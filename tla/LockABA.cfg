SPECIFICATION Spec
CONSTANTS
  Caller = {c1, c2, c3}
  Ghost = ghost
  MaxDirs = 3
  MaxCrashes = 0
  Deadline = TRUE
SYMMETRY Callers
INVARIANT MutualExclusion
CHECK_DEADLOCK FALSE
