SPECIFICATION FairSpec
CONSTANTS
  Process = {p1, p2}
  Ghost = ghost
  MaxRebinds = 1
  MaxAttempts = 3
  MaxFailures = 1
  MaxDirs = 3
INVARIANT OneProducer
PROPERTIES FeedAdvances TakeoverCompletes
CHECK_DEADLOCK FALSE
