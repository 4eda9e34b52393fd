SPECIFICATION FairSpec
CONSTANTS
  s1 = s1
  s2 = s2
  Session = {s1, s2}
  Nobody = Nobody
  Passes = 2
  MaxEvents = 3
  MaxChanges = 2
  MaxFailures = 2
INVARIANTS NoEventLost NothingMixed
PROPERTY ReplacementEnds
CHECK_DEADLOCK FALSE
