SPECIFICATION MCFairSpec
CONSTANTS
  m1 = m1
  m2 = m2
  Manager = {m1, m2}
  Starter = m1
  MaxStops = 1
  MaxReplaced = 1
  Faults = {"lease"}
INVARIANTS RecordParses DisposedIsEmpty CommandIsIdentified
PROPERTIES ExitSettles StopResolves SettledIsFinal
CHECK_DEADLOCK FALSE
