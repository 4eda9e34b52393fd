SPECIFICATION Spec
CONSTANTS
  m1 = m1
  m2 = m2
  Manager = {m1}
  Starter = m1
  MaxStops = 2
  MaxReplaced = 2
  Faults = {"probe", "lock", "reuse"}
INVARIANT LostIsNotRunning
INVARIANT EvidenceAgrees
PROPERTY StrangerUnharmed
CHECK_DEADLOCK FALSE
