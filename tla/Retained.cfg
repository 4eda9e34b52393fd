SPECIFICATION Spec
CONSTANTS
  None = None
  Owner = Owner
  m1 = m1
  m2 = m2
  m3 = m3
  m4 = m4
  h1 = h1
  h2 = h2
  h3 = h3
  Manager = {m1, m2, m3}
  Host = {h1, h2}
  HostOf <- MCHostOf
  Origin = m1
  MaxLapses = 1
INVARIANTS OneController RecordTellsTruth LossIsReal
PROPERTY ResultIsKept
CHECK_DEADLOCK FALSE
