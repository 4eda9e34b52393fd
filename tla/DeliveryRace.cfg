SPECIFICATION Spec
CONSTANTS
  p1 = p1
  p2 = p2
  s1 = s1
  s2 = s2
  t1 = t1
  t2 = t2
  Process = {p1, p2}
  Session = {s1, s2}
  Nobody = Nobody
  Task = {t1, t2}
  Owner <- MCOwner
  Wake = {t2}
  Sharing = {FALSE, TRUE}
  Foreign = TRUE
  MaxClaims = 3
  MaxReplaced = 1
  MaxFailures = 0
CONSTRAINT MCBound
SYMMETRY Processes
PROPERTIES DeliversOnce NewestClaimDecides
CHECK_DEADLOCK FALSE
