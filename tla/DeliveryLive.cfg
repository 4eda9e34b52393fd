SPECIFICATION FairSpec
CONSTANTS
  p1 = p1
  p2 = p2
  s1 = s1
  s2 = s2
  t1 = t1
  t2 = t2
  Process = {p1}
  Session = {s1, s2}
  Nobody = Nobody
  Task = {t1, t2}
  Owner <- MCOwner
  Wake = {t1, t2}
  Sharing = {FALSE}
  Foreign = FALSE
  MaxClaims = 6
  MaxReplaced = 1
  MaxFailures = 1
PROPERTY CompletionArrives
CHECK_DEADLOCK FALSE
