SPECIFICATION Spec
CONSTANTS
  None = None
  pane1 = pane1
  pane2 = pane2
  headless1 = headless1
  Task = {pane1, pane2, headless1}
  Visible = {pane1, pane2}
  Isolated = {pane1, pane2}
  MaxRunning = 2
  MaxQueued = 1
  MaxSessions = 1
SYMMETRY Alike
INVARIANTS SlotsBounded NoResultLost NothingParked NothingOrphaned OneContinuation
PROPERTIES ReportedOnce SettledIsSticky
CHECK_DEADLOCK FALSE
