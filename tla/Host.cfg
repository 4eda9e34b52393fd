SPECIFICATION FairSpec
CONSTANTS
  hydrate = hydrate
  bash = bash
  Request = {hydrate, bash}
  Untimed = {bash}
  Hydrate = hydrate
  MaxReloads = 1
  MaxSignals = 2
  MaxErrors = 1
INVARIANTS TerminalRestored
PROPERTIES OneChild ExitCodeAgrees BufferedAnswersCount LifeEnds
CHECK_DEADLOCK FALSE
