------------------------ MODULE MCTerminalLifecycle ------------------------
(***************************************************************************)
(* TLC instances of TerminalLifecycle.                                     *)
(***************************************************************************)
EXTENDS TerminalLifecycle

CONSTANTS m1, m2

\* The liveness run looks at two sessions in one behaviour each: two managers
\* and no stop, or the last manager left and one stop.
MCInit ==
  /\ rec = NoRecord /\ tree = "none" /\ launched = FALSE /\ exitFile = "unset"
  /\ seen = [m \in Manager |-> NoRecord] /\ armed = [m \in Manager |-> FALSE]
  /\ anchor = [m \in Manager |-> "none"] /\ indexed = [m \in Manager |-> FALSE]
  /\ start = "ready" /\ child = FALSE /\ slot = [w \in Worker |-> IdleSlot]
  /\ replaced = 0
  /\ \/ stops = MaxStops /\ detached = [m \in Manager |-> FALSE]
     \/ stops = 0 /\ detached = [m \in Manager |-> m # Starter]

\* A manager detached at the start is no longer there to crash.
MCNext ==
  \/ Start
  \/ \E m \in Manager : InitScan(m) \/ Refresh(m) \/ Detach(m)
  \/ \E m \in Manager : ~detached[m] /\ Crash(m)
  \/ \E w \in Worker : Poll(w) \/ Finish(w) \/ Stop(w) \/ LockTimesOut(w)
  \/ ChildClosed
  \/ World

MCFairSpec == MCInit /\ [][MCNext]_vars /\ Fairness
=============================================================================
