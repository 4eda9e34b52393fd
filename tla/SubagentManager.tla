----------------------------- MODULE SubagentManager -----------------------------
(***************************************************************************)
(* SubagentManager (subagents/manager.ts) with disposable children: a      *)
(* bounded number of children run, further spawns wait in a FIFO queue,    *)
(* the setup of a child is a chain of awaits (git, the worktree gate, the  *)
(* visible pane's slot, the pane itself), and a child that ended settles   *)
(* after its manifest was collected.  The operators take the manager's     *)
(* fields m to its fields after one synchronous stretch of code; the       *)
(* module SubagentSession runs them.                                       *)
(***************************************************************************)
EXTENDS Integers, SequencesExt

CONSTANTS
  Task,        \* the tasks ever spawned
  Visible,     \* spawned with a pane, unless they are replies
  Isolated,    \* spawned with a worktree of their own, unless they are replies
  MaxRunning,  \* SUBAGENT_MAX_RUNNING
  MaxQueued,   \* SUBAGENT_MAX_QUEUED
  None

ASSUME ManagerAssumption ==
  /\ Visible \subseteq Task /\ Isolated \subseteq Task /\ None \notin Task
  /\ MaxRunning \in Nat \ {0} /\ MaxQueued \in Nat /\ IsFiniteSet(Task)

VARIABLE mgr

Settings == {"git", "gate", "worktree", "base", "pane"}   \* in pendingSpawns
Endings == {"none", "own", "interrupted", "refused"}

ManagerTypeOK ==
  mgr \in [snap : [Task -> {"none", "queued", "running", "settled"}],
           setup : [Task -> Settings \cup {"none", "ready"}],
           child : [Task -> {"none", "starting", "abandoned", "up", "stopping", "gone"}],
           settling : SUBSET Task, outcome : [Task -> Endings],
           queue : Seq(Task), due : BOOLEAN, drained : Task \cup {None},
           gate : Seq(Task), slot : Task \cup {None}, waiters : Seq(Task),
           file : [Task -> Task], cancelled : SUBSET Task, stale : SUBSET Task,
           consumed : SUBSET Task, waited : SUBSET Task]

\* outcome: what the snapshot says of the end, or will once its manifest is there:
\* the child's own end, an interruption, or a setup that failed ("refused").  due: a drainQueue is scheduled;
\* drained: the task whose startTask it awaits; file: the session file the child
\* writes, that of the task it continues.
NewManager ==
  [snap |-> [t \in Task |-> "none"],
   setup |-> [t \in Task |-> "none"],
   child |-> [t \in Task |-> "none"],
   settling |-> {}, outcome |-> [t \in Task |-> "none"], file |-> [t \in Task |-> t],
   queue |-> <<>>, due |-> FALSE, drained |-> None,
   gate |-> <<>>, slot |-> None, waiters |-> <<>>,
   cancelled |-> {}, stale |-> {}, consumed |-> {}, waited |-> {}]

Replies(m, t) == m.file[t] # t
Settled(m, t) == m.snap[t] = "settled"
Pending(m) == {t \in Task : m.setup[t] \in Settings}
Children(m) == {t \in Task : m.snap[t] = "running" /\ t \notin m.settling}

\* Mutant of Occupied: a child in its setup does not take a slot.
OccupiedByChildren(m) == Children(m)

\* runningSummaries
Occupied(m) == Pending(m) \cup Children(m)
Full(m) == Cardinality(Occupied(m)) >= MaxRunning

(***************************************************************************)
(* Settlement.  A queued task, or a child that never started, settles at   *)
(* once; any other keeps its "running" snapshot until its manifest is      *)
(* there.  A task somebody waits for is consumed by that wait.  Of the     *)
(* status, the error and the manifest, outcome keeps whose end it was.     *)
(***************************************************************************)
\* Mutant of Settle: an open wait consumes whatever settles.
SettleForAnyWait(m, t) ==
  [m EXCEPT !.snap[t] = "settled", !.settling = @ \ {t}, !.due = TRUE,
            !.consumed = IF m.waited # {} THEN @ \cup {t} ELSE @]

Settle(m, t) ==
  [m EXCEPT !.snap[t] = "settled", !.settling = @ \ {t}, !.due = TRUE,
            !.consumed = IF t \in m.waited THEN @ \cup {t} ELSE @]

Unstarted(m, t) == m.child[t] \in {"none", "starting", "abandoned"}

AtOnce(m, t, outcome) == m.snap[t] = "queued" \/ (outcome = "failed" /\ Unstarted(m, t))

\* The outcome is "completed", "failed" or "interrupted"; a queued task was interrupted.
Collect(m, t, outcome) ==
  LET own == m.snap[t] # "queued" /\ outcome # "interrupted"
      n == [m EXCEPT !.outcome[t] = IF own THEN "own" ELSE "interrupted"]
  IN IF AtOnce(m, t, outcome) THEN Settle(n, t) ELSE [n EXCEPT !.settling = @ \cup {t}]

\* Mutant of StartSettle: terminal state is not sticky.
StartSettleAgain(m, t, outcome) == IF t \in m.settling THEN m ELSE Collect(m, t, outcome)

StartSettle(m, t, outcome) ==
  IF Settled(m, t) \/ t \in m.settling THEN m ELSE Collect(m, t, outcome)

(***************************************************************************)
(* The end of startTask.  k waiters of the pane's slot have expired when   *)
(* it is released: the slot goes to the first one that has not.            *)
(***************************************************************************)
Released(m, t, k) ==
  IF m.slot # t THEN m
  ELSE [m EXCEPT !.slot = IF k < Len(m.waiters) THEN m.waiters[k + 1] ELSE None,
                 !.waiters = SubSeq(@, k + 2, Len(@))]

\* Mutant of Returned: a direct spawn that failed leaves the queue alone.
ReturnedQuiet(m, t, k) ==
  [Released(m, t, k) EXCEPT
     !.setup[t] = "none", !.cancelled = @ \ {t}, !.stale = @ \ {t},
     !.drained = IF @ = t THEN None ELSE @]

\* A direct spawn that is not running drains the queue, in its own generation.
Returned(m, t, k) ==
  [Released(m, t, k) EXCEPT
     !.setup[t] = "none", !.cancelled = @ \ {t}, !.stale = @ \ {t},
     !.drained = IF @ = t THEN None ELSE @,
     !.due = @ \/ (m.snap[t] # "running" /\ t \notin m.stale)]

\* recordSpawnFailure builds a snapshot of its own, whatever was recorded before.
Failed(m, t, k) ==
  Returned([m EXCEPT !.snap[t] = "settled", !.outcome[t] = "refused"], t, k)

\* Mutant of GivesUp: an interrupted setup overwrites what the cancel recorded.
GivesUpAnyway(m, t, k) == Failed(m, t, k)

\* recordSetupInterruption
GivesUp(m, t, k) == IF Settled(m, t) THEN Returned(m, t, k) ELSE Failed(m, t, k)

\* Mutant of Interrupted: a task of a session that is over goes on.
InterruptedByCancel(m, t) == t \in m.cancelled

\* setupInterrupted
Interrupted(m, t) == t \in m.stale \cup m.cancelled

(***************************************************************************)
(* spawn and drainQueue                                                    *)
(***************************************************************************)
Start(m, t) == [m EXCEPT !.setup[t] = "git"]
Queues(m) == Full(m) \/ m.queue # <<>>
Spawned(m, t, f) ==
  LET n == [m EXCEPT !.file[t] = f]
  IN IF Queues(m) THEN [n EXCEPT !.queue = Append(@, t), !.snap[t] = "queued"] ELSE Start(n, t)
Refuses(m) == Queues(m) /\ Len(m.queue) >= MaxQueued   \* at_capacity

Drained(m) ==
  IF m.queue # <<>> /\ ~Full(m)
  THEN Start([m EXCEPT !.queue = Tail(@), !.drained = Head(m.queue)], Head(m.queue))
  ELSE [m EXCEPT !.due = FALSE]

Drain == mgr.due /\ mgr.drained = None /\ mgr' = Drained(mgr)

(***************************************************************************)
(* startTask, from one await to the next                                   *)
(***************************************************************************)
\* The slot is taken, or waited for until the provisioning budget ends.
Reserve(m, t) ==
  [m EXCEPT !.setup[t] = "pane", !.slot = IF @ = None THEN t ELSE @,
            !.waiters = IF m.slot = None THEN @ ELSE Append(@, t)]

\* The backend starts the child: a headless one runs, or its configuration is
\* refused, at once; a visible one is awaited.
Launched(m, t) == [m EXCEPT !.snap[t] = "running"]
Headless(m, t) ==
  {Returned([Launched(m, t) EXCEPT !.child[t] = "up"], t, 0),
   Returned(StartSettle(Launched(m, t), t, "failed"), t, 0)}
Pane(m, t) == [Launched(m, t) EXCEPT !.child[t] = "starting", !.setup[t] = "ready"]

Prepared(m, t) == IF t \in Visible /\ ~Replies(m, t) THEN {Reserve(m, t)} ELSE Headless(m, t)

GitRead(t) ==
  /\ mgr.setup[t] = "git"
  /\ \/ Interrupted(mgr, t) /\ mgr' = GivesUp(mgr, t, 0)
     \/ ~Interrupted(mgr, t) /\ mgr' = Failed(mgr, t, 0)
     \/ /\ ~Interrupted(mgr, t)
        /\ IF t \in Isolated /\ ~Replies(mgr, t)
           THEN mgr' = [mgr EXCEPT !.setup[t] = "gate", !.gate = Append(@, t)]
           ELSE mgr' \in Prepared(mgr, t)

\* Mutant of Opened: a creation does not wait for the one before it.
OpenedToAll(m, t) == TRUE

\* withWorktreeCreation: one creation at a time, in FIFO order.
Opened(m, t) == Head(m.gate) = t

GateTurn(t) ==
  /\ mgr.setup[t] = "gate" /\ Opened(mgr, t)
  /\ mgr' = IF Interrupted(mgr, t)
            THEN GivesUp([mgr EXCEPT !.gate = RemoveFirst(@, t)], t, 0)
            ELSE [mgr EXCEPT !.setup[t] = "worktree"]

\* A creation that fails, and below a base that is not found and a slot that comes
\* too late, is recorded before anyone asks whether the setup was interrupted.
WorktreeMade(t) ==
  /\ mgr.setup[t] = "worktree"
  /\ LET m == [mgr EXCEPT !.gate = RemoveFirst(@, t)]
     IN mgr' \in {Failed(m, t, 0), [m EXCEPT !.setup[t] = "base"]}

BaseResolved(t) ==
  /\ mgr.setup[t] = "base"
  /\ \/ mgr' = Failed(mgr, t, 0)
     \/ Interrupted(mgr, t) /\ mgr' = GivesUp(mgr, t, 0)
     \/ ~Interrupted(mgr, t) /\ mgr' \in Prepared(mgr, t)

Expiring == 0..Len(mgr.waiters)

\* A release found the waiter expired.
PaneRefused(t) ==
  /\ mgr.setup[t] = "pane" /\ mgr.slot # t /\ t \notin ToSet(mgr.waiters)
  /\ mgr' = Failed(mgr, t, 0)

\* The waiter's own timer.
PaneTimesOut(t) ==
  /\ t \in ToSet(mgr.waiters)
  /\ mgr' = Failed([mgr EXCEPT !.waiters = RemoveFirst(@, t)], t, 0)

PaneGranted(t) ==
  /\ mgr.setup[t] = "pane" /\ mgr.slot = t
  /\ \E k \in Expiring :
       \/ Interrupted(mgr, t) /\ mgr' = GivesUp(mgr, t, k)
       \/ mgr' = Failed(mgr, t, k)
       \/ ~Interrupted(mgr, t) /\ k = 0 /\ mgr' = Pane(mgr, t)

\* child.ready, and the settlement in flight by then.
Ready(m, t) ==
  /\ m.setup[t] = "ready" /\ m.child[t] \notin {"starting", "abandoned"}
  /\ t \notin m.settling

LaunchReturns(t) == Ready(mgr, t) /\ \E k \in Expiring : mgr' = Returned(mgr, t, k)

\* What is resolved already resumes before the next event of Node's loop.
Resuming ==
  \/ mgr.due /\ mgr.drained = None
  \/ \E t \in Task : \/ mgr.setup[t] = "gate" /\ Opened(mgr, t)
                     \/ mgr.setup[t] = "pane" /\ t \notin ToSet(mgr.waiters)
                     \/ Ready(mgr, t)

Resumes(t) == GateTurn(t) \/ PaneGranted(t) \/ PaneRefused(t) \/ LaunchReturns(t)
Awaited(t) == GitRead(t) \/ WorktreeMade(t) \/ BaseResolved(t) \/ PaneTimesOut(t)

(***************************************************************************)
(* The child.  An interrupted headless child gets SIGTERM, and SIGKILL     *)
(* 5 s later; an interrupted pane is closed, once it exists.  A pane that  *)
(* could not be closed counts as gone here.                                *)
(***************************************************************************)
Interrupt(m, t) ==
  [m EXCEPT !.child[t] = CASE @ = "up" -> "stopping" [] @ = "starting" -> "abandoned"
                           [] OTHER -> @]

Ends(m, t, outcome) == StartSettle([m EXCEPT !.child[t] = "gone"], t, outcome)

PaneStarts(t) ==
  /\ mgr.child[t] \in {"starting", "abandoned"}
  /\ \/ mgr.child[t] = "starting" /\ mgr' = [mgr EXCEPT !.child[t] = "up"]
     \/ mgr.child[t] = "abandoned" /\ mgr' = Ends(mgr, t, "interrupted")
     \/ mgr' = [StartSettle(mgr, t, "failed") EXCEPT !.child[t] = "gone"]

ChildEnds(t) ==
  /\ mgr.child[t] = "up"
  /\ \E outcome \in {"completed", "failed"} : mgr' = Ends(mgr, t, outcome)

ChildStops(t) ==
  /\ mgr.child[t] = "stopping"
  /\ \E outcome \in {"interrupted", "failed"} : mgr' = Ends(mgr, t, outcome)

ManifestReady(t) ==
  /\ t \in mgr.settling /\ mgr' = Settle(mgr, t)

ChildStep(t) == PaneStarts(t) \/ ChildEnds(t) \/ ChildStops(t) \/ ManifestReady(t)

(***************************************************************************)
(* cancel and close of one task, up to their first await                   *)
(***************************************************************************)
\* A queued task leaves the queue; one that is being started is marked.
Dequeued(m, t) ==
  IF t \in ToSet(m.queue) THEN [m EXCEPT !.queue = RemoveFirst(@, t)]
  ELSE [m EXCEPT !.cancelled = @ \cup {t}]

Consume(m, T) == [m EXCEPT !.consumed = @ \cup T]

CancelTask(m, t) ==
  IF t \in m.settling THEN m
  ELSE IF Settled(m, t) THEN Consume(m, {t})
  ELSE IF m.snap[t] = "queued"
       THEN StartSettle(Dequeued(Consume(m, {t}), t), t, "interrupted")
       ELSE Interrupt(Consume(m, {t}), t)

\* requestClose writes the control file the child's watcher acts upon.
CloseTask(m, t) ==
  IF t \in m.settling \/ m.snap[t] = "running" THEN m
  ELSE IF Settled(m, t) THEN Consume(m, {t})
  ELSE StartSettle(Dequeued(m, t), t, "interrupted")

(***************************************************************************)
(* disposeAll and prepareForReplacement: the queue settles, what is being  *)
(* set up belongs to an old generation, children are interrupted.          *)
(***************************************************************************)
Disposed(m) ==
  LET q == ToSet(m.queue) IN
  [m EXCEPT !.queue = <<>>, !.due = @ \/ q # {},
            !.snap = [t \in Task |-> IF t \in q THEN "settled" ELSE m.snap[t]],
            !.outcome = [t \in Task |-> IF t \in q THEN "interrupted" ELSE m.outcome[t]],
            !.stale = {t \in Task : m.setup[t] # "none"},
            !.consumed = @ \cup (q \cap m.waited),
            !.child = [t \in Task |-> IF t \in Children(m) THEN Interrupt(m, t).child[t]
                                      ELSE m.child[t]]]

Replaced(m) == Consume(Disposed(m), {t \in Task : m.snap[t] # "none"})
=============================================================================
