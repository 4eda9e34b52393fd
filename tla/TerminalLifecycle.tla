-------------------------- MODULE TerminalLifecycle --------------------------
(***************************************************************************)
(* The life of one managed terminal: terminal_start, terminal_stop, the    *)
(* reconcile poll and crash recovery, run by several TerminalTaskManager   *)
(* instances that share the durable record, the exit-code file, the launch *)
(* gate and the process group of the terminal.                             *)
(*                                                                         *)
(* A manager is single-threaded JavaScript: between two awaits nothing     *)
(* else of the same manager runs, but another process may act between two  *)
(* of its accesses to shared state.  A step is one round of probes with    *)
(* the decision it leads to; the exit code, the probes, the signal and the *)
(* settlement that follow each other are separate steps, and a manager in  *)
(* the middle of such a turn (SyncPc) keeps its other continuations        *)
(* waiting.  A verified signal (identity check, then kill) is one step.    *)
(*                                                                         *)
(* The process group is the POSIX one, in one of these states:             *)
(*   "none"     not spawned               "gate"    wrapper waits to launch *)
(*   "command"  the command runs          "leader"  exit code written, the  *)
(*                                                  wrapper stays as leader *)
(*   "orphans"  leader dead, descendants alive                             *)
(*   "empty"    no member left            "reused"  its number now belongs  *)
(*                                                  to an unrelated group   *)
(***************************************************************************)
EXTENDS TerminalRecord, FiniteSets

CONSTANTS
  Manager,      \* manager instances that share the store
  Starter,      \* the instance whose session calls terminal_start
  MaxStops,     \* bound: terminal_stop calls
  MaxReplaced,  \* bound: crashes or session replacements of a manager
  Faults        \* what may go wrong: a subset of Fault

\* "lease": a start outlives startingRecoveryGraceMs.  "probe": ps does not
\* answer, or a signal fails.  "lock": the task lock stays busy.  "reuse": the
\* group's number is given to a stranger.
Fault == {"lease", "probe", "lock", "reuse"}

ASSUME LifecycleAssumption ==
  /\ Starter \in Manager
  /\ MaxStops \in Nat /\ MaxReplaced \in Nat
  /\ Faults \subseteq Fault

VARIABLES
  rec,        \* meta.json
  tree,       \* the process group
  launched,   \* launch.ready exists
  exitFile,   \* what exit.code holds; "unset" while it is empty
  seen,       \* per manager: the retained snapshot of the task
  armed,      \* per manager: the supervisor polls the task
  anchor,     \* per manager: runtime.treeVerification
  indexed,    \* per manager: the index was initialised
  detached,   \* per manager: detach() was called
  start,      \* program counter of terminal_start
  child,      \* the starter awaits the close event of the spawned wrapper
  slot,       \* per continuation: program counter and locals
  stops,      \* terminal_stop calls so far
  replaced    \* crashes and replacements so far

disk == <<rec, launched, exitFile>>
local == <<seen, armed, anchor>>
life == <<indexed, detached, replaced, child>>
vars == <<rec, tree, launched, exitFile, seen, armed, anchor, indexed,
          detached, start, child, slot, stops, replaced>>

Tree == {"none", "gate", "command", "leader", "orphans", "empty", "reused"}
LeaderAlive == {"gate", "command", "leader"}
Alive == LeaderAlive \cup {"orphans"}

\* One reconcile and one stop continuation per manager.
Worker == Manager \X {"poll", "stop"}
Mgr(w) == w[1]

SyncPc == {"probe", "natural", "killNat", "settle", "lost", "recover", "term",
           "kill", "signalFailed", "disposed", "failed", "stopProbe",
           "killStop", "observe"}
AwaitPc == {"idle", "waitNat", "waitTerm", "waitKill", "waitStop"}
StartSync == {"spawn", "identify", "persist", "freshFail", "freshEnd", "release",
              "failLaunch"}
StartPc == StartSync \cup {"ready", "killFail", "killEnd", "unlaunch", "ended"}

Signal == {"none", "sent", "failed", "different", "unknown"}
Slot ==
  [pc: SyncPc \cup AwaitPc, exit: ExitCode, anchors: Anchors, sig: Signal,
   suppress: BOOLEAN, restore: BOOLEAN, andThen: {"nothing", "observe", "consume"}]
IdleSlot ==
  [pc |-> "idle", exit |-> "unset", anchors |-> "none", sig |-> "none",
   suppress |-> FALSE, restore |-> FALSE, andThen |-> "nothing"]

TypeOK ==
  /\ rec \in TaskRecord
  /\ tree \in Tree
  /\ launched \in BOOLEAN
  /\ exitFile \in {"unset", "zero", "nonzero"}
  /\ seen \in [Manager -> TaskRecord]
  /\ armed \in [Manager -> BOOLEAN]
  /\ anchor \in [Manager -> Anchors]
  /\ indexed \in [Manager -> BOOLEAN]
  /\ detached \in [Manager -> BOOLEAN]
  /\ start \in StartPc
  /\ child \in BOOLEAN
  /\ slot \in [Worker -> Slot]
  /\ stops \in 0..MaxStops
  /\ replaced \in 0..MaxReplaced

Init ==
  /\ rec = NoRecord
  /\ tree = "none"
  /\ launched = FALSE
  /\ exitFile = "unset"
  /\ seen = [m \in Manager |-> NoRecord]
  /\ armed = [m \in Manager |-> FALSE]
  /\ anchor = [m \in Manager |-> "none"]
  /\ indexed = [m \in Manager |-> FALSE]
  /\ detached = [m \in Manager |-> FALSE]
  /\ start = "ready"
  /\ child = FALSE
  /\ slot = [w \in Worker |-> IdleSlot]
  /\ stops = 0
  /\ replaced = 0

-----------------------------------------------------------------------------
(***************************************************************************)
(* Turns, record mutations and the retained projection.                    *)
(***************************************************************************)
InTurn(w) == slot[w].pc \in SyncPc
StarterInTurn(m) == m = Starter /\ start \in StartSync

\* w may run: no other continuation of its manager is in the middle of a turn.
MayRun(w) ==
  /\ \A v \in Worker \ {w} : Mgr(v) = Mgr(w) => ~InTurn(v)
  /\ ~StarterInTurn(Mgr(w))
StarterMayRun == \A v \in Worker : Mgr(v) = Starter => ~InTurn(v)
ManagerQuiet(m) == StarterInTurn(m) = FALSE /\ \A v \in Worker : Mgr(v) = m => ~InTurn(v)

Arm(m) == [armed EXCEPT ![m] = ~detached[m]]
ClearPoll(m) == [armed EXCEPT ![m] = FALSE]

\* mutate(): the closure's result r becomes the durable and the retained
\* snapshot.  A no-op against a retained snapshot that had diverged recovers
\* the task: a running one has its launch gate released and is armed.
Recovers(m, r) == r = rec /\ seen[m] # rec /\ ~IsSettled(r)

MutateRecord(m, r) ==
  /\ rec' = r
  /\ seen' = [seen EXCEPT ![m] = r]
  /\ launched' = (launched \/ (Recovers(m, r) /\ r.status = "running"))

Mutate(m, r) ==
  /\ MutateRecord(m, r)
  /\ armed' = IF IsSettled(r) THEN ClearPoll(m)
              ELSE IF Recovers(m, r) THEN Arm(m) ELSE armed

Enter(w, s) == slot' = [slot EXCEPT ![w] = s]
Goto(w, pc) == Enter(w, [slot[w] EXCEPT !.pc = pc])
Done(w) == Enter(w, IdleSlot)

-----------------------------------------------------------------------------
(***************************************************************************)
(* Probing and signalling the process group (process-tree.ts, POSIX).      *)
(***************************************************************************)
TreeEmpty == tree \in {"none", "empty"}

\* identityMatches: the answers ps may give for the persisted leader.
IdentityAnswers ==
  IF tree \in LeaderAlive
  THEN {"same"} \cup (IF "probe" \in Faults THEN {"unknown"} ELSE {})
  ELSE CASE tree = "orphans" -> {"unknown"}
         [] tree = "reused" -> {"different", "unknown"}
         [] OTHER -> {"different"}

\* verificationMatches: is a persisted member still in the group?
AnchorAnswers(v) ==
  {IF tree \in LeaderAlive \/ (tree = "orphans" /\ v = "tree") THEN "same" ELSE "different"}
    \cup (IF "probe" \in Faults THEN {"unknown"} ELSE {})

\* The identity, with anchors v deciding when the leader is unknown.
Known(i, v) == IF i = "unknown" /\ v # "none" THEN AnchorAnswers(v) ELSE {i}
VerifiedAnswers(v) == UNION {Known(i, v) : i \in IdentityAnswers}

\* captureTreeVerification: only while the leader is proven to be ours.
CaptureAnswers ==
  IF tree \in LeaderAlive
  THEN {"leader", "tree"} \cup (IF "probe" \in Faults THEN {"none"} ELSE {})
  ELSE {"none"}

\* SIGTERM ends the leader, unless it is stopped; descendants may ignore it.
\* SIGKILL ends all of them, or has not done so yet.
AfterTerm == {"empty", tree} \cup (IF tree \in {"command", "leader"} THEN {"orphans"} ELSE {})
AfterKill == {"empty", tree}

\* Mutant: signals the number without looking at whose it is.
SignalUnverified(v, after) == {<<"sent", t>> : t \in after}

\* signalVerifiedProcessTree: <<result, tree afterwards>>.
SignalOutcomes(v, after) ==
  UNION {IF i = "same"
         THEN {<<"sent", t>> : t \in after} \cup
              (IF "probe" \in Faults THEN {<<"failed", tree>>} ELSE {})
         ELSE {<<i, tree>>} : i \in VerifiedAnswers(v)}

-----------------------------------------------------------------------------
(***************************************************************************)
(* terminal_start.                                                         *)
(***************************************************************************)
StartCreate ==
  /\ start = "ready" /\ StarterMayRun /\ ~detached[Starter]
  /\ rec.status = "absent"
  /\ rec' = Initial
  /\ seen' = [seen EXCEPT ![Starter] = Initial]
  /\ indexed' = [indexed EXCEPT ![Starter] = TRUE]
  /\ start' = "spawn"
  /\ UNCHANGED <<tree, launched, exitFile, armed, anchor, detached, replaced, child, slot, stops>>

StartSpawn ==
  /\ start = "spawn"
  /\ \/ tree' = "gate" /\ child' = TRUE /\ start' = "identify"
     \/ UNCHANGED <<tree, child>> /\ start' = "failLaunch"
  /\ UNCHANGED <<disk, local, indexed, detached, replaced, slot, stops>>

\* captureStartTime of the fresh child.
StartIdentify ==
  /\ start = "identify"
  /\ start' \in IF tree \notin LeaderAlive THEN {"freshFail"}
                ELSE {"persist"} \cup (IF "probe" \in Faults THEN {"freshFail"} ELSE {})
  /\ UNCHANGED <<disk, tree, local, life, slot, stops>>

StartPersist ==
  /\ start = "persist"
  /\ \/ /\ Mutate(Starter, ToRunning(rec))
        /\ start' = IF rec.status = "starting" THEN "release" ELSE "freshEnd"
     \/ /\ "lock" \in Faults /\ start' = "freshEnd"
        /\ UNCHANGED <<rec, seen, launched, armed>>
  /\ UNCHANGED <<tree, exitFile, anchor, life, slot, stops>>

\* terminateFreshProcessTree: TERM to the exact group that the spawn returned, in
\* the turn in which its identity could not be kept.
StartFreshTerm ==
  /\ start \in {"freshFail", "freshEnd"}
  /\ \/ tree' \in AfterTerm /\ start' = IF start = "freshFail" THEN "killFail" ELSE "killEnd"
     \/ "probe" \in Faults /\ tree' = tree /\ start' = "ended"
  /\ UNCHANGED <<disk, local, life, slot, stops>>

\* The grace is over: KILL to whatever has the number, unless nothing has.
StartFreshKill ==
  /\ start \in {"killFail", "killEnd"} /\ StarterMayRun
  /\ tree' \in AfterKill
  /\ start' = IF start = "killFail" /\ tree' = "empty" THEN "failLaunch" ELSE "ended"
  /\ UNCHANGED <<disk, local, life, slot, stops>>

\* Release the launch gate; an exclusive create fails if a recovering manager
\* already released it.
StartRelease ==
  /\ start = "release"
  /\ \E v \in CaptureAnswers : anchor' = [anchor EXCEPT ![Starter] = v]
  /\ IF launched
     THEN start' = "unlaunch" /\ UNCHANGED <<launched, armed>>
     ELSE start' = "ended" /\ launched' = TRUE /\ armed' = Arm(Starter)
  /\ UNCHANGED <<rec, tree, exitFile, seen, life, slot, stops>>

\* terminateProcessTree: verified TERM, then KILL.
StartUnlaunch ==
  /\ start = "unlaunch" /\ StarterMayRun
  /\ \/ tree \in Alive /\ tree' = "empty" /\ start' = "failLaunch"
     \/ tree \in {"command", "leader"} /\ tree' = "orphans" /\ UNCHANGED start
     \/ tree' = tree /\ start' = "ended"
  /\ UNCHANGED <<disk, local, life, slot, stops>>

StartFailLaunch ==
  /\ start = "failLaunch"
  /\ Mutate(Starter, SettleFailedLaunch(rec))
  /\ start' = "ended"
  /\ UNCHANGED <<tree, exitFile, anchor, life, slot, stops>>

Start ==
  \/ StartCreate \/ StartSpawn \/ StartIdentify \/ StartPersist
  \/ StartFreshTerm \/ StartFreshKill \/ StartRelease \/ StartUnlaunch \/ StartFailLaunch

-----------------------------------------------------------------------------
(***************************************************************************)
(* The index scan and recover().                                           *)
(***************************************************************************)
\* Mutants: releases the gate of a starting task; forgets to poll the task.
RecoverLaunches(m) ==
  /\ seen' = [seen EXCEPT ![m] = rec]
  /\ launched' = TRUE
  /\ armed' = IF IsSettled(rec) THEN ClearPoll(m) ELSE Arm(m)
RecoverUnarmed(m) ==
  /\ seen' = [seen EXCEPT ![m] = rec]
  /\ launched' = (launched \/ rec.status = "running")
  /\ UNCHANGED armed

Recover(m) ==
  /\ seen' = [seen EXCEPT ![m] = rec]
  /\ launched' = (launched \/ rec.status = "running")
  /\ armed' = IF IsSettled(rec) THEN ClearPoll(m) ELSE Arm(m)

\* initializeIndex: the deferred scan of a new manager.
InitScan(m) ==
  /\ ~indexed[m] /\ ~detached[m] /\ ManagerQuiet(m)
  /\ indexed' = [indexed EXCEPT ![m] = TRUE]
  /\ IF rec.status = "absent" THEN UNCHANGED <<launched, seen, armed>> ELSE Recover(m)
  /\ UNCHANGED <<rec, tree, exitFile, anchor, detached, replaced, child, start, slot, stops>>

\* refreshSnapshotsFromStore: recovery is gated on a relevant difference.
Refresh(m) ==
  /\ indexed[m] /\ ~detached[m] /\ ManagerQuiet(m)
  /\ rec.status # "absent"
  /\ seen[m] # rec
  /\ Recover(m)
  /\ UNCHANGED <<rec, tree, exitFile, anchor, life, start, slot, stops>>

-----------------------------------------------------------------------------
(***************************************************************************)
(* The supervisor's poll: reconcile().                                     *)
(***************************************************************************)
Reconcile(w) ==
  LET m == Mgr(w)
      running == [IdleSlot EXCEPT !.exit = exitFile]
  IN  /\ seen' = [seen EXCEPT ![m] = rec]
      /\ armed' = IF IsSettled(rec) THEN ClearPoll(m) ELSE armed
      /\ \/ IsSettled(rec) /\ UNCHANGED slot
         \/ rec.status = "starting" /\ UNCHANGED slot          \* within the grace
         \/ /\ rec.status = "starting" /\ "lease" \in Faults         \* grace over
            /\ Enter(w, [IdleSlot EXCEPT !.pc = "lost", !.exit = "null", !.suppress = TRUE])
         \/ rec.status = "stopping" /\ Goto(w, "recover")
         \/ /\ rec.status = "running"
            /\ Enter(w, [running EXCEPT !.pc = IF exitFile # "unset" THEN "natural" ELSE "probe"])
      /\ UNCHANGED <<disk, tree, anchor, indexed, detached, replaced, start, stops>>

PollStart(w) ==
  /\ w[2] = "poll" /\ slot[w].pc = "idle" /\ MayRun(w)
  /\ armed[Mgr(w)] /\ ~detached[Mgr(w)]
  /\ Reconcile(w)
  /\ UNCHANGED child

\* The close event of the child reconciles even a task that stop() unarmed; it
\* is dropped while a reconcile is in flight.
ChildClosed ==
  LET w == <<Starter, "poll">> IN
  /\ child /\ tree \notin LeaderAlive /\ ManagerQuiet(Starter)
  /\ child' = FALSE
  /\ IF slot[w].pc = "idle" /\ ~detached[Starter] THEN Reconcile(w)
     ELSE UNCHANGED <<disk, tree, local, indexed, detached, replaced, start, slot, stops>>

\* Mutant: takes an unanswered probe for a vanished leader.
ProbeUnknownIsLost(w) ==
  /\ slot[w].pc = "probe" /\ MayRun(w)
  /\ IF "none" \in CaptureAnswers
     THEN Enter(w, [IdleSlot EXCEPT !.pc = "lost", !.exit = "null"])
     ELSE Done(w)
  /\ UNCHANGED <<disk, tree, local, life, start, stops>>

\* No exit code yet: refresh the anchors, or notice that the leader is gone.
Probe(w) ==
  LET m == Mgr(w) IN
  /\ slot[w].pc = "probe" /\ MayRun(w)
  /\ \/ \E v \in CaptureAnswers \ {"none"} :
          /\ anchor' = [anchor EXCEPT ![m] = v]
          /\ IF v # seen[m].anchors THEN Mutate(m, RunningAnchors(rec, v))
             ELSE UNCHANGED <<rec, seen, launched, armed>>
          /\ Done(w)
     \/ /\ "none" \in CaptureAnswers
        /\ \E i \in IdentityAnswers :
             IF i = "different" /\ rec.status = "running"
             THEN Enter(w, [IdleSlot EXCEPT !.pc = "lost", !.exit = "null"])
             ELSE Done(w)
        /\ UNCHANGED <<rec, seen, launched, armed, anchor>>
  /\ UNCHANGED <<tree, exitFile, life, start, stops>>

\* finishNaturalCompletion up to its signal.
Natural(w) ==
  LET m == Mgr(w)
      retained == IF rec.anchors # "none" THEN rec.anchors ELSE anchor[m]
  IN
  /\ slot[w].pc = "natural" /\ MayRun(w)
  /\ \/ /\ rec.status # "running" /\ Done(w)
        /\ UNCHANGED <<disk, seen, armed>>
     \/ /\ rec.status = "running" /\ TreeEmpty /\ Goto(w, "settle")
        /\ UNCHANGED <<disk, seen, armed>>
     \/ /\ rec.status = "running" /\ ~TreeEmpty
        /\ \E i \in IdentityAnswers, c \in CaptureAnswers : \E known \in Known(i, retained) :
             LET v == IF i = "same" /\ c # "none" THEN c ELSE retained
             IN  \/ /\ known = "different" /\ Goto(w, "lost")
                    /\ UNCHANGED <<disk, seen, armed>>
                 \/ /\ known = "unknown" \/ (known = "same" /\ v = "none")
                    /\ Done(w) /\ UNCHANGED <<disk, seen, armed>>
                 \/ /\ known = "same" /\ v # "none"
                    /\ IF v # rec.anchors THEN Mutate(m, RunningAnchors(rec, v))
                       ELSE UNCHANGED <<rec, seen, launched, armed>>
                    /\ Enter(w, [slot[w] EXCEPT !.pc = "killNat", !.anchors = v])
                    /\ UNCHANGED exitFile
  /\ UNCHANGED <<tree, anchor, life, start, stops>>

\* One verified signal; the continuation then awaits at pc.
SignalStep(w, from, after, await) ==
  /\ slot[w].pc = from /\ MayRun(w)
  /\ \E o \in SignalOutcomes(slot[w].anchors, after) :
       /\ tree' = o[2]
       /\ Enter(w, [slot[w] EXCEPT !.pc = await, !.sig = o[1]])
  /\ UNCHANGED <<disk, local, life, start, stops>>

KillNat(w) == SignalStep(w, "killNat", AfterKill, "waitNat")

\* Mutant: settles once the signal is out, without waiting for the group.
WaitNatEager(w) ==
  /\ slot[w].pc = "waitNat" /\ MayRun(w)
  /\ IF slot[w].sig = "sent" THEN Goto(w, "settle") ELSE Done(w)
  /\ UNCHANGED <<disk, tree, local, life, start, stops>>

WaitNat(w) ==
  /\ slot[w].pc = "waitNat" /\ MayRun(w)
  /\ IF TreeEmpty /\ (\/ slot[w].sig = "sent" /\ rec.status = "running"
                     \/ slot[w].sig = "different")
     THEN Goto(w, "settle") ELSE Done(w)
  /\ UNCHANGED <<disk, tree, local, life, start, stops>>

SettleNat(w) ==
  /\ slot[w].pc = "settle" /\ MayRun(w)
  /\ Mutate(Mgr(w), SettleNatural(rec, slot[w].exit))
  /\ IF slot[w].andThen = "nothing" THEN Done(w) ELSE Goto(w, "observe")
  /\ UNCHANGED <<tree, exitFile, anchor, life, start, stops>>

Lost(w) ==
  /\ slot[w].pc = "lost" /\ MayRun(w)
  /\ Mutate(Mgr(w), SettleLost(rec, slot[w].exit, slot[w].suppress))
  /\ IF slot[w].andThen = "nothing" THEN Done(w) ELSE Goto(w, "observe")
  /\ UNCHANGED <<tree, exitFile, anchor, life, start, stops>>

ObserveSettled(w) ==
  /\ slot[w].pc = "observe" /\ MayRun(w)
  /\ Mutate(Mgr(w), Observe(rec, slot[w].andThen = "consume"))
  /\ Done(w)
  /\ UNCHANGED <<tree, exitFile, anchor, life, start, stops>>

\* recoverStopping up to its signal.
RecoverStopping(w) ==
  LET m == Mgr(w) IN
  /\ slot[w].pc = "recover" /\ MayRun(w)
  /\ \/ /\ TreeEmpty /\ Goto(w, "disposed")
        /\ UNCHANGED <<disk, seen, armed>>
     \/ /\ ~TreeEmpty
        /\ \E i \in VerifiedAnswers(rec.anchors) :
             \/ /\ i = "different"
                /\ Enter(w, [IdleSlot EXCEPT !.pc = "lost", !.exit = "null"])
                /\ UNCHANGED <<disk, seen, armed>>
             \/ /\ i = "unknown" /\ Done(w)
                /\ UNCHANGED <<disk, seen, armed>>
             \/ /\ i = "same" /\ rec.anchors # "none"
                /\ Enter(w, [IdleSlot EXCEPT !.pc = "term", !.anchors = rec.anchors])
                /\ UNCHANGED <<disk, seen, armed>>
             \/ /\ i = "same" /\ rec.anchors = "none"
                /\ \E v \in CaptureAnswers :
                     IF v = "none" THEN Done(w) /\ UNCHANGED <<disk, seen, armed>>
                     ELSE /\ Mutate(m, StoppingAnchors(rec, v))
                          /\ Enter(w, [IdleSlot EXCEPT !.pc = "term", !.anchors = rec'.anchors])
                          /\ UNCHANGED exitFile
  /\ UNCHANGED <<tree, anchor, life, start, stops>>

Poll(w) ==
  \/ PollStart(w) \/ Probe(w) \/ Natural(w) \/ KillNat(w) \/ WaitNat(w)
  \/ SettleNat(w) \/ Lost(w) \/ RecoverStopping(w)

-----------------------------------------------------------------------------
(***************************************************************************)
(* finishStop: TERM, grace, KILL, grace, disposition.  Shared by           *)
(* terminal_stop (which restores "running" if TERM could not be sent) and  *)
(* by the recovery of a persisted "stopping" record (which does not).      *)
(***************************************************************************)
Term(w) == SignalStep(w, "term", AfterTerm, "waitTerm")

WaitTerm(w) ==
  /\ slot[w].pc = "waitTerm" /\ MayRun(w)
  /\ IF slot[w].sig # "sent" THEN Goto(w, "signalFailed")
     ELSE IF TreeEmpty THEN Goto(w, "disposed")
     ELSE Enter(w, [slot[w] EXCEPT !.pc = "kill", !.restore = FALSE, !.andThen = "nothing"])
  /\ UNCHANGED <<disk, tree, local, life, start, stops>>

Kill(w) == SignalStep(w, "kill", AfterKill, "waitKill")

WaitKill(w) ==
  /\ slot[w].pc = "waitKill" /\ MayRun(w)
  /\ Goto(w, IF slot[w].sig # "sent" THEN "signalFailed"
             ELSE IF TreeEmpty THEN "disposed" ELSE "failed")
  /\ UNCHANGED <<disk, tree, local, life, start, stops>>

\* handleStopSignalFailure.
SignalFailed(w) ==
  /\ slot[w].pc = "signalFailed" /\ MayRun(w)
  /\ IF TreeEmpty THEN Goto(w, "disposed")
     ELSE IF slot[w].sig = "different"
     THEN Enter(w, [slot[w] EXCEPT !.pc = "lost", !.exit = "null"])
     ELSE Goto(w, "failed")
  /\ UNCHANGED <<disk, tree, local, life, start, stops>>

\* failedStop: the poll takes over again.
StopFailed(w) ==
  LET m == Mgr(w)
      r == IF slot[w].restore THEN RestoreRunning(rec) ELSE rec
  IN
  /\ slot[w].pc = "failed" /\ MayRun(w)
  /\ IF slot[w].restore THEN MutateRecord(m, r) ELSE UNCHANGED <<rec, seen, launched>>
  /\ armed' = IF IsSettled(r) THEN (IF slot[w].restore THEN ClearPoll(m) ELSE armed) ELSE Arm(m)
  /\ Done(w)
  /\ UNCHANGED <<tree, exitFile, anchor, life, start, stops>>

\* Mutant: does not look for an exit code again.
DisposedIgnoresExit(w) ==
  /\ slot[w].pc = "disposed" /\ MayRun(w)
  /\ Mutate(Mgr(w), SettleCancelled(rec)) /\ Done(w)
  /\ UNCHANGED <<tree, exitFile, anchor, life, start, stops>>

\* settleDisposedStop: the group is empty; an exit code makes it natural.
Disposed(w) ==
  /\ slot[w].pc = "disposed" /\ MayRun(w)
  /\ IF exitFile # "unset"
     THEN /\ Enter(w, [slot[w] EXCEPT !.pc = "settle", !.exit = exitFile, !.andThen = "observe"])
          /\ UNCHANGED <<rec, seen, launched, armed>>
     ELSE Mutate(Mgr(w), SettleCancelled(rec)) /\ Done(w)
  /\ UNCHANGED <<tree, exitFile, anchor, life, start, stops>>

Finish(w) ==
  \/ Term(w) \/ WaitTerm(w) \/ Kill(w) \/ WaitKill(w) \/ SignalFailed(w)
  \/ StopFailed(w) \/ Disposed(w) \/ ObserveSettled(w)

-----------------------------------------------------------------------------
(***************************************************************************)
(* terminal_stop of one terminal.  It decides on the retained snapshot.    *)
(***************************************************************************)
StopCall(w) ==
  LET m == Mgr(w)
      current == seen[m]
  IN
  /\ w[2] = "stop" /\ slot[w].pc = "idle" /\ MayRun(w)
  /\ ~detached[m] /\ current.status # "absent" /\ stops < MaxStops
  /\ stops' = stops + 1
  /\ armed' = IF IsSettled(current) THEN armed ELSE Arm(m)
  /\ IF IsSettled(current) THEN Goto(w, "observe")
     ELSE IF ~current.identity THEN UNCHANGED slot
     ELSE Enter(w, [IdleSlot EXCEPT !.pc = "stopProbe", !.exit = exitFile])
  /\ UNCHANGED <<disk, tree, seen, anchor, life, start>>

\* The exit code was read in the step before; now the group is probed.
StopProbe(w) ==
  LET m == Mgr(w)
      current == seen[m]
      exited == slot[w].exit # "unset"
      retained == IF current.anchors # "none" THEN current.anchors ELSE anchor[m]
      loses(next) == [slot[w] EXCEPT !.pc = "lost", !.exit = "null", !.andThen = next]
  IN
  /\ slot[w].pc = "stopProbe" /\ MayRun(w)
  /\ \/ /\ TreeEmpty
        /\ Enter(w, IF exited THEN [slot[w] EXCEPT !.pc = "settle", !.andThen = "observe"]
                    ELSE loses("consume"))
        /\ UNCHANGED <<rec, seen, launched, armed>>
     \/ /\ ~TreeEmpty
        /\ \E i \in IdentityAnswers, c \in CaptureAnswers : \E known \in Known(i, retained) :
             LET byAnchors == i = "unknown" /\ known = "same"
                 fallback == IF byAnchors THEN retained ELSE "none"
                 v == IF exited
                      THEN IF c # "none" THEN c
                           ELSE IF byAnchors THEN retained ELSE current.anchors
                      ELSE IF current.status = "stopping"
                      THEN IF current.anchors # "none" THEN current.anchors
                           ELSE IF c # "none" THEN c ELSE retained
                      ELSE IF c # "none" THEN c ELSE fallback
                 r == IF exited THEN ActiveAnchors(rec, v) ELSE ToStopping(rec, v)
             IN
             \/ /\ known = "different" /\ Enter(w, loses("observe"))
                /\ UNCHANGED <<rec, seen, launched, armed>>
             \/ /\ known = "unknown" \/ (known = "same" /\ v = "none")
                /\ Done(w)
                /\ UNCHANGED <<rec, seen, launched, armed>>
             \/ /\ known = "same" /\ v # "none"
                /\ IF exited /\ v = current.anchors
                   THEN UNCHANGED <<rec, seen, launched>>
                   ELSE MutateRecord(m, r)
                /\ armed' = ClearPoll(m)
                /\ Enter(w, IF IsSettled(seen'[m]) THEN [slot[w] EXCEPT !.pc = "observe"]
                            ELSE IF exited
                            THEN [slot[w] EXCEPT !.pc = "killStop", !.anchors = v,
                                                 !.andThen = "observe"]
                            ELSE [slot[w] EXCEPT !.pc = "term", !.anchors = v,
                                                 !.restore = TRUE, !.andThen = "observe"])
  /\ UNCHANGED <<tree, exitFile, anchor, life, start, stops>>

KillStop(w) == SignalStep(w, "killStop", AfterKill, "waitStop")

\* finishNaturalStop.
WaitStop(w) ==
  /\ slot[w].pc = "waitStop" /\ MayRun(w)
  /\ Goto(w, IF TreeEmpty THEN "settle" ELSE "signalFailed")
  /\ UNCHANGED <<disk, tree, local, life, start, stops>>

Stop(w) == StopCall(w) \/ StopProbe(w) \/ KillStop(w) \/ WaitStop(w)

\* The store's lock stays busy: the mutation throws, and with it the whole
\* continuation.  A stop that had taken the task off the poll leaves it off.
MutatingPc == {"probe", "natural", "settle", "lost", "observe", "recover",
               "failed", "disposed", "stopProbe"}
LockTimesOut(w) ==
  /\ "lock" \in Faults /\ slot[w].pc \in MutatingPc /\ MayRun(w)
  /\ Done(w)
  /\ UNCHANGED <<disk, tree, local, life, start, stops>>

-----------------------------------------------------------------------------
(***************************************************************************)
(* Crashes, session replacement and the process group's own life.          *)
(***************************************************************************)
\* The process of m dies; a fresh manager with no memory takes its place.
Crash(m) ==
  /\ replaced < MaxReplaced
  /\ replaced' = replaced + 1
  /\ seen' = [seen EXCEPT ![m] = NoRecord]
  /\ armed' = ClearPoll(m)
  /\ anchor' = [anchor EXCEPT ![m] = "none"]
  /\ indexed' = [indexed EXCEPT ![m] = FALSE]
  /\ detached' = [detached EXCEPT ![m] = FALSE]
  /\ slot' = [w \in Worker |-> IF Mgr(w) = m THEN IdleSlot ELSE slot[w]]
  /\ start' = IF m = Starter /\ start # "ready" THEN "ended" ELSE start
  /\ child' = (child /\ m # Starter)
  /\ UNCHANGED <<disk, tree, stops>>

\* detach(): m's session is replaced by the session of a manager that has yet
\* to scan; what m already started keeps running.
Detach(m) ==
  /\ replaced < MaxReplaced /\ ~detached[m] /\ ManagerQuiet(m)
  /\ \E n \in Manager \ {m} : ~indexed[n] /\ ~detached[n]
  /\ replaced' = replaced + 1
  /\ detached' = [detached EXCEPT ![m] = TRUE]
  /\ armed' = ClearPoll(m)
  /\ UNCHANGED <<disk, tree, seen, anchor, indexed, start, child, slot, stops>>

GateOpens ==
  /\ tree = "gate" /\ launched
  /\ tree' = "command"
  /\ UNCHANGED <<disk, local, life, start, slot, stops>>

\* The wrapper writes 125 and is about to exit.
GateTimesOut ==
  /\ tree = "gate" /\ ~launched
  /\ tree' = "leader" /\ exitFile' = "nonzero"
  /\ UNCHANGED <<rec, launched, local, life, start, slot, stops>>

CommandExits ==
  /\ tree = "command"
  /\ tree' = "leader" /\ exitFile' \in {"zero", "nonzero"}
  /\ UNCHANGED <<rec, launched, local, life, start, slot, stops>>

\* terminal_start holds the child it spawned until its first await.
Unreaped == StartSync \ {"failLaunch"}

\* Something outside kills members of the group, or orphans end by themselves.
\* A dead wrapper is a member until its parent reaps it.
MembersDie ==
  /\ tree \in Alive /\ start \notin Unreaped
  /\ tree' \in {"empty"} \cup (IF tree \in {"command", "leader"} THEN {"orphans"} ELSE {})
  /\ UNCHANGED <<disk, local, life, start, slot, stops>>

\* The number of an empty group is given to an unrelated process.
NumberReused ==
  /\ "reuse" \in Faults /\ tree = "empty" /\ start \notin Unreaped
  /\ tree' = "reused"
  /\ UNCHANGED <<disk, local, life, start, slot, stops>>

World == GateOpens \/ GateTimesOut \/ CommandExits \/ MembersDie \/ NumberReused

Next ==
  \/ Start
  \/ \E m \in Manager : InitScan(m) \/ Refresh(m) \/ Crash(m) \/ Detach(m)
  \/ \E w \in Worker : Poll(w) \/ Finish(w) \/ Stop(w) \/ LockTimesOut(w)
  \/ ChildClosed
  \/ World

Continue(w) == Poll(w) \/ Finish(w) \/ (Stop(w) /\ slot[w].pc # "idle")

\* A manager's continuations are run by its event loop and its timers; the
\* supervisor's interval keeps polling; a new manager's scan is scheduled at
\* construction; and a repeated SIGKILL ends the group sooner or later.
Fairness ==
  /\ WF_vars(Start /\ start # "ready")
  /\ \A m \in Manager : WF_vars(InitScan(m))
  /\ \A w \in Worker : WF_vars(Continue(w))
  /\ SF_vars(\E w \in Worker : (KillNat(w) \/ Kill(w) \/ KillStop(w)) /\ tree' = "empty")

Spec == Init /\ [][Next]_vars
FairSpec == Spec /\ Fairness

-----------------------------------------------------------------------------
(***************************************************************************)
(* Properties.                                                             *)
(***************************************************************************)
Outcome == {"completed", "failed", "cancelled"}

\* Every record a manager writes is one the store's parser accepts: no
\* interleaving of the closures can quarantine its own terminal.
RecordParses == Parses(rec)

\* What makes RecordParses inductive: a continuation that is about to settle
\* naturally holds the code the command wrote, one that is about to record lost
\* holds a code or null, and a stop is under way only on an identified task.
SlotFits(s, r) ==
  /\ s.pc \in {"natural", "killNat", "waitNat", "settle", "killStop", "waitStop"}
       => s.exit \in {"zero", "nonzero"}
  /\ s.pc = "lost" => s.exit # "unset"
  /\ s.pc = "stopProbe" => s.exit # "null" /\ r.identity

LifecycleInv ==
  /\ TypeOK
  /\ WellFormed(rec)
  /\ \A m \in Manager : seen[m].identity => rec.identity
  /\ \A w \in Worker : SlotFits(slot[w], rec)

\* What makes CommandIsIdentified inductive: a gate is released, or about to be,
\* only for an identified task.
LaunchInv ==
  launched \/ tree = "command" \/ start = "release" => rec.identity

\* What makes DisposedIsEmpty inductive: the process group is spawned once, by
\* a terminal_start whose record names no outcome yet, its number is not given
\* away before the wrapper is reaped, and every continuation about to record an
\* outcome has seen the group empty.
DisposalInv ==
  /\ rec.identity => tree # "none"
  /\ start \in {"ready", "spawn"} => tree = "none" /\ rec.status \notin Outcome
  /\ start \notin {"ready", "spawn", "failLaunch", "ended"} => tree # "none"
  /\ start \in Unreaped => tree # "reused"
  /\ start = "failLaunch" => tree \notin Alive
  /\ \A w \in Worker :
       /\ slot[w].pc \notin {"idle", "lost", "observe"} => tree # "none"
       /\ slot[w].pc \in {"settle", "disposed"} => tree \in {"empty", "reused"}
  /\ rec.status \in Outcome => tree \notin Alive

\* A settlement that names an outcome of the command (completed, failed,
\* cancelled) is recorded only when no member of the terminal's process group
\* is alive: the code proves the group empty before it settles.
DisposedIsEmpty == rec.status \in Outcome => tree \notin Alive

\* Natural evidence wins over a concurrent stop: a terminal is recorded as
\* cancelled only if its command never wrote an exit code, and as completed or
\* failed with a code only with the code it wrote.
EvidenceAgrees ==
  /\ rec.status = "cancelled" => exitFile = "unset"
  /\ rec.status \in {"completed", "failed"} /\ rec.exit # "null" => rec.exit = exitFile

\* The command never runs before its process identity is durable, whoever
\* releases the launch gate.
CommandIsIdentified == tree = "command" => rec.identity

\* The first settlement is final: no later recovery, stop or poll of any
\* manager changes the status, the exit code or the completion, and a
\* suppressed completion never becomes deliverable again.
SettledIsFinal ==
  [][IsSettled(rec) =>
       /\ rec'.status = rec.status /\ rec'.exit = rec.exit /\ rec'.completion
       /\ rec.delivery = "suppressed" => rec'.delivery = "suppressed"]_vars

\* No signal ever reaches the process group that inherited the number, except the
\* KILL that follows the TERM of a wrapper whose identity could not be kept: that
\* one is sent after an await and asks for no identity (process-tree.ts:449-461).
StrangerUnharmed == [][tree = "reused" => tree' = "reused" \/ StartFreshKill]_vars

\* Within the starting grace, a terminal recorded lost is not running its
\* command: an unanswered probe, a crash or a handoff never abandons a live one.
LostIsNotRunning == rec.status = "lost" => tree # "command"

\* Whatever crashes, a stop that was persisted is carried through or undone: the
\* poll of some manager takes over what terminal_stop left.
StopResolves == rec.status = "stopping" ~> rec.status # "stopping"

\* A command that wrote its exit code is settled by whichever manager is left,
\* across a crash or a session handoff, unless only unanchored orphans remain.
ExitSettles ==
  (exitFile # "unset" /\ tree \in {"leader", "empty"}) ~> (IsSettled(rec) \/ tree = "orphans")

=============================================================================
