----------------------------- MODULE SubagentSession -----------------------------
(***************************************************************************)
(* One SubagentManager in a Pi session: the subagent tools (tools.ts) that *)
(* the agent calls during its turn, the deferred delivery of results       *)
(* (index.ts, delivery.ts) that wakes it when it is idle, and the end of   *)
(* the session, after which Pi may bind the same manager again.            *)
(***************************************************************************)
EXTENDS SubagentManager

CONSTANTS
  MaxSessions   \* bounds the sessions after the first

ASSUME SessionsAssumption == MaxSessions \in Nat

VARIABLES
  call,      \* the tool call or command about each task that has not returned
  busy,      \* the agent is in a turn: isIdle() is false
  session,   \* "on", "off" between two sessions, "ended" after a quit
  sessions,  \* how many followed the first
  result,    \* what index.ts did with the end of each task
  told,      \* tasks whose end a tool call reported
  void,      \* tasks of a session that is over
  aborted    \* tasks that had settled when the wait for them was aborted

sessionVars == <<busy, session, sessions, void, aborted>>
vars == <<mgr, call, result, told, sessionVars>>

TypeOK ==
  /\ ManagerTypeOK
  /\ call \in [Task -> {"none", "spawn", "command", "wait", "cancel", "close"}]
  /\ busy \in BOOLEAN /\ session \in {"on", "off", "ended"} /\ sessions \in 0..MaxSessions
  /\ result \in [Task -> {"unseen", "pending", "dropped", "sent"}]
  /\ told \cup void \cup aborted \subseteq Task

Init ==
  /\ mgr = NewManager
  /\ call = [t \in Task |-> "none"] /\ told = {}
  /\ busy = FALSE /\ session = "on" /\ sessions = 0
  /\ result = [t \in Task |-> "unseen"]
  /\ void = {} /\ aborted = {}

(***************************************************************************)
(* Delivery.  onManagerChange defers every end it sees for the first time  *)
(* (observedResultKeys), unless a tool call consumed it; what is pending   *)
(* is sent when the agent is idle, or ends its turn.  consumedIds and the  *)
(* consumed set of the delivery act alike and are one set here.            *)
(***************************************************************************)
Flushed(r) ==
  [t \in Task |-> IF r[t] # "pending" THEN r[t]
                  ELSE IF result[t] \in {"sent", "resent"} THEN "resent" ELSE "sent"]

\* Mutant of Deferred: an end that was seen is deferred again.
DeferredAgain(r, m) ==
  [t \in Task |-> IF ~Settled(m, t) \/ r[t] \in {"dropped", "pending"} THEN r[t]
                  ELSE IF t \in m.consumed THEN "dropped" ELSE "pending"]

Deferred(r, m) ==
  [t \in Task |-> IF ~Settled(m, t) \/ r[t] # "unseen" THEN r[t]
                  ELSE IF t \in m.consumed THEN "dropped" ELSE "pending"]

\* onManagerChange, unsubscribed between two sessions.
Changed(r, m) ==
  IF session # "on" THEN r
  ELSE IF busy THEN Deferred(r, m) ELSE Flushed(Deferred(r, m))

\* delivery.consume
Dropped(r, T) == [t \in Task |-> IF t \in T /\ r[t] \in {"unseen", "pending"} THEN "dropped" ELSE r[t]]

(***************************************************************************)
(* A step of the manager: its listeners run, and the spawns it completed   *)
(* return.  The tool reports a child that is not running and consumes it.  *)
(***************************************************************************)
\* back: the calls of spawn() that return; a command reports to the user only.
Reported(back) == {t \in back : call[t] = "spawn" /\ mgr'.snap[t] # "running"}

Notified ==
  LET back == {t \in Task : call[t] \in {"spawn", "command"} /\ mgr'.setup[t] = "none"}
  IN /\ call' = [t \in Task |-> IF t \in back THEN "none" ELSE call[t]]
     /\ told' = told \cup Reported(back)
     /\ result' = Dropped(Changed(result, mgr'), Reported(back))

\* Microtasks: what the last event resolved resumes first, a tool call whose
\* tasks have settled included.
Waited == mgr.waited
WaitIsOver == Waited # {} /\ \A t \in Waited : Settled(mgr, t)
CallIsOver(t) == call[t] \in {"cancel", "close"} /\ Settled(mgr, t)
Quiet == ~Resuming /\ ~WaitIsOver /\ \A t \in Task : ~CallIsOver(t)

Resume == /\ Drain \/ \E t \in Task : Resumes(t)
          /\ Notified /\ UNCHANGED sessionVars

ManagerEvent == /\ Quiet /\ \E t \in Task : Awaited(t) \/ ChildStep(t)
                /\ Notified /\ UNCHANGED sessionVars

(***************************************************************************)
(* The tools.  They run in the agent's turn; one call at a time concerns a *)
(* task, and at most one subagent_wait is open.                            *)
(***************************************************************************)
Known(t) == mgr.snap[t] # "none"
Open(t) == Quiet /\ busy /\ session = "on" /\ Known(t) /\ call[t] = "none" /\ t \notin void

\* Only tasks whose end was not reported yet are waited for, cancelled or closed.
Asked(t) == Open(t) /\ t \notin told /\ result[t] # "sent"

Fresh(t) == Quiet /\ ~Known(t) /\ call[t] = "none" /\ t \notin void

\* A task that is queued is reported at once.
Calls(t, by, f) ==
  /\ session = "on" /\ Fresh(t) /\ ~Refuses(mgr)
  /\ mgr' = Spawned(mgr, t, f)
  /\ call' = [call EXCEPT ![t] = IF Queues(mgr) THEN "none" ELSE by]

Spawn(t) ==
  /\ \/ busy /\ Calls(t, "spawn", t)
     \/ ~busy /\ Calls(t, "command", t)
  /\ UNCHANGED <<result, told, sessionVars>>

\* A task that has not settled, or whose setup runs, continues its session file.
Continues(t) == mgr.snap[t] \in {"queued", "running"} \/ (mgr.setup[t] # "none" /\ ~Settled(mgr, t))

\* Mutant of Free: reply does not look at the other snapshots.
FreeOfReplies(f) == \A t \in Task : ~(mgr.file[t] = f /\ mgr.setup[t] # "none" /\ ~Known(t))

Free(f) == \A t \in Task : ~(mgr.file[t] = f /\ Continues(t))

\* reply: only of a settled headless child whose session file was found.
Reply(o, t) ==
  /\ Open(o) /\ Settled(mgr, o) /\ mgr.child[o] = "gone"
  /\ (o \in Visible => Replies(mgr, o))
  /\ Free(mgr.file[o])
  /\ Calls(t, "spawn", mgr.file[o])
  /\ UNCHANGED <<result, told, sessionVars>>

Wait(T) ==
  /\ T # {} /\ \A t \in T : Asked(t)
  /\ \A t \in Task : call[t] # "wait"
  /\ call' = [t \in Task |-> IF t \in T THEN "wait" ELSE call[t]]
  /\ mgr' = [mgr EXCEPT !.waited = T]
  /\ UNCHANGED <<result, told, sessionVars>>

Unwaited == call' = [t \in Task |-> IF t \in Waited THEN "none" ELSE call[t]]

\* Mutant of WaitReturns: the tool does not consume what it returns.
WaitReturnsOnly ==
  /\ WaitIsOver
  /\ Unwaited /\ mgr' = [Consume(mgr, Waited) EXCEPT !.waited = {}]
  /\ told' = told \cup Waited /\ UNCHANGED <<result, sessionVars>>

WaitReturns ==
  /\ WaitIsOver
  /\ Unwaited /\ mgr' = [Consume(mgr, Waited) EXCEPT !.waited = {}]
  /\ told' = told \cup Waited /\ result' = Dropped(result, Waited)
  /\ UNCHANGED sessionVars

WaitAborts ==
  /\ Quiet /\ Waited # {}
  /\ Unwaited /\ mgr' = [mgr EXCEPT !.waited = {}]
  /\ aborted' = aborted \cup {t \in Waited : Settled(mgr, t)}
  /\ UNCHANGED <<result, told, busy, session, sessions, void>>

\* What cancel finds settled, or settling, it reports at once.
Cancel(t) ==
  /\ Asked(t) /\ mgr' = CancelTask(mgr, t)
  /\ LET r == Changed(result, mgr')
         over == Settled(mgr, t) \/ t \in mgr.settling
     IN IF over THEN /\ result' = Dropped(r, {t}) /\ told' = told \cup {t} /\ UNCHANGED call
        ELSE result' = r /\ call' = [call EXCEPT ![t] = "cancel"] /\ UNCHANGED told
  /\ UNCHANGED sessionVars

\* CANCEL_WAIT_MS: the child may outlive its settlement.
CancelTimer(t) ==
  /\ Quiet /\ call[t] = "cancel" /\ t \notin mgr.settling
  /\ mgr' = StartSettle(mgr, t, "interrupted")
  /\ UNCHANGED <<result, call, told, sessionVars>>

CancelReturns(t) ==
  /\ call[t] = "cancel" /\ CallIsOver(t)
  /\ call' = [call EXCEPT ![t] = "none"] /\ told' = told \cup {t}
  /\ result' = Dropped(result, {t}) /\ mgr' = [mgr EXCEPT !.due = TRUE]
  /\ UNCHANGED sessionVars

Close(t) ==
  /\ Asked(t) /\ t \notin mgr.settling /\ (mgr.snap[t] = "running" => t \in Visible /\ ~Replies(mgr, t))
  /\ mgr' = CloseTask(mgr, t) /\ result' = Changed(result, mgr')
  /\ call' = [call EXCEPT ![t] = "close"]
  /\ UNCHANGED <<told, sessionVars>>

CloseReturns(t) ==
  /\ call[t] = "close" /\ CallIsOver(t) /\ call' = [call EXCEPT ![t] = "none"]
  /\ told' = told \cup {t} /\ result' = Dropped(result, {t})
  /\ mgr' = [Consume(mgr, {t}) EXCEPT !.due = TRUE]
  /\ UNCHANGED sessionVars

\* CLOSE_WAIT_MS passed: the result is still to be delivered.
CloseTimer(t) ==
  /\ Quiet /\ call[t] = "close" /\ call' = [call EXCEPT ![t] = "none"]
  /\ mgr' = [mgr EXCEPT !.due = TRUE]
  /\ UNCHANGED <<told, result, sessionVars>>

Tool ==
  \/ WaitReturns \/ WaitAborts
  \/ \E t \in Task : Spawn(t) \/ Cancel(t) \/ CancelTimer(t) \/ CancelReturns(t)
                     \/ Close(t) \/ CloseReturns(t) \/ CloseTimer(t)
  \/ \E o, t \in Task : Reply(o, t)
  \/ \E T \in SUBSET Task : Wait(T)

(***************************************************************************)
(* Turns and sessions                                                      *)
(***************************************************************************)
AgentStart ==
  /\ Quiet /\ session = "on" /\ ~busy /\ busy' = TRUE
  /\ UNCHANGED <<mgr, call, told, result, session, sessions, void, aborted>>

\* Mutant of AgentEnd: agent_end does not flush.
AgentEndSilent ==
  /\ Quiet /\ session = "on" /\ busy /\ \A t \in Task : call[t] \in {"none", "command"}
  /\ busy' = FALSE
  /\ UNCHANGED <<mgr, call, told, result, session, sessions, void, aborted>>

AgentEnd ==
  /\ Quiet /\ session = "on" /\ busy /\ \A t \in Task : call[t] \in {"none", "command"}
  /\ busy' = FALSE /\ result' = Flushed(result)
  /\ UNCHANGED <<mgr, call, told, session, sessions, void, aborted>>

Begun == {t \in Task : Known(t) \/ mgr.setup[t] # "none"}

\* session_shutdown: another session follows, or Pi quits.
Shutdown(next) ==
  /\ Quiet /\ session = "on" /\ session' = next /\ busy' = FALSE
  /\ next = "off" => sessions < MaxSessions
  /\ mgr' = IF next = "off" THEN Replaced(mgr) ELSE Disposed(mgr)
  /\ result' = [t \in Task |-> IF result[t] = "pending" THEN "dropped" ELSE result[t]]
  /\ void' = void \cup Begun
  /\ UNCHANGED <<call, told, sessions, aborted>>

\* session_start on the same manager: armDelivery.
Rebind ==
  /\ Quiet /\ session = "off" /\ session' = "on" /\ sessions' = sessions + 1
  /\ result' = Dropped(result, {t \in Task : Settled(mgr, t)})
  /\ UNCHANGED <<mgr, call, told, busy, void, aborted>>

Next ==
  \/ Resume \/ ManagerEvent \/ Tool \/ AgentStart \/ AgentEnd \/ Rebind
  \/ \E next \in {"off", "ended"} : Shutdown(next)

Spec == Init /\ [][Next]_vars

(***************************************************************************)
(* Properties                                                              *)
(***************************************************************************)
\* At most SUBAGENT_MAX_RUNNING tasks are set up or run, and at most
\* SUBAGENT_MAX_QUEUED wait, however spawns, drains and failures interleave.  One
\* worktree is created, and one pane provisioned, at a time; whoever waits for the
\* pane's slot waits for a task whose setup still runs.
SlotsBounded ==
  /\ Cardinality(Occupied(mgr)) <= MaxRunning /\ Len(mgr.queue) <= MaxQueued
  /\ Cardinality({t \in Task : mgr.setup[t] = "worktree"}) <= 1
  /\ Cardinality({t \in Task : mgr.child[t] = "starting" /\ mgr.setup[t] = "ready"}) <= 1
  /\ IF mgr.slot = None THEN mgr.waiters = <<>> ELSE mgr.setup[mgr.slot] \in {"pane", "ready"}

\* A message was sent, or will be at the end of the turn.
Delivered(t) == result[t] = "sent" \/ (result[t] = "pending" /\ busy)

Unreported ==
  {t \in Task \ void : Settled(mgr, t) /\ ~Delivered(t) /\ t \notin told /\ call[t] = "none"}

\* The end of a task of this session was reported by a tool or sent as a message,
\* or the call that consumed it is open; only during a turn may it be pending, so
\* an idle agent is woken.  Only a wait that is aborted after one of its tasks
\* settled loses that one's end.
NoResultLost == session = "on" => Unreported \subseteq aborted

\* No two tasks continue one session file at the same time.
OneContinuation ==
  \A t, u \in Task : t # u /\ mgr.file[t] = mgr.file[u] => ~(Continues(t) /\ Continues(u))

\* Work that was accepted is not parked beside a free slot: somebody is about to
\* drain the queue, the settlement whose manifest is collected included.  Once a
\* session replaced another this may fail.
NothingParked ==
  mgr.queue # <<>> /\ sessions = 0 =>
    \/ Full(mgr) \/ mgr.drained # None \/ mgr.due
    \/ \E t \in Task : t \in mgr.settling

\* A session that is over leaves no child to itself: each is gone, being
\* stopped, or closed as soon as its pane exists; or its pane could not be closed.
NothingOrphaned ==
  \A t \in void : mgr.child[t] \notin {"starting", "up"}

\* A result is sent at most once, and never after a tool call reported it.
ReportedOnce ==
  [][\A t \in Task : result'[t] \in {"sent", "resent"} /\ result[t] # result'[t]
       => result'[t] = "sent" /\ t \notin told]_vars

Ending(t) == Settled(mgr, t) \/ t \in mgr.settling

\* The setup of a task that was cancelled or closed meanwhile fails: the worktree
\* is not made, its base not found, or the pane's slot comes too late.
Refused(t) ==
  /\ mgr.setup[t] \in {"worktree", "base", "pane"} /\ mgr'.setup[t] = "none"
  /\ mgr'.outcome[t] = "refused"

\* A task settles once, with the outcome that came first: neither its child's real
\* end after a cancellation timed out, nor a second cancel, nor a setup that finds
\* itself interrupted later changes what was recorded or is being recorded.  Only
\* the failure of a setup after git and the gate writes over it (manager.ts:634).
SettledIsSticky ==
  [][\A t \in Task :
       /\ Settled(mgr, t) => mgr'.snap[t] = mgr.snap[t] /\ t \notin mgr'.settling
       /\ Ending(t) => mgr'.outcome[t] = mgr.outcome[t] \/ Refused(t)]_vars
=============================================================================
