--------------------------- MODULE SessionHydration ---------------------------
(***************************************************************************)
(* How the RPC host takes over a session from its Pi child: at boot, and   *)
(* when a command makes the child open another session (rpc/host.ts,       *)
(* host-actions.ts, runtime.ts).  Whatever the child reports meanwhile is  *)
(* buffered; the host reads state and history until a pass sees no event,  *)
(* shows that, and replays what the answers do not cover.                  *)
(*                                                                         *)
(* The child writes events and answers to one pipe.  The host reads it in  *)
(* chunks, and the continuation of an answer runs only after the rest of   *)
(* its chunk: events behind an answer are seen before its effect.          *)
(*                                                                         *)
(* The n-th event of a session is <<session, n>>; a session's history is   *)
(* the events it had so far.  One session command runs at a time.  When    *)
(* the host gives up on an operation, the child has switched the session   *)
(* or never will, and the host has read what it wrote before.              *)
(***************************************************************************)
EXTENDS Naturals, SequencesExt

CONSTANTS
  Session,      \* Pi sessions
  Nobody,       \* no session is bound
  Passes,       \* passes of one hydration (4 in the code)
  MaxEvents,    \* bound: events of the child
  MaxChanges,   \* bound: session commands
  MaxFailures   \* bound: requests that fail or time out

ASSUME HydrationAssumption ==
  /\ Nobody \notin Session /\ Passes \in Nat \ {0}
  /\ MaxEvents \in Nat /\ MaxChanges \in Nat /\ MaxFailures \in Nat

VARIABLES
  child,     \* the session the child has open
  written,   \* per session: events so far
  pipe,      \* lines the host has not read
  reading,   \* the host is within a chunk
  buffer,    \* RpcSessionEventBuffer
  call,      \* the boot or the session command under way
  retrying,  \* sessionHydrationRetrying
  view,      \* the scheduler's session, the transcript and the chrome state
  runtime,   \* what RpcHostRuntime and the action gate let through
  heard,     \* what the scheduler heard since it was bound
  read,      \* per session: events the host has read, and its past
  base,      \* read, when the last baseline was marked
  counts     \* for the bounds

child_ == <<child, written>>
host_ == <<buffer, call, retrying, view, runtime, heard, base>>
vars == <<child, written, pipe, reading, buffer, call, retrying, view, runtime,
          heard, read, base, counts>>

Event == Session \X (Nat \ {0})
Line == [what : {"event", "ok", "cancelled", "error"}, session : Session, n : Nat]
None == [what |-> "none", session |-> Nobody, n |-> 0]

\* "begin" is beforeSessionChange, which clears the child's queue first.
Asking == {"begin", "operate", "state", "messages"}
Call == [pc : Asking \cup {"idle", "over"}, boot : BOOLEAN, pass : 1..Passes,
         answer : Line \cup {None}]

Idle == [pc |-> "idle", boot |-> FALSE, pass |-> 1, answer |-> None]
Asks(c, pc) == [c EXCEPT !.pc = pc, !.answer = None]

Closed == [active |-> FALSE, events |-> <<>>, replay |-> 0, failure |-> 0]
Begun == [Closed EXCEPT !.active = TRUE]

NoView == [owner |-> Nobody, shown |-> {}, state |-> <<Nobody, 0>>]

\* Sessions may have a past.  The buffer begins before the child starts; its first request is get_state.
Init ==
  /\ child \in Session /\ written \in [Session -> {0, 1}]
  /\ pipe = <<>> /\ reading = FALSE
  /\ buffer = Begun
  /\ call = [Asks(Idle, "state") EXCEPT !.boot = TRUE]
  /\ retrying = FALSE /\ view = NoView
  /\ runtime = [depth |-> 0, blocked |-> FALSE, ready |-> FALSE]
  /\ heard = <<>> /\ read = written /\ base = written
  /\ counts = [events |-> 0, changes |-> 0, failures |-> 0]

(***************************************************************************)
(* The child and the clock.                                                *)
(***************************************************************************)
Counts(k, bound) == counts[k] < bound /\ counts' = [counts EXCEPT ![k] = @ + 1]
Writes(what, s) == pipe' = Append(pipe, [what |-> what, session |-> s, n |-> written'[s]])

Emit ==
  /\ call.pc # "over" /\ Counts("events", MaxEvents)
  /\ written' = [written EXCEPT ![child] = @ + 1]
  /\ Writes("event", child)
  /\ UNCHANGED <<child, reading, read, host_>>

IsAnswer(line) == line.what # "event"
Answered == call.answer # None \/ \E i \in DOMAIN pipe : IsAnswer(pipe[i])
Awaited == call.pc \in Asking /\ ~Answered

\* Only the operation opens another session; new_session opens a fresh one.
Answer ==
  /\ Awaited /\ UNCHANGED <<written, counts>>
  /\ \/ /\ call.pc # "operate" /\ Writes("ok", child) /\ UNCHANGED child
     \/ call.pc = "operate" /\ child' \in Session /\ Writes("ok", child')
     \/ call.pc = "operate" /\ Writes("cancelled", child) /\ UNCHANGED child
  /\ UNCHANGED <<reading, read, host_>>

Refuse ==
  /\ Awaited /\ Counts("failures", MaxFailures)
  /\ UNCHANGED <<child_, reading, read, host_>>
  /\ Writes("error", child)

\* send() gives up; the client ignores an answer that comes after that.
Error == [what |-> "error", session |-> child, n |-> 0]

TimeOut ==
  /\ call.pc \in Asking /\ ~reading /\ call.answer = None
  /\ call.pc = "operate" => pipe # <<>> /\ IsAnswer(Head(pipe))
  /\ Counts("failures", MaxFailures)
  /\ call' = [call EXCEPT !.answer = Error]
  /\ pipe' = RemoveFirstMatch(pipe, IsAnswer)
  /\ UNCHANGED <<child_, reading, buffer, retrying, view, runtime, heard, read, base>>

(***************************************************************************)
(* What the host makes of an event.                                        *)
(***************************************************************************)
\* processAgentEvent for each of the events: transcript, state and scheduler.
Processed(v, events) ==
  [v EXCEPT !.shown = @ \cup ToSet(events),
            !.state = IF events = <<>> THEN @ ELSE Last(events)]

\* capture, or else processAgentEvent.
ReadLine ==
  LET line == Head(pipe)
      event == <<line.session, line.n>>
  IN
  /\ pipe # <<>> /\ call.pc # "over"
  /\ reading \/ call.answer = None
  /\ pipe' = Tail(pipe)
  /\ reading' \in IF pipe' = <<>> THEN {FALSE} ELSE BOOLEAN
  /\ IF IsAnswer(line)
     THEN call' = [call EXCEPT !.answer = line] /\ UNCHANGED <<buffer, view, heard, read>>
     ELSE /\ read' = [read EXCEPT ![line.session] = line.n]
          /\ IF buffer.active
             THEN /\ buffer' = [buffer EXCEPT !.events = Append(@, event)]
                  /\ UNCHANGED <<view, heard>>
             ELSE /\ view' = Processed(view, <<event>>) /\ heard' = Append(heard, event)
                  /\ UNCHANGED buffer
          /\ UNCHANGED call
  /\ UNCHANGED <<child_, retrying, runtime, base, counts>>

\* The buffer's marks, and what finishHydration() and finish() return.
Baseline(b) == [b EXCEPT !.replay = Len(b.events), !.failure = Len(b.events)]
Barrier(b) == [b EXCEPT !.replay = Len(b.events)]

\* Mutants: the events before the baseline are replayed, too; every pass counts as
\* quiet, and marks a barrier.
SupersededAll(b) == SubSeq(b.events, 1, b.replay)
CoveredAlways(b) == Barrier(b)

Superseded(b) == SubSeq(b.events, b.failure + 1, b.replay)
Suffix(b) == SubSeq(b.events, b.replay + 1, Len(b.events))

Noisy(b) == Len(b.events) > b.replay

\* After a pass without events their absence is exact: the barrier moves up.
Covered(b) == IF Noisy(b) THEN b ELSE Barrier(b)

(***************************************************************************)
(* applySessionChange, refreshSessionRuntime and the hydration at boot.    *)
(***************************************************************************)
Open == runtime.ready /\ ~runtime.blocked

\* The user starts a session command: clear_queue goes first.
Change ==
  /\ call.pc = "idle" /\ Open /\ ~reading /\ Counts("changes", MaxChanges)
  /\ call' = Asks(Idle, "begin")
  /\ UNCHANGED <<child_, pipe, reading, read, buffer, retrying, view, runtime, heard, base>>

\* A continuation, or a timer, runs between chunks.
Resumes(pc, what) ==
  /\ call.pc = pc /\ call.answer.what \in what /\ ~reading
  /\ UNCHANGED <<child_, pipe, reading, read, counts>>

Suspended(r) == [r EXCEPT !.depth = @ + 1, !.blocked = TRUE]
Resumed(r) == [r EXCEPT !.depth = IF @ = 0 THEN 0 ELSE @ - 1,
                        !.blocked = IF r.depth > 1 THEN @ ELSE FALSE]

\* beginSessionChange, then the operation; a clear that failed ends the command.
Begin ==
  /\ Resumes("begin", {"ok", "error"})
  /\ UNCHANGED <<view, heard, base>>
  /\ IF call.answer.what = "error"
     THEN call' = Idle /\ UNCHANGED <<buffer, retrying, runtime>>
     ELSE /\ call' = Asks(call, "operate")
          /\ buffer' = Begun /\ retrying' = FALSE /\ runtime' = Suspended(runtime)

\* Mutant of Unswitched: a command that failed has switched nothing.
UnswitchedOrFailed == {"cancelled", "error"}

\* What proves that the session is still the one it was: only a cancellation, since
\* a command may have succeeded although its answer is lost.
Unswitched == {"cancelled"}

\* cancelSessionChange: everything that was held back is for the session still open.
Cancel ==
  /\ Resumes("operate", Unswitched)
  /\ call' = Idle /\ buffer' = Closed /\ retrying' = FALSE
  /\ runtime' = Resumed(runtime)
  /\ view' = Processed(view, buffer.events) /\ heard' = heard \o buffer.events
  /\ UNCHANGED base

\* refreshSessionRuntime after the operation: detach, fail closed, ask for the state.
Refresh ==
  /\ Resumes("operate", {"ok", "error"})
  /\ buffer' = Baseline(buffer) /\ base' = read
  /\ view' = [view EXCEPT !.owner = Nobody, !.shown = {}] /\ heard' = <<>>
  /\ call' = Asks(Idle, "state")
  /\ UNCHANGED <<retrying, runtime>>

\* Mutant of RetryRuntime: the retry begins a replacement of its own.
RetryRuntimeAgain == Suspended(runtime)

\* beginSessionChange is void while the buffer is active.
RetryRuntime == runtime

\* The session-hydration timer: what was detached stays so, and so does the baseline.
Retry ==
  /\ retrying /\ Resumes("idle", {"none"})
  /\ buffer' = Barrier(buffer) /\ runtime' = RetryRuntime
  /\ call' = Asks(Idle, "state")
  /\ UNCHANGED <<retrying, view, heard, base>>

\* get_state: the first pass binds the scheduler and the feed.
StateRead ==
  /\ Resumes("state", {"ok"})
  /\ call' = Asks(call, "messages")
  /\ view' = [view EXCEPT !.owner = IF call.pass = 1 THEN call.answer.session ELSE @,
                          !.state = <<call.answer.session, call.answer.n>>]
  /\ heard' = IF call.pass = 1 THEN <<>> ELSE heard
  /\ UNCHANGED <<buffer, retrying, runtime, base>>

\* Another pass, unless this one was quiet or the last.
Repeats == Noisy(buffer) /\ call.pass < Passes

NextPass ==
  /\ Resumes("messages", {"ok"}) /\ Repeats
  /\ buffer' = Barrier(buffer)
  /\ call' = Asks([call EXCEPT !.pass = @ + 1], "state")
  /\ UNCHANGED <<retrying, view, runtime, heard, base>>

\* The transcript of an answer.
Upto(s, n) == {<<s, i>> : i \in 1..n}

\* The end: show the answers, replay to the scheduler what they supersede, and to
\* everyone the rest.  At boot this opens the action gate.
Commit ==
  LET b == Covered(buffer)
      fetched == [view EXCEPT !.shown = Upto(call.answer.session, call.answer.n)]
  IN
  /\ Resumes("messages", {"ok"}) /\ ~Repeats
  /\ view' = Processed(fetched, Suffix(b))
  /\ heard' = heard \o Superseded(b) \o Suffix(b)
  /\ buffer' = Closed /\ retrying' = FALSE /\ call' = Idle
  /\ runtime' = IF call.boot THEN [runtime EXCEPT !.ready = TRUE] ELSE Resumed(runtime)
  /\ UNCHANGED base

\* A read that fails ends the boot; otherwise everything stays closed for the timer.
Fail ==
  /\ \/ Resumes("state", {"error"})
     \/ Resumes("messages", {"error"})
  /\ call' = IF call.boot THEN [Idle EXCEPT !.pc = "over"] ELSE Idle
  /\ retrying' = ~call.boot
  /\ UNCHANGED <<buffer, view, runtime, heard, base>>

Continue == Begin \/ Cancel \/ Refresh \/ StateRead \/ NextPass \/ Commit \/ Fail

Next == Emit \/ Answer \/ Refuse \/ TimeOut \/ ReadLine \/ Change \/ Continue \/ Retry

Spec == Init /\ [][Next]_vars

\* The child answers, the host reads and continues, its timers fire.
Fairness == WF_vars(Answer) /\ WF_vars(ReadLine) /\ WF_vars(Continue) /\ WF_vars(Retry)

FairSpec == Spec /\ Fairness

(***************************************************************************)
(* Properties.                                                             *)
(***************************************************************************)
TypeOK ==
  /\ child \in Session /\ written \in [Session -> Nat] /\ read \in [Session -> Nat]
  /\ pipe \in Seq(Line) /\ reading \in BOOLEAN /\ call \in Call /\ retrying \in BOOLEAN
  /\ buffer \in [active : BOOLEAN, events : Seq(Event), replay : Nat, failure : Nat]
  /\ view \in [owner : Session \cup {Nobody}, shown : SUBSET Event,
               state : (Session \cup {Nobody}) \X Nat]
  /\ runtime \in [depth : Nat, blocked : BOOLEAN, ready : BOOLEAN]
  /\ heard \in Seq(Event) /\ base \in [Session -> Nat]
  /\ counts \in [events : 0..MaxEvents, changes : 0..MaxChanges, failures : 0..MaxFailures]

Settled == ~buffer.active /\ call.pc # "over"

\* The events of the session since the baseline, as the host has read them.
SinceBaseline(s) == [i \in 1..(read[s] - base[s]) |-> <<s, base[s] + i>>]

\* Whenever no replacement is under way, the screen shows the session the child has
\* open, with every event the host has read of it: none fell between the answers
\* and the replay, wherever the chunks of the pipe end.  And the scheduler heard
\* those since the baseline, in order and each once, whether they were superseded,
\* replayed or passed on.
NoEventLost ==
  Settled => /\ view.owner = child
             /\ view.shown = Upto(child, read[child])
             /\ view.state = <<child, read[child]>>
             /\ heard = SinceBaseline(child)

\* Transcript and scheduler never hold another session than the one bound, and while
\* the user can type or run commands that is the one the child has open, even when
\* an operation failed or its answer was lost.
NothingMixed ==
  /\ \A e \in view.shown \cup ToSet(heard) : e[1] = view.owner
  /\ Open => view.owner = child

\* A replacement ends with input open again, unless the boot failed.
ReplacementEnds == buffer.active ~> (Open \/ call.pc = "over")

===============================================================================
