------------------------------- MODULE RpcClient -------------------------------
(***************************************************************************)
(* SumoRpcClient (sumo-tui/rpc/client.ts): the host's end of the pipe to   *)
(* the Pi child.  It correlates responses with requests, tells the host    *)
(* once when the child dies by itself, and reaps it.                       *)
(*                                                                         *)
(* A child dies (os.status), Node delivers `exit` (os.exitSeen, which is   *)
(* also when exitCode becomes readable) and, when the pipes have drained   *)
(* and no descendant holds them, `close`.  Both may precede the adoption   *)
(* of a pre-spawned child; the client never hears those.                   *)
(***************************************************************************)
EXTENDS Naturals

CONSTANTS
  Request,     \* requests, each sent at most once in a host's life
  Untimed      \* those sent with a null timeout: direct bash

ASSUME RequestAssumption == Untimed \subseteq Request

VARIABLES
  os,       \* the child: how it died, and what Node delivered of it
  client,   \* the client's fields
  piped,    \* responses written by the child and not read yet
  outcome,  \* what the caller of each request saw
  told      \* calls of the exit listener

clientVars == <<os, client, piped, outcome, told>>

ChildStatus == {"none", "0", "1", "100", "unspawned"}
Os == [status : ChildStatus, exitSeen : BOOLEAN, closeSeen : BOOLEAN]
Client == [owned : BOOLEAN, exited : BOOLEAN, notified : BOOLEAN, closed : BOOLEAN,
           stream : BOOLEAN, grace : BOOLEAN, stop : {"no", "reaping", "done"},
           reap : {"off", "term", "kill", "grace"}]
Outcome == {"new", "pending", "answered", "failed"}

ClientTypeOK ==
  /\ os \in Os /\ client \in Client /\ piped \subseteq Request
  /\ outcome \in [Request -> Outcome] /\ told \in Nat
  /\ client.reap # "off" <=> client.stop = "reaping"
  /\ ~client.owned => ~client.stream /\ ~client.grace

NewClient == [owned |-> FALSE, exited |-> FALSE, notified |-> FALSE, closed |-> FALSE,
              stream |-> FALSE, grace |-> FALSE, stop |-> "no", reap |-> "off"]

\* spawn(): a failure to spawn leaves a negative exitCode and an error event.
Spawned == [status |-> "none", exitSeen |-> FALSE, closeSeen |-> FALSE]
Unspawned == [status |-> "unspawned", exitSeen |-> TRUE, closeSeen |-> FALSE]

ClientInit ==
  /\ os \in {Spawned, Unspawned}
  /\ client = NewClient /\ piped = {}
  /\ outcome = [r \in Request |-> "new"] /\ told = 0

alive == ~os.exitSeen   \* exitCode === null && signalCode === null

(***************************************************************************)
(* stop() and its reap, as functions of the client's fields.               *)
(***************************************************************************)
Released(c) == [c EXCEPT !.owned = FALSE, !.stream = FALSE, !.grace = FALSE,
                         !.stop = "done", !.reap = "off"]

\* A failed reap keeps the child and lets stop() be called again.
Kept(c) == [c EXCEPT !.stream = FALSE, !.stop = "no", !.reap = "off"]

\* Mutant of StopChild: a stop does not claim the child's exit as its own.
StopChildUnclaimed(c) ==
  IF c.stop # "no" \/ ~c.owned THEN c
  ELSE IF c.closed THEN Released(c)
  ELSE [c EXCEPT !.exited = TRUE, !.stop = "reaping", !.reap = "term"]

StopChild(c) ==
  IF c.stop # "no" \/ ~c.owned THEN c
  ELSE LET d == [c EXCEPT !.notified = TRUE, !.exited = TRUE]
       IN IF c.closed THEN Released(d) ELSE [d EXCEPT !.stop = "reaping", !.reap = "term"]

\* finish of reapChild: the client's fields after a deadline or a close.
Reaped(c) == IF alive THEN Kept(c) ELSE Released(c)

RejectPending == [r \in Request |-> IF outcome[r] = "pending" THEN "failed" ELSE outcome[r]]

(***************************************************************************)
(* handleExit: the child is lost.  A deliberate stop has claimed the exit  *)
(* (notified), and then nobody is told and the pending requests wait for   *)
(* the close.  Otherwise the client reaps, rejects, and tells the host.    *)
(***************************************************************************)
LostClient(c) == [StopChild([c EXCEPT !.stream = FALSE]) EXCEPT !.exited = TRUE, !.notified = TRUE]

\* send: refused once the child is known to be gone.
CanSend == client.owned /\ ~client.exited

ChildAnswers(r) ==
  /\ os.status = "none" /\ outcome[r] \in {"pending", "failed"} /\ r \notin piped
  /\ piped' = piped \cup {r}
  /\ UNCHANGED <<os, client, outcome, told>>

\* A line of stdout: dropped when the listener is gone or the request is settled.
Data(r) ==
  /\ r \in piped
  /\ piped' = piped \ {r}
  /\ outcome' = IF client.stream /\ outcome[r] = "pending"
                THEN [outcome EXCEPT ![r] = "answered"] ELSE outcome
  /\ UNCHANGED <<os, client, told>>

Timeout(r) ==
  /\ r \notin Untimed /\ outcome[r] = "pending"
  /\ outcome' = [outcome EXCEPT ![r] = "failed"]
  /\ UNCHANGED <<os, client, piped, told>>

\* The write callback fails: the child is gone and Node has not said so yet.
WriteFails(r) ==
  /\ outcome[r] = "pending" /\ r \notin piped /\ client.owned /\ os.status # "none"
  /\ outcome' = [outcome EXCEPT ![r] = "failed"]
  /\ UNCHANGED <<os, client, piped, told>>

ChildDies(s) ==
  /\ os.status = "none"
  /\ os' = [os EXCEPT !.status = s]
  /\ UNCHANGED <<client, piped, outcome, told>>

\* Mutant of OnExit: the exit rejects the pending requests at once.
OnExitRejecting ==
  /\ os.status # "none" /\ ~os.exitSeen
  /\ os' = [os EXCEPT !.exitSeen = TRUE]
  /\ client' = IF ~client.owned THEN client
               ELSE [client EXCEPT !.exited = TRUE, !.grace = @ \/ ~client.notified,
                                   !.reap = IF @ \in {"term", "kill"} THEN "grace" ELSE @]
  /\ outcome' = RejectPending
  /\ UNCHANGED <<piped, told>>

\* Mutant of OnExit: nothing bounds the wait for the close.
OnExitUnbounded ==
  /\ os.status # "none" /\ ~os.exitSeen
  /\ os' = [os EXCEPT !.exitSeen = TRUE]
  /\ client' = IF ~client.owned THEN client
               ELSE [client EXCEPT !.exited = TRUE,
                                   !.reap = IF @ \in {"term", "kill"} THEN "grace" ELSE @]
  /\ UNCHANGED <<piped, outcome, told>>

\* The exit event: no new sends; the pending requests and the stream wait for
\* the close, a grace timer in its stead.  The reap has its own listener.
OnExit ==
  /\ os.status # "none" /\ ~os.exitSeen
  /\ os' = [os EXCEPT !.exitSeen = TRUE]
  /\ client' = IF ~client.owned THEN client
               ELSE [client EXCEPT !.exited = TRUE, !.grace = @ \/ ~client.notified,
                                   !.reap = IF @ \in {"term", "kill"} THEN "grace" ELSE @]
  /\ UNCHANGED <<piped, outcome, told>>

\* finishAfterStdio: no line is read any more; who was not told yet learns it now.
FinishStdio(c) ==
  LET d == [c EXCEPT !.grace = FALSE, !.stream = FALSE]
  IN IF c.notified THEN d ELSE LostClient(d)

\* The close event, after exit and drained pipes; it also ends a reap.
OnClose ==
  /\ os.exitSeen /\ ~os.closeSeen /\ piped = {}
  /\ os' = [os EXCEPT !.closeSeen = TRUE]
  /\ IF ~client.owned THEN UNCHANGED <<client, outcome, told>>
     ELSE LET c == FinishStdio([client EXCEPT !.closed = TRUE])
              ends == ~client.notified \/ client.stop = "reaping"
          IN /\ client' = IF c.stop = "reaping" THEN Released(c) ELSE c
             /\ outcome' = IF ends THEN RejectPending ELSE outcome
             /\ told' = IF client.notified THEN told ELSE told + 1
  /\ UNCHANGED piped

\* The fallback timer of CHILD_CLOSE_GRACE_MS.
GraceEnds ==
  /\ client.grace
  /\ client' = FinishStdio(client)
  /\ outcome' = IF client.notified THEN outcome ELSE RejectPending
  /\ told' = IF client.notified THEN told ELSE told + 1
  /\ UNCHANGED <<os, piped>>

\* A stdout error, a third undecodable line, or an error event of the child.
ProtocolFails ==
  /\ client.owned /\ client.stream /\ ~client.notified
  /\ client' = LostClient(client)
  /\ outcome' = RejectPending /\ told' = told + 1
  /\ UNCHANGED <<os, piped>>

\* SIGKILL after CHILD_STOP_GRACE_MS.
ForceKill ==
  /\ client.reap = "term"
  /\ client' = [client EXCEPT !.reap = "kill"]
  /\ UNCHANGED <<os, piped, outcome, told>>

\* The deadline of the reap, or the close grace after an exit during it.
Deadline ==
  /\ client.reap \in {"kill", "grace"}
  /\ client' = Reaped(client)
  /\ outcome' = RejectPending
  /\ UNCHANGED <<os, piped, told>>

ClientEvent ==
  \/ \E r \in Request : ChildAnswers(r) \/ Data(r) \/ Timeout(r) \/ WriteFails(r)
  \/ OnExit \/ OnClose \/ GraceEnds \/ ForceKill \/ Deadline
=============================================================================
