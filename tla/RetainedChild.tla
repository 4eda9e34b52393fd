------------------------------ MODULE RetainedChild ------------------------------
(***************************************************************************)
(* One subagent that outlives the Pi process that started it: its durable  *)
(* record (registry.ts), the supervisor process that owns it               *)
(* (retained-supervisor.ts), the managers that control it one after        *)
(* another (retained-adoption.ts, retained-control.ts) and the delivery of *)
(* its result (manager.ts), over crashes of any process.                   *)
(*                                                                         *)
(* An operation of the registry is one compare-and-swap under a file lock. *)
(* Time is reduced to whether a lease runs: a dead process's lease lapses, *)
(* a live one's when its event loop or the machine was suspended.  A       *)
(* holder is dead when its process is: a manager that was replaced is as   *)
(* alive as its successor in the same process.                             *)
(***************************************************************************)
EXTENDS Naturals, Sequences, FiniteSets

CONSTANTS
  Manager,    \* SubagentManagers, each with an identity of its own
  Host,       \* Pi processes
  HostOf,     \* the process of each manager
  Origin,     \* the manager that launches the child
  Owner,      \* the supervisor process
  None,
  MaxLapses   \* bound: leases that lapse although their holder lives

ASSUME RetainedAssumption ==
  /\ HostOf \in [Manager -> Host] /\ Origin \in Manager /\ MaxLapses \in Nat
  /\ Owner \notin Host \cup Manager /\ None \notin Manager \cup {Owner}

VARIABLES
  rec,       \* SubagentRecord
  owner,     \* how far the supervisor is
  child,     \* its child: "none", "up" or "gone"
  up,        \* the processes that live
  view,      \* what each manager has of the child
  read,      \* the record a manager inspects in reconstruct, or None
  request,   \* transfer requests <<outgoing, successor>> in the task directory
  step,      \* where a manager is in deliver()
  messages,  \* what was handed to Pi
  lapses

vars == <<rec, owner, child, up, view, read, request, step, messages, lapses>>

(***************************************************************************)
(* The record                                                              *)
(***************************************************************************)
Lease == [by : Manager \cup {Owner, None}, fresh : BOOLEAN]
Held(w) == [by |-> w, fresh |-> TRUE]
NoLease == [by |-> None, fresh |-> FALSE]

Slot == [state : {"none", "undelivered", "sending", "sent", "uncertain"}, generation : Nat]
Empty(state) == [state |-> state, generation |-> 0]

Record ==
  [status : {"starting", "running", "settling", "settled", "lost", "ambiguous"},
   launch : {"none", "intent", "child"}, writer : Lease, control : Lease,
   reserved : Manager \cup {None}, generation : Nat, delivery : Slot, notice : Slot]

NewRecord ==
  [status |-> "starting", launch |-> "none", writer |-> NoLease, control |-> NoLease,
   reserved |-> None, generation |-> 0, delivery |-> Empty("none"), notice |-> Empty("none")]

\* inspectWriter
Alive(w) == (IF w \in Manager THEN HostOf[w] ELSE w) \in up

\* A lease that still gives authority, and one that another may take.
Live(l) == l.by # None /\ l.fresh /\ Alive(l.by)

\* Mutant of Free: expiry alone is enough.
FreeOnceExpired(l) == l.by = None \/ ~l.fresh

Free(l) == l.by = None \/ (~l.fresh /\ ~Alive(l.by))

\* acquireControl, by the writer to the manager it was launched for
Granted(r, m) == [r EXCEPT !.control = Held(m)]

\* acquireControl, by the successor a reservation names
CanSucceed(r, m) == r.reserved = m /\ Live(r.writer) /\ Free(r.control)
Succeeded(r, m) == [r EXCEPT !.control = Held(m), !.reserved = None, !.generation = @ + 1]

\* reserveControl with a successor: it revokes the outgoing controller.
CanReserve(r, f, t) == r.control.by = f /\ Live(r.control) /\ Live(r.writer) /\ Alive(t)
Reserved(r, t) == [r EXCEPT !.control = NoLease, !.reserved = t]

\* recoverControl: the writer lives, the controller does not.
CanRecover(r) ==
  r.reserved = None /\ Live(r.writer) /\ r.control.by # None /\ Free(r.control)
Recovered(r, m) == [r EXCEPT !.control = Held(m), !.generation = @ + 1]

\* handoffController: neither lives.
CanHandOff(r) == Free(r.writer) /\ Free(r.control)
HandedOff(r, m) ==
  [r EXCEPT !.writer = Held(m), !.control = Held(m), !.reserved = None, !.generation = @ + 1]

\* advanceDelivery.  Of a "sending" the controller of another generation
\* started nobody knows whether it was sent.
Sending(r) == [state |-> "sending", generation |-> r.generation]
Stale(r, s) == s.state = "sending" /\ s.generation < r.generation

\* Mutant of Doubted: what may have been sent is sent again.
DoubtedAgain(r) == [r EXCEPT !.delivery = Empty("undelivered")]

Doubted(r) == [r EXCEPT !.delivery = Empty("uncertain"), !.notice = Empty("undelivered")]

(***************************************************************************)
(* The supervisor.  Every step of it needs its writer lease; without it,   *)
(* it stops and leaves the record as it is.                                *)
(***************************************************************************)
Unchanged == UNCHANGED <<up, view, read, request, step, messages, lapses>>
Works == Owner \in up /\ owner \notin {"stopped", "disposed"}
Writes == Works /\ rec.writer = Held(Owner)

\* prepareLaunch: the lease, control for the manager that waits, the launch
\* intent, the child's identity and the release of its prompt.
Attach ==
  /\ Works /\ owner = "new" /\ owner' = "attached"
  /\ rec' = [rec EXCEPT !.writer = Held(Owner)] /\ UNCHANGED child

Grant ==
  /\ Writes /\ owner = "attached" /\ Alive(Origin) /\ owner' = "granted"
  /\ rec' = Granted(rec, Origin) /\ UNCHANGED child

BeforeSpawn ==
  /\ Writes /\ owner = "granted" /\ owner' = "admitted"
  /\ rec' = [rec EXCEPT !.launch = "intent"] /\ UNCHANGED child

BeforePrompt ==
  /\ Writes /\ owner = "admitted" /\ owner' = "anchored"
  /\ rec' = [rec EXCEPT !.launch = "child"] /\ child' = "up"

Release ==
  /\ Writes /\ owner = "anchored" /\ child = "up" /\ owner' = "running"
  /\ rec' = [rec EXCEPT !.status = "running"] /\ UNCHANGED child

\* settle: the outcome, then (once the manifest is collected) the result.
Settling ==
  /\ Writes /\ owner = "running" /\ child = "gone" /\ owner' = "settling"
  /\ rec' = [rec EXCEPT !.status = "settling"] /\ UNCHANGED child

Settled ==
  /\ Writes /\ owner = "settling" /\ owner' = "settled"
  /\ rec' = [rec EXCEPT !.status = "settled", !.delivery = Empty("undelivered")]
  /\ UNCHANGED child

\* fail(): a broken event stream or identity, or a lease that lapsed.
Fails(status) ==
  /\ Works /\ owner \notin {"new", "settled"} /\ owner' = "stopped"
  /\ rec' = IF Writes THEN [rec EXCEPT !.status = status] ELSE rec
  /\ UNCHANGED child

\* The heartbeat of a supervisor whose child settled.
Disposes ==
  /\ Works /\ owner = "settled" /\ owner' = "disposed"
  /\ ~Writes \/ rec.delivery.state = "sent"
  /\ UNCHANGED <<rec, child>>

\* A request of the controller to be replaced.  While the child should be
\* running its identity is verified: one that just exited fails the child.
Serves(f, t) ==
  /\ Writes /\ <<f, t>> \in request /\ owner \in {"running", "settling", "settled"}
  /\ request' = request \ {<<f, t>>}
  /\ CanReserve(rec, f, t)
  /\ IF owner = "running" /\ child = "gone"
     THEN owner' = "stopped" /\ rec' = [rec EXCEPT !.status = "ambiguous"]
     ELSE rec' = Reserved(rec, t) /\ UNCHANGED owner
  /\ UNCHANGED <<child, up, view, read, step, messages, lapses>>

Supervisor ==
  \/ /\ \/ Attach \/ Grant \/ BeforeSpawn \/ BeforePrompt \/ Release
        \/ Settling \/ Settled \/ Disposes
        \/ \E status \in {"lost", "ambiguous"} : Fails(status)
     /\ Unchanged
  \/ \E f, t \in Manager : Serves(f, t)

(***************************************************************************)
(* Managers.  verifyRetained tells whether the child may be adopted.       *)
(***************************************************************************)
Verified(r) ==
  \/ r.status = "settled"
  \/ r.status = "settling" /\ Owner \in up
  \/ r.status \notin {"settling", "settled"} /\ r.launch = "child" /\ child = "up"

\* inspectControl of the grant a manager holds
Controls(m) == rec.control.by = m /\ Live(rec.control)

Sees(m, v) == view' = [view EXCEPT ![m] = v]
OnlyView == UNCHANGED <<rec, owner, child, up, read, request, step, messages, lapses>>

\* The launch is confirmed, or refused: it failed or took too long.
Confirms(m) ==
  /\ Alive(m) /\ view[m] = "launching"
  /\ \/ rec.status \in {"running", "settled"} /\ Controls(m) /\ Verified(rec) /\ Sees(m, "bound")
     \/ Sees(m, "refused")
  /\ OnlyView

\* The poll of the record and the renewal of the lease: a controller whose
\* lease lapsed, whose child is lost or whose supervisor died is blocked.
Blocks(m) ==
  /\ Alive(m) /\ view[m] = "bound" /\ step[m] \in {"idle", "done"}
  /\ \/ ~Controls(m) \/ rec.status \in {"lost", "ambiguous"}
     \/ rec.status # "settled" /\ ~Alive(rec.writer.by)
  /\ Sees(m, "blocked") /\ OnlyView

\* adoptFrom and acquireRetained, in a session that replaces another: the
\* successor asks the supervisor for control.  When that died there is no
\* other way: the outgoing controller lives as long as this process.
Replaced(f, t) ==
  /\ Alive(t) /\ view[t] = "none" /\ HostOf[f] = HostOf[t]
  /\ view[f] \in {"bound", "mirror", "blocked"} /\ step[f] \in {"idle", "done"}
  /\ view' = [view EXCEPT ![f] = "detached", ![t] = IF view[f] = "bound" THEN "acquiring" ELSE "blocked"]
  /\ request' = IF view[f] = "bound" /\ Controls(f) /\ Verified(rec) /\ Alive(rec.writer.by)
                THEN request \cup {<<f, t>>} ELSE request
  /\ UNCHANGED <<rec, owner, child, up, read, step, messages, lapses>>

\* The grant after the reservation; or the acknowledgement did not come in
\* time, or another write came between.
Acquires(m) ==
  /\ Alive(m) /\ view[m] = "acquiring"
  /\ \/ CanSucceed(rec, m) /\ rec' = Succeeded(rec, m) /\ Sees(m, "bound")
     \/ Sees(m, "blocked") /\ UNCHANGED rec
  /\ UNCHANGED <<owner, child, up, read, request, step, messages, lapses>>

\* reconstruct reads the record at session_start, before it awaits the pane.
Inspects(m) ==
  /\ Alive(m) /\ read[m] = None /\ view[m] \in {"none", "mirror", "blocked", "refused"}
  /\ \A o \in Manager \ {m} :
       HostOf[o] = HostOf[m] => view[o] \notin {"launching", "bound", "mirror", "blocked"}
  /\ read' = [read EXCEPT ![m] = rec]
  /\ UNCHANGED <<rec, owner, child, up, view, request, step, messages, lapses>>

\* sameRetainedEvidence
Evidence(r) == <<r.status, r.launch, r.writer.by, r.control.by, r.reserved, r.generation,
                 r.delivery, r.notice>>

\* What a manager that knows the child already reconstructs, it discards.
Learns(m, v) == Sees(m, IF view[m] = "none" THEN v ELSE view[m])

\* Mutant of Buries: the status is taken from the record read before.
BuriesAsRead(m) ==
  /\ read[m].status # "settled" /\ CanHandOff(rec)
  /\ rec' = [HandedOff(rec, m) EXCEPT !.status = "lost"] /\ Learns(m, "blocked")

\* Mutant of Buries: a supervisor whose lease lapsed counts as dead.
BuriesExpired(m) ==
  /\ read[m].status # "settled" /\ ~Live(rec.writer) /\ Verified(rec) /\ Free(rec.control)
  /\ rec' = [HandedOff(rec, m) EXCEPT !.status = "lost"] /\ Learns(m, "blocked")

\* acquireRetained of a child whose supervisor died: it is lost, unless it
\* settled before.
Buries(m) ==
  /\ read[m].status # "settled" /\ ~Alive(rec.writer.by) /\ Verified(rec) /\ CanHandOff(rec)
  /\ IF rec.status = "settled"
     THEN rec' = HandedOff(rec, m) /\ Learns(m, "bound")
     ELSE rec' = [HandedOff(rec, m) EXCEPT !.status = "lost"] /\ Learns(m, "blocked")

Adopts(m) ==
  /\ Evidence(read[m]) = Evidence(rec) /\ Verified(rec) /\ ~Alive(rec.control.by)
  /\ rec.status # "settled" => rec.launch = "child" /\ child = "up"
  /\ \/ CanRecover(rec) /\ rec' = Recovered(rec, m)
     \/ rec.status = "settled" /\ CanHandOff(rec) /\ rec' = HandedOff(rec, m)
  /\ Learns(m, "bound")

Mirrors(m) ==
  /\ Evidence(read[m]) = Evidence(rec) /\ Verified(rec) /\ Alive(rec.control.by)
  /\ Learns(m, "mirror") /\ UNCHANGED rec

\* Anything else, a write that comes between included, blocks the view; a
\* record without a controller is passed over.
Decides(m) ==
  /\ Alive(m) /\ read[m] # None /\ read' = [read EXCEPT ![m] = None]
  /\ IF read[m].control.by = None
     THEN UNCHANGED <<rec, view>>
     ELSE \/ Buries(m) \/ Adopts(m) \/ Mirrors(m)
          \/ Learns(m, "blocked") /\ UNCHANGED rec
  /\ UNCHANGED <<owner, child, up, request, step, messages, lapses>>

(***************************************************************************)
(* deliver(): one synchronous function of the controller, but it may die,  *)
(* and others may write, between any two of its operations.                *)
(***************************************************************************)
Delivers(m) == Alive(m) /\ view[m] = "bound" /\ rec.status = "settled"

\* The slot of the message: the result, or the notice that replaces it.
Message(r) == IF r.delivery.state = "uncertain" THEN "notice" ELSE "result"
Pending(r) == IF r.delivery.state = "uncertain" THEN r.notice ELSE r.delivery
Filled(r, kind, slot) ==
  IF kind = "notice" THEN [r EXCEPT !.notice = slot] ELSE [r EXCEPT !.delivery = slot]

Goes(m, s) == step' = [step EXCEPT ![m] = s]
DeliveryOnly == UNCHANGED <<owner, child, up, view, read, request, lapses>>

\* A message of an earlier controller is in doubt; a notice is never repeated.
Doubts(m) ==
  /\ Delivers(m) /\ step[m] = "idle" /\ Controls(m) /\ Stale(rec, Pending(rec))
  /\ IF Message(rec) = "notice"
     THEN rec' = Filled(rec, "notice", Empty("uncertain")) /\ Goes(m, "done")
     ELSE rec' = Doubted(rec) /\ UNCHANGED step
  /\ UNCHANGED messages /\ DeliveryOnly

Admits(m) ==
  /\ Delivers(m) /\ step[m] = "idle" /\ Controls(m) /\ Pending(rec).state = "undelivered"
  /\ rec' = Filled(rec, Message(rec), Sending(rec)) /\ Goes(m, "admitted")
  /\ UNCHANGED messages /\ DeliveryOnly

\* pi.sendMessage, of the slot that was admitted.
Submits(m) ==
  /\ Alive(m) /\ step[m] = "admitted" /\ Goes(m, "submitted")
  /\ messages' = Append(messages, Message(rec)) /\ UNCHANGED rec /\ DeliveryOnly

\* Control may be lost, or another write come first: then it stays "sending".
Acknowledges(m) ==
  /\ Alive(m) /\ step[m] = "submitted" /\ Goes(m, "done")
  /\ \/ /\ Controls(m) /\ Pending(rec) = Sending(rec)
        /\ rec' = Filled(rec, Message(rec), Empty("sent"))
     \/ UNCHANGED rec
  /\ UNCHANGED messages /\ DeliveryOnly

\* Another write came before the admission: this manager does not try again.
Misses(m) ==
  /\ Delivers(m) /\ step[m] = "idle" /\ Owner \in up /\ Goes(m, "done")
  /\ UNCHANGED <<rec, messages>> /\ DeliveryOnly

(***************************************************************************)
(* Processes and time                                                      *)
(***************************************************************************)
ChildExits ==
  /\ child = "up" /\ child' = "gone"
  /\ UNCHANGED <<rec, owner, up, view, read, request, step, messages, lapses>>

Dies(p) ==
  /\ p \in up /\ up' = up \ {p}
  /\ UNCHANGED <<rec, owner, child, view, read, request, step, messages, lapses>>

Lapses ==
  /\ \/ /\ rec.writer.fresh /\ rec' = [rec EXCEPT !.writer.fresh = FALSE]
        /\ lapses' = IF Alive(rec.writer.by) THEN lapses + 1 ELSE lapses
     \/ /\ rec.control.fresh /\ rec' = [rec EXCEPT !.control.fresh = FALSE]
        /\ lapses' = IF Alive(rec.control.by) THEN lapses + 1 ELSE lapses
  /\ lapses' <= MaxLapses
  /\ UNCHANGED <<owner, child, up, view, read, request, step, messages>>

Init ==
  /\ rec = NewRecord /\ owner = "new" /\ child = "none" /\ up = Host \cup {Owner}
  /\ view = [m \in Manager |-> IF m = Origin THEN "launching" ELSE "none"]
  /\ read = [m \in Manager |-> None] /\ request = {}
  /\ step = [m \in Manager |-> "idle"] /\ messages = <<>> /\ lapses = 0

Control(m) == Confirms(m) \/ Blocks(m) \/ Acquires(m) \/ Inspects(m) \/ Decides(m)
Delivery(m) == Doubts(m) \/ Admits(m) \/ Submits(m) \/ Acknowledges(m) \/ Misses(m)

Next ==
  \/ Supervisor \/ ChildExits \/ Lapses
  \/ \E m \in Manager : Control(m) \/ Delivery(m)
  \/ \E f, t \in Manager : Replaced(f, t)
  \/ \E p \in Host \cup {Owner} : Dies(p)

Spec == Init /\ [][Next]_vars

(***************************************************************************)
(* Properties                                                              *)
(***************************************************************************)
TypeOK ==
  /\ rec \in Record
  /\ owner \in {"new", "attached", "granted", "admitted", "anchored", "running",
                "settling", "settled", "stopped", "disposed"}
  /\ child \in {"none", "up", "gone"} /\ up \subseteq Host \cup {Owner}
  /\ view \in [Manager -> {"none", "launching", "refused", "bound", "mirror", "blocked",
                           "acquiring", "detached"}]
  /\ read \in [Manager -> Record \cup {None}] /\ request \subseteq Manager \X Manager
  /\ step \in [Manager -> {"idle", "admitted", "submitted", "done"}]
  /\ messages \in Seq({"result", "notice"}) /\ lapses \in 0..MaxLapses

\* However controllers crash, lapse and replace each other, at most one that
\* lives acts for the child; every other is blocked, a mirror or detached.
OneController == Cardinality({m \in Manager : view[m] = "bound" /\ Alive(m)}) <= 1

Results == {<<>>, <<"result">>}
Noticed == {Append(r, "notice") : r \in Results}

\* What the record says of the delivery is what was handed to Pi: the result at
\* most once, never after it was put in doubt, and then at most one notice.
RecordTellsTruth ==
  CASE rec.delivery.state \in {"none", "undelivered"} -> messages = <<>>
    [] rec.delivery.state = "sending" -> messages \in Results
    [] rec.delivery.state = "sent" -> messages = <<"result">>
    [] rec.delivery.state = "uncertain" ->
       CASE rec.notice.state = "undelivered" -> messages \in Results
         [] rec.notice.state = "sent" -> messages \in Noticed
         [] OTHER -> messages \in Results \cup Noticed

\* A child is recorded as lost or ambiguous only when its supervisor gave it up
\* or died: a manager never takes it from a supervisor that still works.
LossIsReal == rec.status \in {"lost", "ambiguous"} => ~Works

\* A settled result stays settled: neither a supervisor that fails later nor a
\* manager that read the record before turns it into a lost one.
ResultIsKept == [][rec.status = "settled" => rec'.status = "settled"]_vars
=============================================================================
