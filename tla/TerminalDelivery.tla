---------------------------- MODULE TerminalDelivery ----------------------------
(***************************************************************************)
(* Delivery of terminal completions into Pi sessions: the coordinator of   *)
(* terminal-tools.ts and the claim, acknowledge and observe operations of  *)
(* TerminalTaskManager, in several Pi processes that share the store.      *)
(*                                                                         *)
(* Each process has one coordinator, bound to the session Pi has open.  A  *)
(* flush runs within one turn of its process, but every access to the      *)
(* store is a step of its own, and so is handing a message to Pi, which    *)
(* comes after its output was read: other processes act, leases run out,   *)
(* and the process may die, between any two.                               *)
(* Timer callbacks, tool calls and Pi's events wait until the microtasks   *)
(* of the process (a queued flush, the reconciliation after a send) ran.   *)
(*                                                                         *)
(* Time is reduced to whether the lease of a claim is over.  Pi itself is  *)
(* external: a message handed to it is appended to the transcript, or dies *)
(* with the process.  One that starts no turn is appended before anything  *)
(* but microtasks runs; until one that starts a turn is appended, Pi is    *)
(* not idle and none of the turn's tools has run.                          *)
(***************************************************************************)
EXTENDS TerminalRecord, FiniteSets

CONSTANTS
  Process,      \* Pi processes, each with a manager and a coordinator
  Session,      \* Pi sessions
  Nobody,       \* no session is bound
  Task,         \* terminals, all started before the model begins
  Owner,        \* the session that started each terminal
  Wake,         \* the terminals whose completion policy is "wake"
  Sharing,      \* may two processes have one session open?  One answer or both
  Foreign,      \* do other extensions add custom messages to the transcript?
  MaxClaims,    \* bound: claims
  MaxReplaced,  \* bound: crashes and session replacements
  MaxFailures   \* bound: store operations that find the task lock busy, sends that fail

ASSUME DeliveryAssumption ==
  /\ Owner \in [Task -> Session] /\ Wake \subseteq Task /\ Nobody \notin Session
  /\ Sharing \subseteq BOOLEAN /\ Foreign \in BOOLEAN
  /\ MaxClaims \in Nat /\ MaxReplaced \in Nat /\ MaxFailures \in Nat

VARIABLES
  rec,       \* per task: its durable record
  fresh,     \* tasks whose claim lease still runs
  claims,    \* claim tokens handed out so far
  branch,    \* per session: the <<task, token>> details of its messages
  view,      \* per process: the retained records
  ready,     \* per process: the index was initialised
  bound,     \* per process: active.ownerSessionId
  busy,      \* per process: an agent turn runs
  queued,    \* per process: flushQueued, and its microtask
  sent,      \* per process: the microtask that reconciles after a send
  timer,     \* per process: the retry timer, and what it was armed for
  inflight,  \* per process: messages handed to Pi and not yet appended
  flush,     \* per process: where its flush is, and its locals
  shared,    \* two processes may have one session open
  replaced, failures

store == <<rec, fresh, claims>>
coordinator == <<queued, sent, timer, flush>>
kept == <<shared, replaced>>
counts == <<shared, replaced, failures>>
vars == <<rec, fresh, claims, branch, view, ready, bound, busy, queued, sent,
          timer, inflight, flush, shared, replaced, failures>>

Token == 1..MaxClaims
Receipt == Task \X Token
Flush == [pc: {"idle", "claim", "send"}, todo: SUBSET Task, claimed: SUBSET Receipt,
          chosen: SUBSET Receipt, published: BOOLEAN]
NoFlush == [pc |-> "idle", todo |-> {}, claimed |-> {}, chosen |-> {}, published |-> FALSE]

Running == [Initial EXCEPT !.status = "running", !.identity = TRUE]

TypeOK ==
  /\ rec \in [Task -> TaskRecord] /\ fresh \subseteq Task /\ claims \in 0..MaxClaims
  /\ branch \in [Session -> SUBSET Receipt]
  /\ view \in [Process -> [Task -> TaskRecord]]
  /\ ready \in [Process -> BOOLEAN] /\ bound \in [Process -> Session \cup {Nobody}]
  /\ busy \in [Process -> BOOLEAN] /\ queued \in [Process -> BOOLEAN]
  /\ sent \in [Process -> BOOLEAN] /\ timer \in [Process -> {"off", "short", "lease"}]
  /\ inflight \in [Process -> SUBSET Receipt] /\ flush \in [Process -> Flush]
  /\ shared \in BOOLEAN /\ replaced \in 0..MaxReplaced /\ failures \in 0..MaxFailures

Init ==
  /\ rec = [t \in Task |-> Running] /\ fresh = {} /\ claims = 0
  /\ branch = [s \in Session |-> {}]
  /\ view = [p \in Process |-> [t \in Task |-> NoRecord]]
  /\ ready = [p \in Process |-> FALSE] /\ bound = [p \in Process |-> Nobody]
  /\ busy = [p \in Process |-> FALSE] /\ queued = [p \in Process |-> FALSE]
  /\ sent = [p \in Process |-> FALSE] /\ timer = [p \in Process |-> "off"]
  /\ inflight = [p \in Process |-> {}] /\ flush = [p \in Process |-> NoFlush]
  /\ shared \in Sharing /\ replaced = 0 /\ failures = 0

-----------------------------------------------------------------------------
(***************************************************************************)
(* The manager's side.                                                     *)
(***************************************************************************)
Owned(s) == {t \in Task : Owner[t] = s}

\* Between turns: no flush runs, no microtask waits, and Pi has appended every
\* message that starts no turn.
Quiet(p) ==
  /\ flush[p].pc = "idle" /\ ~queued[p] /\ ~sent[p]
  /\ \A m \in inflight[p] : m[1] \in Wake

\* ctx.isIdle().
Idle(p) == ~busy[p] /\ inflight[p] = {}

\* isClaimable, up to the cap of one wake per claimPending.  An older claim in
\* a stale view counts as over; the locked record decides.
LeaseOver(r, t) == t \notin fresh \/ r.token # rec[t].token
Claimable(r, t, wakes) ==
  /\ IsSettled(r)
  /\ r.delivery = "pending" \/ (r.delivery = "claimed" /\ LeaseOver(r, t))
  /\ t \in Wake => ~wakes

\* The leases that still matter once the records are recs.
Leases(recs) == {t \in fresh : recs[t].delivery = "claimed"}

\* p's manager adopts r for t; a listener of the bound session asks for a flush.
Adopt(p, t, r) == view' = [view EXCEPT ![p][t] = r]
Notifies(p, t, r) == Owner[t] = bound[p] /\ view[p][t] # r

\* acknowledge(): the receipts b hold, taken as claimed in the retained view.
Matching(p, s, b) ==
  {t \in Owned(s) : view[p][t].delivery = "claimed" /\ <<t, view[p][t].token>> \in b}
Acked(b, done) ==
  [t \in Task |-> IF t \in done /\ rec[t].delivery = "claimed" /\ <<t, rec[t].token>> \in b
                  THEN Acknowledge(rec[t]) ELSE rec[t]]
Adopted(p, done, recs) == [t \in Task |-> IF t \in done THEN recs[t] ELSE view[p][t]]

\* getClaimRetryDelay is defined.
Leased(s, snapshots) == \E t \in Owned(s) : snapshots[t].delivery = "claimed"

\* Mutant: never waits for a lease.
NeverSynced(s, snapshots) == "off"

\* syncLeaseRetry.
Synced(s, snapshots) == IF Leased(s, snapshots) THEN "lease" ELSE "off"

Fail == failures < MaxFailures /\ failures' = failures + 1

-----------------------------------------------------------------------------
(***************************************************************************)
(* reconcile(): acknowledge what the transcript b shows, then arm or clear *)
(* the retry timer.  A busy task lock ends it after part of the work; on   *)
(* that path the timer becomes what the caller's catch leaves.             *)
(***************************************************************************)
Reconcile(p, b, onError) ==
  LET s == bound[p] IN
  \E done \in SUBSET Matching(p, s, b) :
    /\ rec' = Acked(b, done)
    /\ view' = [view EXCEPT ![p] = Adopted(p, done, rec')]
    /\ IF done = Matching(p, s, b)
       THEN timer' = [timer EXCEPT ![p] = Synced(s, view'[p])] /\ UNCHANGED failures
       ELSE timer' = [timer EXCEPT ![p] = onError] /\ Fail
    /\ fresh' = Leases(rec')

\* Acknowledging notifies the coordinator's own listener.
Heard(p) == \E t \in Owned(bound[p]) : view'[p][t] # view[p][t]

Short == "short"

-----------------------------------------------------------------------------
(***************************************************************************)
(* Sessions, the index and settlements.                                    *)
(***************************************************************************)
\* session_start.
Bind(p, s) ==
  /\ bound[p] = Nobody
  /\ shared \/ \A q \in Process : bound[q] # s
  /\ bound' = [bound EXCEPT ![p] = s]
  /\ queued' = [queued EXCEPT ![p] = TRUE]
  /\ UNCHANGED <<store, branch, view, ready, busy, sent, timer, inflight, flush, counts>>

\* The process dies, or session_shutdown unbinds the coordinator and detaches
\* the manager; either way a new manager and coordinator take over.
Replace(p) ==
  /\ replaced < MaxReplaced /\ replaced' = replaced + 1
  /\ view' = [view EXCEPT ![p] = [t \in Task |-> NoRecord]]
  /\ ready' = [ready EXCEPT ![p] = FALSE]
  /\ bound' = [bound EXCEPT ![p] = Nobody]
  /\ busy' = [busy EXCEPT ![p] = FALSE]
  /\ queued' = [queued EXCEPT ![p] = FALSE]
  /\ sent' = [sent EXCEPT ![p] = FALSE]
  /\ timer' = [timer EXCEPT ![p] = "off"]
  /\ inflight' = [inflight EXCEPT ![p] = {}]
  /\ flush' = [flush EXCEPT ![p] = NoFlush]
  /\ UNCHANGED <<store, branch, shared, failures>>

\* The deferred index scan adopts every record.
IndexReady(p) ==
  /\ ~ready[p] /\ Quiet(p)
  /\ ready' = [ready EXCEPT ![p] = TRUE]
  /\ view' = [view EXCEPT ![p] = rec]
  /\ queued' = [queued EXCEPT ![p] = bound[p] # Nobody /\ Owned(bound[p]) # {}]
  /\ UNCHANGED <<store, branch, bound, busy, sent, timer, inflight, flush, counts>>

\* p's poll settles a terminal, whoever owns it; a stop settles it silently.
SettleTask(p, t) ==
  /\ ready[p] /\ Quiet(p) /\ ~IsSettled(rec[t])
  /\ \E r \in {SettleNatural(rec[t], "zero"), SettleCancelled(rec[t])} :
       /\ rec' = [rec EXCEPT ![t] = r]
       /\ Adopt(p, t, r)
       /\ queued' = [queued EXCEPT ![p] = Notifies(p, t, r)]
  /\ UNCHANGED <<fresh, claims, branch, ready, bound, busy, sent, timer, inflight, flush, counts>>

\* The poll of a terminal p still takes for active reads its record again.
Learn(p, t) ==
  /\ ready[p] /\ Quiet(p) /\ ~IsSettled(view[p][t]) /\ view[p][t] # rec[t]
  /\ Adopt(p, t, rec[t])
  /\ queued' = [queued EXCEPT ![p] = Notifies(p, t, rec[t])]
  /\ UNCHANGED <<store, branch, ready, bound, busy, sent, timer, inflight, flush, counts>>

\* Claim leases are longer than a message spends in Pi, though perhaps not
\* longer than the turn that claims and sends it.
LeaseExpires(t) ==
  /\ t \in fresh
  /\ \A p \in Process, k \in Token : <<t, k>> \notin inflight[p]
  /\ fresh' = fresh \ {t}
  /\ UNCHANGED <<rec, claims, branch, view, ready, bound, busy, coordinator, inflight, counts>>

-----------------------------------------------------------------------------
(***************************************************************************)
(* Pi's events and the tools.                                              *)
(***************************************************************************)
Event(p) == bound[p] # Nobody /\ Quiet(p) /\ ready[p]

\* agent_start: touch.
AgentStart(p) ==
  /\ Event(p) /\ Idle(p)
  /\ busy' = [busy EXCEPT ![p] = TRUE]
  /\ Reconcile(p, branch[bound[p]], Short)
  /\ queued' = [queued EXCEPT ![p] = Heard(p)]
  /\ UNCHANGED <<claims, branch, ready, bound, sent, inflight, flush, kept>>

\* agent_settled: flushWhenIdle.
AgentSettled(p) ==
  /\ Event(p) /\ busy[p] /\ inflight[p] = {}
  /\ busy' = [busy EXCEPT ![p] = FALSE]
  /\ Reconcile(p, branch[bound[p]], Short)
  /\ queued' = [queued EXCEPT ![p] = TRUE]
  /\ UNCHANGED <<claims, branch, ready, bound, sent, inflight, flush, kept>>

\* message_end of a custom message of another extension: reconcile, whose
\* error the handler swallows.
ForeignMessage(p) ==
  /\ Foreign /\ Event(p)
  /\ Reconcile(p, branch[bound[p]], timer[p])
  /\ queued' = [queued EXCEPT ![p] = Heard(p)]
  /\ UNCHANGED <<claims, branch, ready, bound, busy, sent, inflight, flush, kept>>

\* terminal_check, terminal_wait or terminal_stop of a settled terminal: touch,
\* then observe the retained record's successor.
Observes(p, t, recs, consume) ==
  /\ rec' = [recs EXCEPT ![t] = Observe(@, consume)]
  /\ view' = [view EXCEPT ![p] = [Adopted(p, Matching(p, bound[p], branch[bound[p]]), recs)
                                    EXCEPT ![t] = rec'[t]]]

Tool(p, t) ==
  LET s == bound[p]
      b == branch[s]
      matching == Matching(p, s, b)
      touched == Acked(b, matching)
  IN
  /\ Event(p) /\ busy[p] /\ inflight[p] = {}
  /\ Owner[t] = s /\ IsSettled(view[p][t])
  /\ \E consume \in BOOLEAN : Observes(p, t, touched, consume)
  /\ timer' = [timer EXCEPT ![p] = Synced(s, Adopted(p, matching, touched))]
  /\ fresh' = Leases(rec')
  /\ queued' = [queued EXCEPT ![p] = Heard(p)]
  /\ UNCHANGED <<claims, branch, ready, bound, busy, sent, inflight, flush, counts>>

\* A tool call on a terminal that still runs only touches.
Touch(p) ==
  /\ Event(p) /\ busy[p] /\ inflight[p] = {}
  /\ Reconcile(p, branch[bound[p]], Short)
  /\ queued' = [queued EXCEPT ![p] = Heard(p)]
  /\ UNCHANGED <<claims, branch, ready, bound, busy, sent, inflight, flush, kept>>

\* Pi appends a message and reports its end, before or after appending it; a
\* wake message starts a turn.
Append(p, m) ==
  LET s == bound[p] IN
  /\ m \in inflight[p] /\ flush[p].pc = "idle"
  /\ branch' = [branch EXCEPT ![s] = @ \cup {m}]
  /\ inflight' = [inflight EXCEPT ![p] = @ \ {m}]
  /\ busy' = [busy EXCEPT ![p] = @ \/ m[1] \in Wake]
  /\ \E b \in {branch[s], branch'[s]} : Reconcile(p, b, timer[p])
  /\ queued' = [queued EXCEPT ![p] = @ \/ Heard(p)]
  /\ UNCHANGED <<claims, ready, bound, sent, flush, kept>>

\* A lease timer was set to the end of the earliest lease of the session.
Due(p) ==
  LET claimed == {t \in Owned(bound[p]) : view[p][t].delivery = "claimed"} IN
  timer[p] = "lease" => claimed = {} \/ \E t \in claimed : LeaseOver(view[p][t], t)

TimerFires(p) ==
  /\ timer[p] # "off" /\ Quiet(p) /\ Due(p)
  /\ timer' = [timer EXCEPT ![p] = "off"]
  /\ queued' = [queued EXCEPT ![p] = TRUE]
  /\ UNCHANGED <<store, branch, view, ready, bound, busy, sent, inflight, flush, counts>>

-----------------------------------------------------------------------------
(***************************************************************************)
(* flush(), one store access at a time, and the microtask after a send.    *)
(***************************************************************************)
FlushDropped(p) ==
  /\ queued[p] /\ flush[p].pc = "idle"
  /\ bound[p] = Nobody \/ ~Idle(p) \/ ~ready[p]
  /\ queued' = [queued EXCEPT ![p] = FALSE]
  /\ UNCHANGED <<store, branch, view, ready, bound, busy, sent, timer, inflight, flush, counts>>

\* Acknowledge what is already visible; then claim.
FlushBegin(p) ==
  LET s == bound[p]
      b == branch[s]
      matching == Matching(p, s, b)
  IN
  /\ queued[p] /\ flush[p].pc = "idle"
  /\ s # Nobody /\ Idle(p) /\ ready[p]
  /\ \E done \in SUBSET matching :
       /\ rec' = Acked(b, done)
       /\ view' = [view EXCEPT ![p] = Adopted(p, done, rec')]
       /\ IF done = matching
          THEN /\ flush' = [flush EXCEPT ![p] = [NoFlush EXCEPT !.pc = "claim", !.todo = Owned(s)]]
               /\ UNCHANGED <<timer, failures>>
          ELSE timer' = [timer EXCEPT ![p] = "short"] /\ Fail /\ UNCHANGED flush
  /\ fresh' = Leases(rec')
  /\ queued' = [queued EXCEPT ![p] = Heard(p)]
  /\ UNCHANGED <<claims, branch, ready, bound, busy, sent, inflight, kept>>

HasWake(c) == \E m \in c : m[1] \in Wake

\* An exception ends the flush; what it had claimed stays claimed.
Abandon(p) ==
  /\ Fail
  /\ flush' = [flush EXCEPT ![p] = NoFlush]
  /\ timer' = [timer EXCEPT ![p] = "short"]

ClaimNext(p) ==
  LET f == flush[p]
      wakes == HasWake(f.claimed)
      candidates == {t \in f.todo : Claimable(view[p][t], t, wakes)}
  IN
  /\ f.pc = "claim"
  /\ \/ /\ candidates = {}
        /\ flush' = [flush EXCEPT ![p].pc = "send", ![p].todo = {}]
        /\ UNCHANGED <<store, view, queued, timer, failures>>
     \/ \E t \in candidates :
          LET taken == Claimable(rec[t], t, wakes) IN
          /\ claims < MaxClaims
          /\ rec' = IF taken THEN [rec EXCEPT ![t] = Claim(@, claims + 1)] ELSE rec
          /\ claims' = IF taken THEN claims + 1 ELSE claims
          /\ fresh' = IF taken THEN fresh \cup {t} ELSE fresh
          /\ Adopt(p, t, rec'[t])
          /\ queued' = [queued EXCEPT ![p] = @ \/ Notifies(p, t, rec'[t])]
          /\ flush' = [flush EXCEPT ![p].todo = @ \ {t},
                         ![p].claimed = IF taken THEN @ \cup {<<t, claims + 1>>} ELSE @]
          /\ UNCHANGED <<timer, failures>>
     \/ /\ candidates # {} /\ Abandon(p)
        /\ UNCHANGED <<store, view, queued>>
  /\ UNCHANGED <<branch, ready, bound, busy, sent, inflight, kept>>

\* Passive completions go first; a wake ends the flush.
NextToSend(c) ==
  LET passive == {m \in c : m[1] \notin Wake} IN IF passive = {} THEN c ELSE passive

\* Mutants: forget the claim token; forget what the transcript already shows.
ClaimedByAnyone(t, k) == rec[t].delivery = "claimed"
NothingObservable(t, b) == FALSE

\* Still ours: the record read again carries the token of this claim.
StillClaimed(t, k) == rec[t].delivery = "claimed" /\ rec[t].token = k
Observable(t, b) == \E k \in Token : <<t, k>> \in b

\* The record is read again before each send.  What is no longer ours is left
\* out, and what the transcript already shows is acknowledged.
SendNext(p) ==
  LET f == flush[p]
      s == bound[p]
  IN
  /\ f.pc = "send" /\ f.chosen = {}
  /\ \E m \in NextToSend(f.claimed) :
       LET t == m[1]
           rest == f.claimed \ {m}
       IN
       \/ /\ ~StillClaimed(t, m[2])
          /\ flush' = [flush EXCEPT ![p].claimed = rest]
          /\ UNCHANGED <<store, view, queued, timer, failures>>
       \/ /\ StillClaimed(t, m[2]) /\ Observable(t, branch[s])
          /\ rec' = [rec EXCEPT ![t] = Acknowledge(@)]
          /\ Adopt(p, t, rec'[t])
          /\ fresh' = Leases(rec')
          /\ queued' = [queued EXCEPT ![p] = TRUE]
          /\ flush' = [flush EXCEPT ![p].claimed = rest]
          /\ UNCHANGED <<claims, timer, failures>>
       \/ /\ StillClaimed(t, m[2]) /\ Observable(t, branch[s]) /\ Abandon(p)
          /\ UNCHANGED <<store, view, queued>>
       \/ /\ StillClaimed(t, m[2]) /\ ~Observable(t, branch[s])
          /\ flush' = [flush EXCEPT ![p].claimed = rest, ![p].chosen = {m}]
          /\ UNCHANGED <<store, view, queued, timer, failures>>
  /\ UNCHANGED <<branch, ready, bound, busy, sent, inflight, kept>>

\* Its output read, the chosen message goes to Pi, whoever has claimed the
\* terminal since.
Publish(p) ==
  LET f == flush[p] IN
  /\ \E m \in f.chosen :
       \/ /\ inflight' = [inflight EXCEPT ![p] = @ \cup {m}]
          /\ flush' = [flush EXCEPT ![p].claimed = IF m[1] \in Wake THEN {} ELSE @,
                                    ![p].chosen = {}, ![p].published = TRUE]
          /\ UNCHANGED <<timer, failures>>
       \/ Abandon(p) /\ UNCHANGED inflight
  /\ UNCHANGED <<store, branch, view, ready, bound, busy, queued, sent, kept>>

FlushEnd(p) ==
  /\ flush[p].pc = "send" /\ flush[p].claimed = {} /\ flush[p].chosen = {}
  /\ flush' = [flush EXCEPT ![p] = NoFlush]
  /\ sent' = [sent EXCEPT ![p] = flush[p].published]
  /\ timer' = [timer EXCEPT ![p] = Synced(bound[p], view[p])]
  /\ UNCHANGED <<store, branch, view, ready, bound, busy, queued, inflight, counts>>

\* The microtask queued by a send.
AfterSend(p) ==
  /\ sent[p] /\ flush[p].pc = "idle"
  /\ sent' = [sent EXCEPT ![p] = FALSE]
  /\ Reconcile(p, branch[bound[p]], Short)
  /\ queued' = [queued EXCEPT ![p] = @ \/ Heard(p)]
  /\ UNCHANGED <<claims, branch, ready, bound, busy, inflight, flush, kept>>

FlushStep(p) ==
  FlushBegin(p) \/ FlushDropped(p) \/ ClaimNext(p) \/ SendNext(p) \/ Publish(p) \/ FlushEnd(p)

-----------------------------------------------------------------------------
Next ==
  \/ \E p \in Process :
       \/ \E s \in Session : Bind(p, s)
       \/ Replace(p) \/ IndexReady(p)
       \/ \E t \in Task : SettleTask(p, t) \/ Learn(p, t) \/ Tool(p, t)
       \/ AgentStart(p) \/ AgentSettled(p) \/ ForeignMessage(p) \/ Touch(p)
       \/ \E m \in inflight[p] : Append(p, m)
       \/ TimerFires(p) \/ FlushStep(p) \/ AfterSend(p)
  \/ \E t \in Task : LeaseExpires(t)

\* Microtasks and timers run, the deferred scan and the poll run, however many
\* turns come in between (SF); Pi appends what it was handed and ends its turns,
\* and leases run out.
Fairness ==
  /\ \A p \in Process :
       /\ WF_vars(FlushStep(p)) /\ WF_vars(AfterSend(p)) /\ SF_vars(TimerFires(p))
       /\ SF_vars(IndexReady(p)) /\ SF_vars(AgentSettled(p))
       /\ WF_vars(\E m \in inflight[p] : Append(p, m))
       /\ \A t \in Task : SF_vars(Learn(p, t))
  /\ \A t \in Task : WF_vars(LeaseExpires(t))

Spec == Init /\ [][Next]_vars
FairSpec == Spec /\ Fairness

-----------------------------------------------------------------------------
(***************************************************************************)
(* Properties.                                                             *)
(***************************************************************************)
\* The terminals of sessions that one process has open at a time.
Exclusive == IF shared THEN {} ELSE Task

Copies(t) == {c \in Session \X Token : <<t, c[2]>> \in branch[c[1]]}

Abstract == INSTANCE Completion WITH
  settled <- {t \in Exclusive : IsSettled(rec[t])},
  consumed <- {t \in Exclusive : rec[t].observed},
  copies <- [t \in Task |-> IF t \in Exclusive THEN Copies(t) ELSE {}],
  acknowledged <- {t \in Exclusive : rec[t].delivery = "delivered"}

\* Delivery refines Completion: at most one message per completion, only in the
\* owner's transcript, never after the result was consumed, acknowledged only
\* when it is there; across crashes, reclaims and session switches.
DeliversOnce == Abstract!Spec

\* The claims a process is working on, and those that became messages.
Holds(p) == flush[p].claimed \cup flush[p].chosen \cup inflight[p]
Made(m) == (\E p \in Process : m \in Holds(p)) \/ (\E s \in Session : m \in branch[s])

\* Even when two processes have the session open, the claim token decides which
\* of them publishes: a coordinator chooses a message only while nobody works on
\* a newer claim of its terminal, has given one to Pi or sees one in a transcript,
\* and it publishes nothing but the message it chose.  What it may publish after
\* another process took its claim over is therefore that one message, if the
\* lease ran out while its output was read (terminal-tools.ts:271-284).
NewestClaimDecides ==
  [][\A p \in Process :
       /\ \A m \in flush'[p].chosen \ flush[p].chosen :
            \A k \in Token : k > m[2] => ~Made(<<m[1], k>>)
       /\ inflight'[p] \ inflight[p] \subseteq flush[p].chosen]_vars

\* Once the coordinator of the owner's session is up, a recorded completion is
\* delivered or consumed, unless the session goes away.
CompletionArrives ==
  \A p \in Process, t \in Task :
    (bound[p] = Owner[t] /\ rec[t].delivery \in {"pending", "claimed"}) ~>
      (rec[t].delivery \in {"delivered", "suppressed"} \/ bound[p] # Owner[t])

=============================================================================
