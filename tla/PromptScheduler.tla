---------------------------- MODULE PromptScheduler ----------------------------
(***************************************************************************)
(* The RPC host's prompt scheduler (sumo-tui/rpc/prompt-scheduler.ts): Pi  *)
(* owns the ordinary prompt queues, the scheduler holds prompts typed      *)
(* while Pi compacts and sends them, one at a time, when it is done.       *)
(*                                                                         *)
(* The host is one event loop.  Keystrokes and lines of the RPC child are  *)
(* tasks of their own; an await ends a step, and what runs after it is a   *)
(* step of its own that no task precedes (Calm), though a promise that the *)
(* same chunk of the child's output settles may run first (NoneEntering).  *)
(* Host and Pi state the scheduler only reads (streaming, compacting) is   *)
(* the RpcHostStateStore's.                                                *)
(***************************************************************************)
EXTENDS Naturals, SequencesExt

CONSTANTS
  Prompt,       \* prompts, each submitted once
  Slash,        \* those that name a command of the child
  Attachment,   \* those that mention a pasted image
  MaxRestores   \* bound: queue restores and session rebinds

ASSUME SchedulerAssumption ==
  /\ Slash \subseteq Prompt /\ Attachment \subseteq Prompt
  /\ MaxRestores \in Nat

VARIABLES
  queue,          \* held prompts
  generation,     \* invalidates what was sent before a restore
  paused,         \* pausedAfterFailure
  lifecycleBusy,
  inflight,       \* dispatches whose sendPrompt has not settled
  loop,           \* the flush loop: where it is, its generation, what dispatch returned
  entering,       \* submissions awaiting handleHostCommand
  fate,           \* what became of each prompt
  compacting, streaming,
  session,        \* how often the session was rebound
  home,           \* the session each prompt was taken in
  accepted, attempted  \* prompts in the order taken, and first sent, except bypasses

schedulerVars ==
  <<queue, generation, paused, lifecycleBusy, inflight, loop, entering, fate,
    compacting, streaming, session, home, accepted, attempted>>
store == <<compacting, streaming>>

Dispatch == [prompt : Prompt, generation : 0..MaxRestores, held : BOOLEAN]
Fate == {"draft", "host", "scheduler", "pi", "editor", "unknown"}
Outcome == {"ok", "rejected", "lost"}

SchedulerInit ==
  /\ queue = <<>> /\ generation = 0 /\ paused = FALSE /\ lifecycleBusy = FALSE
  /\ inflight = {}
  /\ loop = [at |-> "idle", generation |-> 0, ok |-> FALSE]
  /\ entering = {} /\ fate = [p \in Prompt |-> "draft"]
  /\ compacting = FALSE /\ streaming = FALSE
  /\ session = 0 /\ home = [p \in Prompt |-> 0]
  /\ accepted = <<>> /\ attempted = <<>>

flushing == loop.at # "idle"
Busy == streaming \/ compacting   \* getBusy; tree navigation blocks submit before it
NoneEntering == entering \subseteq Slash
Calm == NoneEntering /\ loop.at # "resumed"

FirstSent(p) == IF p \in Range(attempted) THEN attempted ELSE Append(attempted, p)

(***************************************************************************)
(* flush: sends the head of the queue and awaits it.  The loop looks at    *)
(* compaction and at the pause only when it starts.                        *)
(***************************************************************************)
SendHead(q) ==
  /\ queue' = Tail(q)
  /\ inflight' = inflight \cup {[prompt |-> Head(q), generation |-> generation, held |-> TRUE]}
  /\ loop' = [at |-> "waiting", generation |-> generation, ok |-> FALSE]
  /\ attempted' = FirstSent(Head(q))

\* Mutant of Flush: a second loop starts beside the first.
FlushTwice(q, stopped) ==
  IF stopped \/ compacting' \/ q = <<>>
  THEN queue' = q /\ UNCHANGED <<inflight, loop, attempted>>
  ELSE SendHead(q)

\* flush(generation) on a queue and a pause just assigned.
Flush(q, stopped) ==
  IF flushing \/ stopped \/ compacting' \/ q = <<>>
  THEN queue' = q /\ UNCHANGED <<inflight, loop, attempted>>
  ELSE SendHead(q)

\* dispatch has returned to the loop.
Resume ==
  /\ loop.at = "resumed"
  /\ IF loop.ok /\ loop.generation = generation /\ queue # <<>>
     THEN SendHead(queue)
     ELSE /\ loop' = [loop EXCEPT !.at = "idle", !.ok = FALSE]
          /\ UNCHANGED <<queue, inflight, attempted>>
  /\ UNCHANGED <<generation, paused, lifecycleBusy, entering, fate, store, session, home, accepted>>

(***************************************************************************)
(* submit.                                                                 *)
(***************************************************************************)
Submit(p) ==
  /\ Calm /\ fate[p] = "draft"
  /\ entering' = entering \cup {p} /\ fate' = [fate EXCEPT ![p] = "scheduler"]
  /\ UNCHANGED <<queue, generation, paused, lifecycleBusy, inflight, loop, store, session,
                 home, accepted, attempted>>

Take(p) == home' = [home EXCEPT ![p] = session]

SendNow(p) ==
  inflight' = inflight \cup {[prompt |-> p, generation |-> generation, held |-> FALSE]}

\* The host runs the command itself.
Handled(p) ==
  /\ p \in Slash
  /\ fate' = [fate EXCEPT ![p] = "host"]
  /\ UNCHANGED <<queue, paused, inflight, loop, home, accepted, attempted>>

\* A command of the child is never held.
Bypass(p) ==
  /\ compacting /\ p \in Slash
  /\ SendNow(p) /\ Take(p)
  /\ UNCHANGED <<queue, paused, loop, fate, accepted, attempted>>

\* An image cannot be queued by Pi either: the text goes back to the editor.
RefusePrompt(p) ==
  /\ p \in Attachment /\ Busy /\ ~(compacting /\ p \in Slash)
  /\ fate' = [fate EXCEPT ![p] = "editor"]
  /\ UNCHANGED <<queue, paused, inflight, loop, home, accepted, attempted>>

Taken(p) ==
  /\ ~(compacting /\ p \in Slash) /\ ~(p \in Attachment /\ Busy)
  /\ Take(p) /\ accepted' = Append(accepted, p) /\ UNCHANGED fate

Hold(p) ==
  /\ Taken(p) /\ (compacting \/ queue # <<>>)
  /\ paused' = FALSE
  /\ Flush(Append(queue, p), FALSE)

\* Mutant of SendDirect: held prompts are overtaken.
SendPast(p) ==
  /\ Taken(p) /\ ~compacting
  /\ SendNow(p) /\ attempted' = FirstSent(p)
  /\ UNCHANGED <<queue, paused, loop>>

SendDirect(p) ==
  /\ Taken(p) /\ ~compacting /\ queue = <<>>
  /\ SendNow(p) /\ attempted' = FirstSent(p)
  /\ UNCHANGED <<queue, paused, loop>>

Decide(p) ==
  /\ p \in entering /\ entering' = entering \ {p}
  /\ UNCHANGED <<generation, lifecycleBusy, store, session>>
  /\ Handled(p) \/ Bypass(p) \/ RefusePrompt(p) \/ Hold(p) \/ SendDirect(p)

(***************************************************************************)
(* dispatch, after its await: Pi accepted the prompt, refused it before    *)
(* running it, or the answer was lost (timeout, exit of the child).        *)
(***************************************************************************)
Returned(d) ==
  loop' = IF d.held
          THEN [loop EXCEPT !.at = "resumed", !.ok = FALSE]
          ELSE loop

Accepted(d) ==
  /\ fate' = [fate EXCEPT ![d.prompt] = "pi"]
  /\ loop' = IF d.held THEN [loop EXCEPT !.at = "resumed", !.ok = d.generation = generation] ELSE loop
  /\ UNCHANGED <<queue, paused>>

\* Reported only: "prompt acceptance unknown".
Report(d) ==
  /\ fate' = [fate EXCEPT ![d.prompt] = "unknown"]
  /\ UNCHANGED <<queue, paused>>

Requeue(d) ==
  /\ queue' = <<d.prompt>> \o queue /\ paused' = TRUE
  /\ UNCHANGED fate

\* Mutants of Failed: the generation is not compared; nothing is put back.
FailedStale(d, outcome) ==
  /\ Returned(d)
  /\ IF d.held THEN Requeue(d) ELSE Report(d)
FailedDropped(d, outcome) ==
  /\ Returned(d) /\ UNCHANGED <<queue, paused>>
  /\ fate' = IF d.held THEN fate ELSE [fate EXCEPT ![d.prompt] = "unknown"]

Failed(d, outcome) ==
  /\ Returned(d)
  /\ CASE d.generation # generation            -> Report(d)
       [] d.generation = generation /\ d.held  -> Requeue(d)
       [] d.generation = generation /\ ~d.held ->
            IF outcome = "rejected"
            THEN fate' = [fate EXCEPT ![d.prompt] = "editor"] /\ UNCHANGED <<queue, paused>>
            ELSE Report(d)

Settle(p) == \E d \in inflight, outcome \in Outcome :
  /\ NoneEntering /\ d.prompt = p
  /\ inflight' = inflight \ {d}
  /\ IF outcome = "ok" THEN Accepted(d) ELSE Failed(d, outcome)
  /\ UNCHANGED <<generation, lifecycleBusy, entering, store, session, home, accepted, attempted>>

(***************************************************************************)
(* handleAgentEvent, after the state store has seen the event.             *)
(***************************************************************************)
Kept == UNCHANGED <<generation, paused, entering, fate, session, home, accepted>>

AgentStart ==
  /\ Calm /\ ~streaming
  /\ lifecycleBusy' = TRUE /\ streaming' = TRUE
  /\ UNCHANGED <<queue, inflight, loop, attempted, compacting>> /\ Kept

AgentSettled ==
  /\ Calm /\ streaming
  /\ lifecycleBusy' = FALSE /\ streaming' = FALSE /\ UNCHANGED compacting
  /\ Flush(queue, paused) /\ Kept

CompactionStart ==
  /\ Calm /\ ~compacting
  /\ compacting' = TRUE
  /\ UNCHANGED <<queue, inflight, loop, attempted, lifecycleBusy, streaming>> /\ Kept

\* Mutant of CompactionEnd: the queue waits for the run to settle.
CompactionEndQuiet ==
  /\ Calm /\ compacting
  /\ compacting' = FALSE
  /\ UNCHANGED <<queue, inflight, loop, attempted, lifecycleBusy, streaming>> /\ Kept

CompactionEnd ==
  /\ Calm /\ compacting
  /\ compacting' = FALSE /\ UNCHANGED <<lifecycleBusy, streaming>>
  /\ Flush(queue, paused) /\ Kept

(***************************************************************************)
(* restoreAll: the queue goes back to the editor (dequeue, interrupt);     *)
(* rebindSession does it whenever the host changes session, whose state    *)
(* the store then holds.                                                   *)
(***************************************************************************)
Restored ==
  /\ NoneEntering /\ generation < MaxRestores
  /\ fate' = [p \in Prompt |-> IF p \in Range(queue) THEN "editor" ELSE fate[p]]
  /\ queue' = <<>> /\ paused' = FALSE /\ generation' = generation + 1
  /\ UNCHANGED <<inflight, loop, entering, home, accepted, attempted>>

RestoreAll == Restored /\ UNCHANGED <<lifecycleBusy, store, session>>

RebindSession ==
  /\ Restored
  /\ session' = session + 1 /\ lifecycleBusy' = FALSE
  /\ compacting' \in BOOLEAN /\ streaming' \in BOOLEAN

SchedulerNext ==
  \/ Resume
  \/ \E p \in Prompt : Submit(p) \/ Decide(p) \/ Settle(p)
  \/ AgentStart \/ AgentSettled \/ CompactionStart \/ CompactionEnd
  \/ RestoreAll \/ RebindSession

SchedulerSpec == SchedulerInit /\ [][SchedulerNext]_schedulerVars

\* Continuations run, and the RPC client answers or times out every request;
\* nothing obliges the agent or the user to do anything.
FairSchedulerSpec ==
  /\ SchedulerSpec /\ WF_schedulerVars(Resume)
  /\ \A p \in Prompt : WF_schedulerVars(Decide(p)) /\ WF_schedulerVars(Settle(p))

(***************************************************************************)
(* Properties.                                                             *)
(***************************************************************************)
\* Every variable has its type, and no dispatch is younger than the scheduler.
SchedulerTypeOK ==
  /\ queue \in Seq(Prompt) /\ generation \in 0..MaxRestores
  /\ paused \in BOOLEAN /\ lifecycleBusy \in BOOLEAN
  /\ inflight \subseteq Dispatch /\ \A d \in inflight : d.generation <= generation
  /\ loop \in [at : {"idle", "waiting", "resumed"}, generation : 0..MaxRestores, ok : BOOLEAN]
  /\ entering \subseteq Prompt /\ fate \in [Prompt -> Fate]
  /\ compacting \in BOOLEAN /\ streaming \in BOOLEAN
  /\ session \in 0..MaxRestores /\ home \in [Prompt -> 0..MaxRestores]
  /\ accepted \in Seq(Prompt) /\ attempted \in Seq(Prompt)

\* A prompt the user sent is in one place: awaiting the host, held, on its way
\* to Pi, or ended with a visible outcome.  None vanishes and none is doubled; and
\* what is held was typed into the session now bound: a prompt of session A whose
\* answer fails after the switch must not come back to B's queue.
NothingVanishes ==
  /\ \A p \in Prompt : fate[p] = "scheduler" =>
       Cardinality({i \in DOMAIN queue : queue[i] = p})
         + Cardinality({d \in inflight : d.prompt = p})
         + (IF p \in entering THEN 1 ELSE 0) = 1
  /\ \A p \in Prompt : fate[p] # "scheduler" =>
       p \notin Range(queue) \cup entering \cup {d.prompt : d \in inflight}
  /\ \A p \in Range(queue) : home[p] = session

\* Prompts are first sent in the order they were taken, whether they were held
\* or sent directly (child commands during compaction overtake by design); held
\* ones go one after the other, the next only when the last has been answered,
\* across pauses, restores and overlapping flushes.
FirstAttemptsInOrder ==
  /\ Cardinality({d \in inflight : d.held}) = IF loop.at = "waiting" THEN 1 ELSE 0
  /\ \E f \in [DOMAIN attempted -> DOMAIN accepted] :
       /\ \A i \in DOMAIN attempted : accepted[f[i]] = attempted[i]
       /\ \A i, j \in DOMAIN attempted : i < j => f[i] < f[j]

\* Two things make the code forget a flush: after a restore, one of the earlier
\* generation may still hold the flushing flag; and a command of the child that
\* is held while a failed flush winds up lifts the pause but starts no flush.
Undisturbed == generation = 0 /\ Range(accepted) \cap Slash = {}

\* Unless that happens, the queue is flushed once compaction is over, or a
\* failure has paused it.
FlushedAfterCompaction ==
  queue # <<>> /\ Undisturbed ~> (queue = <<>> \/ compacting \/ paused \/ ~Undisturbed)
=============================================================================
