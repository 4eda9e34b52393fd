# SumoCode: formal models

TLA+ models of SumoCode (`src/src`, a terminal UI, RPC host and extension set
for the Pi coding agent), the TLC runs that check them on small instances, and
theorems checked by TLAPS. Paths below are relative to `src/src` unless they
start with `docs`, `plans` or `test`.

Reading order: `TerminalRecord`, `TerminalLifecycle`, `TaskLock`, `Completion`,
`TerminalDelivery`; `SubagentManager`, `SubagentSession`, `RetainedChild`;
`ActivityFeed`; `RpcClient`, `RpcHost`, `PromptScheduler`, `SessionHydration`; each `*Proofs` module
belongs to the modules it extends (`RpcSessionProofs` to the last two); `MC*` modules
and `*.cfg` are the TLC instances; `PROJECT.json` maps every
definition to its source lines and lists runs, hazards and theorems.

## 1. Inventory

The program is about 67,000 lines of TypeScript without tests. A retained host
process draws the terminal UI and drives a Pi child over JSON lines; inside the
child, the extension set gives the agent terminals, subagents and activities
that outlive the child.

| component | state it keeps | operations | what is hard | correct when |
|---|---|---|---|---|
| terminal tasks: `background-tasks/task-manager.ts`, `process-tree.ts`, `terminal-supervisor.ts` | per task: `meta.json`, `exit.code`, `launch.ready`, a process group; per manager: retained snapshots, poll set, anchors | start, list, get, check, wait, stop, recover, reconcile, detach | several managers on one record; crash between any two steps; pid reuse; unanswered probes | an outcome is recorded only over an empty group; the first settlement is final; no stranger is signalled; every stop and exit is settled |
| terminal store: `task-store.ts` | index by id and owner, per-task lock directory, takeover directories, quarantine | create, transition, refreshIndex, lock, break an abandoned lock | ABA in lock takeover; a holder that dies; half-written files | one holder per task lock; a transition is never lost; an abandoned lock is recovered |
| terminal delivery: `terminal-tools.ts` | active session, retry timer, queued flush; claim token and lease in the record | bind, touch, flush, reconcile, unbind; the tools check, wait, stop | crash between claim, send and acknowledge; session switch; busy locks | a completion reaches its own session once, never after it was consumed, and is not forgotten |
| prompt scheduler: `sumo-tui/rpc/prompt-scheduler.ts` | queues, generation, flags for running agent and compaction | submit, agent events, restore, rebind | events arrive while a send is awaited; session replacement | prompts keep their order, are sent once, and are not stranded |
| RPC client: `sumo-tui/rpc/client.ts` | child, pending requests, parse-error count, stop promise | start, send, respond, handle a line, exit, reap | late responses, timeouts, exit during start | every request settles exactly once |
| host lifecycle: `sumo-tui/rpc/host-lifecycle.ts` | registered cleanups, first exit code, finalizing | start, adopt child, stop, register | signals during shutdown, registering while stopping | every cleanup runs once; the first exit code wins |
| RPC host: `sumo-tui/rpc/host.ts`, `host-actions.ts`, `runtime.ts`, `shell-adapter.ts`, `editor.ts`, `direct-bash.ts` | editor, overlays, event buffer, replacement depth, input gate, direct-bash processes | boot hydration, input, actions, session commands, tree navigation | events around an answer, ambiguous or failed reads, retries, transitions against prompts | no event is lost or doubled between answers and replay; no input reaches a session it was not typed for |
| subagents: `subagents/manager.ts`, `index.ts`, `delivery.ts`, `tools.ts`, `backend-*.ts` | snapshots, pending setups, queue, worktree gate, pane slot, consumed ids; deferred results | spawn, reply, wait, cancel, close, drain, dispose, replace; flush | every setup is a chain of awaits in which the task may be cancelled, the session replaced, a timer expire | slots and setups are bounded; accepted work is not parked; an end is final and reaches the agent once |
| retained subagents: `subagents/registry.ts`, `retained-*.ts`, `manager.ts` | per child a record with writer and control leases and a delivery slot; a supervisor process | launch, renew, transfer, recover, hand off, settle, deliver | crash of any process at any step; suspended processes; records read before an await | one controller; a loss is proved; a settled result is kept and sent at most once |
| activity: `activity/*` | per session: `feed.json`, `writer.json`, takeover paths; per bridge: publishers, claimed owners, death proofs | claim, displace, restore, refresh, publish, shut down | two writers, a dead writer's lease, a live lease displaced by mistake | one live writer per feed; no card regresses; a takeover is completed |
| TUI runtime: `sumo-tui/runtime/*` | frame queue, terminal modes | schedule, render, enter, leave | re-entrancy, resize, crash cleanup | modes are restored; no frame is lost |
| launcher: `native/main.ts`, `bin/sumocode.sh` | reload loop | launch, reload, exit | reload markers, exit codes | the right child is restarted |
| rest: transcript, widgets, themes, layout, cathedral, commands, config | view state | rendering and parsing | | not modelled: presentation |

Interactions. Terminal managers meet only in the store's locked transitions, the
exit-code and launch files, and the process group. The delivery coordinator
calls its manager synchronously and is called by its change listener, by Pi's
events and by timers. Subagent managers of different processes meet in the
registry's compare-and-swap and, for a transfer, in request files the
supervisor polls. The host's scheduler awaits the RPC client, whose responses
and events arrive as lines of the child; launcher, entry, host and client pass
the child and the terminal to each other through exit codes, files and modes.

## 2. What is modelled

### TerminalRecord

The durable record of a terminal and every update closure the manager hands to
`TerminalTaskStore.transition`, with the rules `parseTerminalTaskSnapshot`
imposes. A closure that returns `undefined` in the code returns its argument.
Timestamps are kept as set or unset; the wall clock, titles and output are left
out. `WellFormed` is what a record on disk should always satisfy: a record
that does not parse is quarantined, and its terminal and completion are lost.

### TerminalLifecycle

One terminal, run by several managers that share its record. `rec` is
`meta.json`, `exitFile` is `exit.code`, `launched` is `launch.ready`, `tree` is
the POSIX process group; `seen`, `armed`, `anchor`, `indexed` and `detached`
are a manager's retained snapshot, poll membership, `runtime.treeVerification`
and flags; `slot` holds one reconcile and one stop continuation per manager,
`start` the continuation of `terminal_start`.

Actions, in the order of the code: `Start*` (start, the TERM and the KILL of a
fresh group, the unlaunch termination), `InitScan` and `Refresh` (index scan, recover), `PollStart` ...
`RecoverStopping` (reconcile, finishNaturalCompletion, recoverStopping),
`Term` ... `Disposed` (finishStop and its exits), `Stop*` (stop,
finishNaturalStop), `LockTimesOut` (a store mutation throws), `Crash`,
`Detach`, and the group's own life (`GateOpens`, `GateTimesOut`,
`CommandExits`, `MembersDie`, `NumberReused`).

Granularity: a manager is one thread, so its continuations do not interleave
inside a turn (`MayRun`), but other processes act between its accesses. One
round of probes with the decision taken on it is a step; reading the exit code,
probing, signalling and settling are separate steps. A verified signal
(identity check and `kill`) is one step: the window between them is the
operating system's, and no property is claimed about it. `"probe"` leaves every
question to `ps` without an answer now and then: the leader's identity, the
retained anchors and the capture of new ones. The number of an empty group may be
reused whenever the wrapper was reaped (`Unreaped`), also while `terminal_start` waits.

Left out: `handleChildError`, the Windows branch, the refresh throttle of
persisted anchors, quarantine, and the stat-stamp cache of `reconcile` (a poll
always reads). A manager has at most one `stop` in progress. A zombie counts as
a member of its group. `StartUnlaunch` keeps only the outcomes of
`terminateProcessTree`.

### Completion and TerminalDelivery

`Completion` is the promise: a settled completion enters the transcript of the
session that owns it, at most once, never after the agent got the result from a
tool, and is acknowledged only once it is there. `TerminalDelivery` is the
coordinator of `terminal-tools.ts` with the manager's claim, acknowledge and
observe operations, in several Pi processes: `bound` is
`active.ownerSessionId`, `queued` is `flushQueued`, `sent` the microtask after
a send, `timer` the shared retry timer, `flush` the locals of a running flush,
`fresh` the claims whose lease runs, `branch` the transcripts, `view` the
retained records. Every store access of a flush is a step, and so is the send:
`SendNext` reads the record and chooses a message (`chosen`), `Publish` hands it
to Pi after the output files were read.

External: Pi. `inflight` holds the messages handed to `sendMessage` and not yet
appended. It is assumed that one that starts no turn is appended before
anything but microtasks runs in that process, and that Pi is not idle until one
that starts a turn is appended. `shared` says whether two processes may have one
session open; `Completion` promises something of exclusive sessions only, and
under shared ones `NewestClaimDecides` is what the claim's token is for.

### TaskLock

`withTaskLock` of `task-store.ts`: the lock of one record, taken by several
processes that know each other only through the file system. `canonical` is
`.meta.lock` (its owner, or none), `takeover` the directories a contender that
breaks an abandoned lock moves it to, `call` one run of `withTaskLock` per
caller with its locals. Every file-system call is an action: `List` and `Read`
(`hasBlockingTakeover`), `Rename` (the candidate becomes the lock), `Owns*`
(`ownsLock`), `Operate`, `Rel*` (the two passes of `releaseLock`), `Break*`
(`breakAbandonedLock`), `Erase` and `Remove` (`rmSync`, `owner.json` before the
directory), `Retry`, `TimesOut` and `Crash`. `Ghost` is the dead owner of an
abandoned lock. A caller's private candidate and release directories are left
out: nobody else reads them. What the operation does under the lock is the
subject of `TerminalLifecycle`, whose transitions take the lock as a step;
`MutualExclusion` here is what makes that a step.

### PromptScheduler

`DefaultRpcPromptScheduler` on the host's event loop. `loop` is the running
`flush` (with the generation it was started for and what its last `dispatch`
returned), `inflight` the dispatches whose `sendPrompt` has not settled,
`entering` the submissions that await `handleHostCommand`, `compacting` and
`streaming` the flags of the state store. `fate`, `home`, `accepted` and
`attempted` are history: where each prompt ended, the session it was taken in,
and the orders in which prompts were taken and first sent. An `await` ends a
step. A keystroke or a line of the child is a task, so it does not come between
a settled promise and its continuation (`Calm`); promises settled by one chunk
of output may overtake each other (`NoneEntering`). `sendPrompt` is the RPC
client: it accepts, refuses, or loses the answer.

### SessionHydration

How `host.ts` takes over a session from its child, at boot and after a session
command. `pipe` is the child's stdout, `reading` whether the host is within a
chunk of it: the continuation of an answer runs only when the chunk is over, so
events that follow the answer are processed first. `buffer` is
`RpcSessionEventBuffer` (`replay` is `replayStart`, `failure` is
`failureReplayStart`), `call` the boot or the command under way with the answer
it got, `view` the session the scheduler is bound to, the events the transcript
shows and what the chrome state stems from, `runtime` the replacement depth and
the input block of `RpcHostRuntime` and the action gate of the boot, `heard`
what the scheduler heard since it was bound. An event is its number within its
session, a history the set of them; `get_messages` answers with those so far.

Actions: `Change` and `Begin` (`clear_queue`, then `beginSessionChange`),
`Cancel`, `Refresh` and `Retry` (`refreshSessionRuntime` the first time and from
its timer), `StateRead`, `NextPass`, `Commit` and `Fail` (a pass of the loop and
its ends, shared with the boot), `ReadLine` (the client's event listener),
`TimeOut`, and the child's `Emit`, `Answer` and `Refuse`.

Assumed: one session command at a time; when the host gives up on an operation
the child has switched or never will, and the host has read what was written
before. Section 4 says what happens otherwise. Left out: tree navigation, the
rehydration after a direct bash command, the fallback to the session file, the
activity feed's rebinding, and deferred actions. The scheduler's side of a
rebind is `RebindSession` of `PromptScheduler`.

### RpcClient and RpcHost

`RpcClient` is `SumoRpcClient`: `os` is how the child died and what Node
delivered of it, `piped` the responses it wrote and nobody read, `outcome` what
the caller of each request saw, `client` the fields (`notified` for a reported
exit, `stop` and `reap` for `stop()` and its TERM/KILL/grace timers). `RpcHost`
composes it with one run of RPC mode: the launcher's loop
(`bin/sumocode.sh`, `native/main.ts`), the entry that spawns the child before
the host is imported (`sumo-rpc-host.js`), `RpcHostLifecycle` and
`runRpcHostSession`. Exit code 100 asks the launcher for the next life.

A step is one turn of Node's event loop with the microtasks it causes; `main()`
adopts the child in one such turn, and `EntryReaped` is a microtask that runs
before anything else (`EntryDue`). Left out: a second `start()` of a client, the
50 ms spawn gate, the visual fixture, the kickoff prompt, the chrome cache, the
git watcher, SIGKILL of the host and the launcher's branch for plain Pi.

### SubagentManager and SubagentSession

`SubagentManager` has the manager's fields as one record and an operator for
each synchronous stretch of `manager.ts`: `setup` is where each `startTask`
awaits (`git`, `gate`, `worktree`, `base`, `pane`, `ready`), `child` the
backend's child, `settling` the ends whose manifest is being collected, `due`
and `drained` the scheduled and the running `drainQueue`, `gate`, `slot` and
`waiters` the worktree gate and the pane slot. Of what a terminal snapshot says,
`outcome` keeps whose end it was: the child's own, an interruption, or a setup
that failed; it is set when the settlement begins. `SubagentSession` runs them: the
tools an agent calls in its turn (`call`), the deferred delivery (`result`),
turns, and the end of a session, after which Pi may bind the same manager again.

The children here are disposable ones (the backend of native binaries and of
platforms without retention). Left out: cards of a finished turn, a
`sendMessage` that throws, pruning, telemetry, budgets, pane layout and the tab
cache, paths of worktrees, an event stream that fails after the launch, several
calls about one task at a time. `consumedIds` and the delivery's consumed set
act alike and are one set.

### RetainedChild

One child that outlives its Pi process: `rec` is its `SubagentRecord`, `owner`
how far the supervisor is, `view` what each manager has of the child, `read` the
record a `reconstruct` inspects, `request` the transfer requests in the task
directory, `step` where a manager is in `deliver()`, `messages` what was handed
to Pi. An operation of the registry is one compare-and-swap under a file lock,
so it is a step; between two of them any process may die (`Dies`) and any other
may write. A lease is its holder and whether it runs; the lease of a dead
process lapses at some time, that of a live one when its event loop or the
machine was suspended (`MaxLapses`). Control heads are left out: a manager is
granted control at most once, and `generation` tells senders apart. A write
that loses to another one (`SubagentRevisionConflict`) is the refusal each
operation may choose (`Decides`, `Acquires`, `Acknowledges`, `Misses`). Taking
over a dead supervisor's record and marking it lost are two writes in
`acquireRetained` and one step here; a manager that dies between them leaves a
record the next one takes over in the same way. A repeated `session_start`
inspects again and its grants are discarded, as in `reconstruct`.

Left out: pane inspection beyond its answer, requests other than a transfer,
result artifacts, turn cards, results a tool already returned, and a launch
that fails before there is a child.

### ActivityFeed

The feed of one session and the Pi processes that may write it. `canonical` is
`writer.json`, `takeover` what lies under each takeover path, `feed` is
`feed.json` (a version and a card per writer's subagent), `gen` the number of
the bridge a process is at, `bridge` the fields of that bridge and of its
publisher, `work` the subagent its manager lists, `call` the locals of a
`claimWriter` or a `publishOwner` that is under way. A writer is
`<<process, n>>`, as its token is unique to a bridge and its identity names the
process; `Ghost` died and left a lease and a running card.

Every file-system call is a step: `List`, `Scan` and `Look` (the reads of
`claimWriter`), `Create`, `Move`, `Check`, `Replace`, `Link` and `Restored`
(`restoreTakeoverLease`), `Drop`, `Load`; `Exists`, `Find`, `FindRead`
(`recoverOwnTakeover`), `Verify` and `Store`. `Refresh` is the refresh of the
terminals that a takeover proven by a death waits for; `Shutdown` is
`shutdownSession`, `Rebind` the next bridge of the process. A sync and the
publication that follows it in one pass are two actions, because the gate of
`tool_call` syncs without publishing.

Left out: cards of terminals, redaction and the size budget, pruning of settled
cards, a corrupt feed and its repair, several sessions of one bridge, a process
whose identity cannot be verified, a lease that changes while it is read, and
the delay between attempts.

## 3. Runs

| run | instance | shows |
|---|---|---|
| lifecycle_crash | 1 manager, 2 stops, 2 crashes, unanswered probes, busy lock, number reuse | evidence wins over cancellation, a live command is never lost, strangers unharmed but by the fresh KILL |
| lifecycle_live | 2 managers, 1 crash or handoff, and 1 stop or late starts; fair | records parse, outcomes only over an empty group, commands identified, settlement final; a written exit code is settled by whoever is left; a persisted stop resolves |
| delivery_race | 2 processes, passive and wake task, messages of other extensions, 1 crash or switch; or one session in both, 2 claims | delivery refines `Completion`; in a shared session nothing is chosen for sending once a newer claim was made |
| delivery_live | 1 process, 2 wake tasks, 1 crash or switch, 1 busy lock, fair | completions arrive |
| lock | 2 callers, an abandoned lock or none, 1 death, fair | mutual exclusion, no directory left behind, no endless retry |
| lock_aba | 3 callers and an abandoned lock | the finding below |
| host | 1 reload, 2 signals, 1 internal error, a timed and an untimed request; either launcher; fair | one child, the first reason decides the exit code, the terminal is restored, buffered answers count, a dead child or a stop ends the life |
| hydration | 2 sessions with or without a past, 3 events, 2 commands, 2 failed requests, 2 passes, any chunks; fair | no event is lost or doubled, no session shown or heard in another, a replacement ends |
| scheduler | a plain prompt, a child command, a prompt with an image, 1 restore or rebind, fair | order, one at a time, no prompt lost, doubled or moved to another session, flush after compaction |
| subagents | 2 visible isolated tasks and a headless one, 2 slots, a queue of 1, 1 further session | slots, one setup at a time, no result lost or reported twice, no work parked, no child orphaned, one writer per session file, a recorded end is kept but for a setup refused later |
| retained | 3 managers in 2 processes, a supervisor, any crash, 1 lapse of a live lease | one controller, the record tells what was sent, losses are real, a result is kept |
| activity | 2 processes and a dead writer's lease or none, 1 new session in a process, 1 failed refresh, 3 attempts of a claim, any crash; fair | one producer, every version builds on the last, a takeover is completed, the last process gets the lease |

Bounds. Two managers (processes) are enough for every pairwise race on one
record: the code has no step that depends on three. The lock does have one: a
third caller may take the place of a lock that the second moved away from the
first, which is the finding; with two callers the lock is exclusive. One task
suffices for the lifecycle because nothing relates two tasks there; delivery
needs a passive and a wake task, which meet in the order of sending, and two
wake tasks for the cap of one wake per claim pass. Three prompts are enough for
one in flight, one held and one submitted. Three subagents are enough for one
that runs, one in its setup and one queued, and for two that meet in the
worktree gate and the pane slot; `at_capacity` needs a fourth. Three managers
are enough for the outgoing and the incoming one of a process and one of
another; what `RetainedChild` shows is also proved for every number. Two
processes and the ghost are enough for every meeting of a claim with a stale
displacement, a restoration and a publication; as with the lock, a third
contender breaks the exclusion (below). Two sessions, and a second command that
may return to the first, are enough for every mixture of an old session with a
new one; three events put one before, one into and one behind a pass, and with
`Passes = 2` (4 in the code) a quiet, a noisy and a last noisy pass all occur,
as do a failure in a first read and another in its retry. Shared sessions
allow two claims, the one taken over and the one that took it. A claim makes 16 attempts in the code
and `MaxAttempts = 3` here: with two processes the third is reached and the
last one may fail, which the code retries on its next pass.
`MaxStops`, `MaxReplaced`, `MaxClaims`, `MaxFailures`, `MaxCrashes`, `MaxDirs`,
`MaxRestores`, `MaxReloads`, `MaxSignals`, `MaxErrors`, `MaxSessions`,
`MaxRebinds`, `MaxLapses`, `MaxEvents` and `MaxChanges` bound the environment (`MaxDirs` also the takeover
paths in use at once, which stops no step of `activity`); `MaxClaims` in the liveness run is what the
tasks can use with the failures allowed there, so that the bound never stops a
retry. Deaths in `retained` are bounded by the processes: none comes back, a
new process is a manager that has not looked yet.

Deadlock is not checked: a settled terminal, an idle session, a returned call,
an empty queue, a launcher that ended and a world of dead processes are states
in which the system stops.

Fairness. The event loop runs every continuation that can run; the supervisor's
interval polls every armed task; the index scan of a new manager is scheduled
at construction; the retry timer fires. A repeated SIGKILL ends a group sooner
or later (strong fairness on that outcome). In delivery an agent turn ends, and
timers, the poll and the scan get their turn however many agent turns come in
between (strong, because each waits for the microtasks to run out); leases run
out. A lock call is synchronous and runs on until it returns; nothing is
assumed of its deadline, so an endless retry would be a counterexample. In the
scheduler continuations run and the RPC client settles every request. In the
host Node's timers and events, the steps of entry, session and launcher are
fair; nothing is asked of the child, its `close` event or its answers. In a
hydration the child answers, the host reads, continues and its retry timer
fires; a request that is not answered times out, and requests do not fail for
ever (`MaxFailures`), without which a replacement has no end. In the
feed a call is synchronous and runs on, and the bridge's timers (retention,
output poll, retry of a refresh) sync and publish again. Nothing
is assumed of the user, of crashes, of the agent or of other managers' tools.
Liveness is checked without lock and probe faults in the lifecycle: with them a
stop that threw after it had taken the task off the poll is only resumed by the
next manager that reads a difference. Two processes in one session may also
take a claim from each other for ever if each lease ends before its flush
sends; liveness of delivery is therefore checked with one process. No liveness
is claimed of subagents: each wait of theirs has a timer, and what the timers
cannot wake is listed below.

## 4. Finding and known behaviours

`lock_aba`: `releaseLock` reads the owner of `.meta.lock` and renames the path in
two calls. A contender that still believes in the dead owner may move the live
lock in between, and a third process put its own there: the release renames that
one away, and its owner runs without a lock. The comment at
`background-tasks/task-store.ts:945` says otherwise.

The rest bounds what is claimed: the properties leave these cases out, and say
so where they do. Terminals:

- `stop()` reads the exit code, then probes the group, and does not read the
  code again when the group turns out empty; a command that ends in between is
  recorded lost although the evidence is on disk (`task-manager.ts:870`).
- The retry that a failed claim arms shares its timer with the lease retry, and
  reconciling any custom message clears it when no claim is open
  (`terminal-tools.ts:314`, `:446`); `CompletionArrives` fails with
  `Foreign = TRUE`.
- When the identity of a fresh wrapper cannot be kept, `terminateFreshProcessTree`
  sends TERM, waits and sends KILL to the number without asking whose it is
  (`process-tree.ts:458`). The comment above it speaks of the exact group that the
  spawn returned; if that group ended in the wait and its number was reused, the
  KILL meets a stranger. `StrangerUnharmed` leaves this step out.
- A coordinator reads the record, then output files, then sends
  (`terminal-tools.ts:271`, `:283`, `:284`). If its lease runs out in between,
  another process with the same session open may claim and publish first, and
  the message already chosen is published after it, although the comment at
  `terminal-tools.ts:262` lets the claim token decide. `NewestClaimDecides`
  allows that one message and no other.
- `LostIsNotRunning` fails when a start may outlive its grace (`"lease"`): the
  poll of another manager decides on a starting record, the starter persists
  `running`, and the settlement then ends a live terminal.
- A mutation that throws `TaskLockBusy` after `stop()` took the task off the
  poll leaves it unpolled (`task-manager.ts:959`); a start that cannot prove its
  fresh group gone leaves a starting record (`process-tree.ts:449`); a process
  that dies between unlinking `owner.json` and removing a takeover directory
  leaves one that blocks its terminal (`task-store.ts:993`).

Host and scheduler:

- The scheduler's flush loop checks compaction once: a compaction that begins
  while it awaits an answer does not hold the next prompt back.
- After `restoreAll` or `rebindSession` a flush of the old generation may keep
  the flushing flag, so that the flush of the next `compaction_end` is dropped;
  a command of the child held while a failed flush winds up lifts the pause
  without a flush. `FlushedAfterCompaction` excludes both (`Undisturbed`).
- A reload under `native/main.ts` whose child dies before the host adopts it
  leaves the terminal in retained mode (`native/main.ts:914`;
  `TerminalRestored` excludes it as `Unrestored`). A signal between two hosts
  ends the shell launcher with its own code.

Session hydration, read in the source and left out of the model by its
assumptions:

- A second session command started while the first awaits `clear_queue` finds
  the buffer active: its `beginSessionChange` is void, and whichever command
  ends first closes the buffer and opens the input under the other.
- An operation that is given up after its timeout and switches the session
  later, or events of the old session that the host has not read by then, reach
  the scheduler and the transcript bound to the other session.
- `rehydrateTranscript` after a direct bash command reads the history without
  the buffer (`host.ts:1751`): an event in the chunk of the answer, the race the
  comment at `host.ts:2199` describes, is overwritten in the transcript.
- Tree navigation uses the same buffer. Events captured between its begin and
  its baseline never reach the scheduler; a navigation that aborts a turn drops
  that turn's `agent_settled`, and Ctrl-C counts as an abort, never as quit,
  until the next turn settles (`host.ts:2000`). A cancelled navigation whose
  messages are unchanged keeps the transcript, without what was captured. A read
  that fails inside it goes to the replacement path, although the comment at
  `host.ts:2059` speaks of a retry in place: `state` is assigned after the reads.

Subagents:

- A wait that is aborted after one of its tasks settled loses that result: it
  counted as consumed (`subagents/manager.ts:1562`) and its delivery was dropped
  (`subagents/index.ts:295`), though `subagents/tools.ts:286` promises that it
  will be delivered. `NoResultLost` excludes it as `aborted`.
- A setup that fails after git and the gate calls `recordSpawnFailure` without
  asking whether the task was cancelled or closed meanwhile: a worktree that is
  not made, a base that is not found, a pane slot that comes too late
  (`subagents/manager.ts:634`, `:655`, `:707`). It builds a new snapshot (`:1243`), so
  `settledAt`, the error and its code are replaced and the manifest is dropped,
  although the comment at `subagents/manager.ts:1162` says never to overwrite a
  terminal snapshot with a second failure record. `SettledIsSticky` excludes exactly
  these as `Refused`; without the exception it fails.
- A direct spawn of an old session does not schedule the drain of the queue, so
  the queue may stay parked after a replacement (`NothingParked` covers the
  first session); its failure may be delivered in the session that follows.
- A cancel of a child that already settles consumes its result and only replies
  that it was done.
- Seen in the source with retained children, which `SubagentSession` leaves out:
  between the release of the pending slot and `bindRetained` a child takes no
  slot, so more than the limit may run; one started from the queue is refused
  by `trackRetained`, because its queued snapshot exists (`manager.ts:278`), and
  is blocked as ambiguous; a task cancelled while its backend is created has its
  terminal snapshot overwritten by `running`.

Retained children:

- A transfer reserved but not acquired (a crash, the 5 s deadline or a heartbeat
  in between) leaves a record without controller, and `reconstructRetained`
  passes over records without one (`retained-adoption.ts:99`): a settled result
  is then never delivered, though
  `plans/112-durable-subagent-registry.md` expects the next manager to deliver
  it once.
- A second `session_start` of a process with a persist-only view may recover
  control, which `reconstruct` then discards (`manager.ts:357`): the lease stays
  with a live process that neither renews nor delivers.
- A transfer served after the child exited but before its end was observed fails
  the child as ambiguous (`retained-supervisor.ts:334`).
- A write that comes between two of `deliver`'s drops the payload for this
  manager; the next controller delivers or reports it uncertain.
- In a process whose session is replaced while its supervisor is dead the
  successor is always refused: the outgoing controller's process is its own.
- Renewals of the writer lease change the record that `sameRetainedEvidence`
  compares, although its comment says heartbeats do not.

Activity feed:

- With three contenders a live lease may be displaced for good: the first moves
  it by mistake, the second takes the free name, and the first's restoration
  finds it occupied. Two bridges then count as writer until the next publication
  of the displaced one, and a version that it stores meanwhile is lost. The
  comment at `activity/feed-publisher.ts:177` allows displacement only after the
  holder is proven dead. `OneProducer` and `FeedAdvances` hold for two processes.
- The proof of a death is lost when another contender moved the dead lease after
  this one listed the takeover paths (`feed-publisher.ts:221`), when the lease is
  found again without a proof after a mistaken displacement, and when a bridge
  whose refresh is deferred is disposed. The dead writer's cards then stay
  running until the session of the next writer ends, though
  `plans/081-live-activity-store-and-in-place-cards.md` expects them reconciled.
- `linkSync` of a path that another process erased throws out of the claim. The
  next pass claims again; from a timer the exception is not caught.

## 5. Proofs

All theorems hold for any values of the constants, but for the hypotheses that four of
them name (two callers or processes, no start that outlives its grace); each module assumes only what
its component declares (`LifecycleAssumption`, `LockAssumption`, `RetainedAssumption`,
`DeliveryAssumption`, `SchedulerAssumption`, `HostAssumption`,
`RequestAssumption`, `ManagerAssumption`, `SessionsAssumption`,
`HydrationAssumption`, `FeedAssumption`): limits are naturals, a value that stands for nobody is
outside its set, and a set whose members the code counts is finite.

`TerminalLifecycleProofs` first shows that every update closure of `TerminalRecord`
keeps a record well formed (`ClosuresPreserve`), keeps an identity once there, and
keeps a settlement. It then lifts this to the system: `LifecycleInv` strengthens
`RecordParses` with what each continuation holds across its awaits
(`SlotFits`): a natural settlement carries a code the command wrote, a lost one
carries a code or null, a stop is under way only on an identified task. From it
follow `TypesHold`, `RecordsParse` and the action property `SettlementIsFinal`.
The part after it adds `LaunchInv` (a gate is released only for an
identified task) and `DisposalInv` (the group is spawned once, before any
outcome, its number is not reused before the wrapper is reaped, and a continuation about to record an outcome has seen it empty); from
`SafetyInv` follow `CommandsAreIdentified` and `DisposedIsEmptyHolds`.
The last part adds `EvidenceInv` (no code is on disk before the
command, or the wrapper's timeout, wrote one, and a code a continuation carries
is the one on disk) and `LostInv` (only a group whose leader is dead is told
apart from the persisted identity, and only such a terminal is, or is about to
be, recorded lost). Every step but the write of the code is `Honest`: it keeps
the code, neither revives a group nor reaches a stranger (but for `StartFreshKill`), and a first settlement
is backed by the file and the group. `EvidenceAgreesHolds`,
`StrangerUnharmedHolds` and `LostIsNotRunningHolds` follow; the last assumes that
no start outlives its grace (`"lease" \notin Faults`), without which it is false
(see section 4). TLC checked every invariant before it was proved.

`TaskLockProofs` proves the two invariants of the run `lock`. `LockInv`, for any
callers, adds to the types: `Flags` (by where it stands a call has or has not put
its candidate in place), `Placed` (its lock is in one place at most, and in none
before it was put there or once it is released), `Erases` (the directory a caller is removing
holds a lock of the dead, or its own) and `Searches`, what `releaseLock` knows of the
lock it looks for. The lock may be moved while it searches, but only from
`.meta.lock` to a takeover directory and never back: after the first pass it is no
longer canonical, so the second pass lists it wherever it is, and
whatever is listed is read before the call returns. That gives `LeavesNothing`, and
is why two passes are enough and one is not. Mutual exclusion needs that a
call that has acquired the lock still holds it somewhere (`Holds`), and that a lock
moved to a takeover directory keeps the other caller from acquiring its own
(`Blocks`: it is before its scan, has seen that directory or has it still to read).
Both are inductive for two callers only (`TwoExclude`): the third one's lock is what the
release of a moved lock renames away in `lock_aba`.

`RetainedChildProofs` proves what the run `retained` checks, for any managers
and processes and any number of lapses. `RetainedInv` adds to the types and to
`RecordTellsTruth`: `Holders` (a manager that acts for the child holds control,
one that asked to be replaced no longer acts, and nobody acts before control is
granted), `Outcome` (a supervisor at work holds the writer lease, only it
settles the record, and no loss is recorded over it) and `Delivering` (a manager
between two writes of `deliver` is the bound one, its slot is its own, and how
far it is agrees with the slot and with what was handed to Pi). From it follow `RetainedTypes`,
`OneControllerHolds`, `RecordTellsTruthHolds`, `LossIsRealHolds` and
`ResultIsKeptHolds`.

`TerminalDeliveryProofs` proves what the run `delivery_race` checks, for any
processes, sessions, terminals and bounds. `DeliveryInv` adds to the types:
`Records` (every record is well formed), `Placed` (what a flush works on and what
Pi holds belongs to the open session, and no claim is taken while Pi holds a
message), `Newest` (no message carries a newer token than a claim that stands),
`Alone` (no two processes have a session open) and `InPi` (a message Pi holds
carries the token of its record, and no transcript has one of that terminal).
`InPi` is what the coordinator relies on: only the process with the owner's
session open writes the record, and it neither claims nor observes before Pi
appended the message. `Alone` and `InPi` are about exclusive sessions only.
`Newest` alone gives `NewestClaimDecidesHolds`; it counts the chosen message among
those made. For `DeliversOnceHolds` every step is a
settlement, an arrival, a recording of what was seen, or changes neither records
nor transcripts (`Progress`), and each of the four is a step of `Completion` or
a stutter (`ProgressRefines`).

The first part of `RpcSessionProofs` proves the two invariants of the run `scheduler` for any
prompts and any number of restores. `SchedulerInv` adds to the types: `OnePlace`
(a prompt is held, awaits the host or is on its way to Pi, and only one of
these), `AtHome` (a dispatch of the present generation was typed in the present
session, so that only such a prompt comes back to the queue), `KeepsOrder` (what was
never sent stays in the queue in the order taken, behind everything sent),
`TakenOnce` and `Waiting` (the loop waits for exactly one dispatch, of a prompt
that was sent before). From it follow `SchedulerTypes`, `NothingVanishesHolds`
and `InOrderHolds`.

`RpcHostProofs` proves the four safety properties of the run `host` for any
requests and any number of reloads, signals and errors. `HostInv` adds to the types:
`ClientFits` (a client that is done with its child has seen it dead, and a stop
that goes on has claimed the exit), `Listening` (the host hears of an exit once,
before it stops), `Owning` (who reaps the child: the entry before the adoption,
the host after it, and never both), `Reasoned` (a host that stops has a reason,
gets past the reap of a child that lives only with `failed`, and asks for a
reload only if its child exited with 100), `Left` (what a process that is gone
leaves in its status and in the exit code file is `Agreed`, the code the launcher
should end with) and `Screen` (the terminal is normal unless a host may still
draw or leaves it to its successor). The end of `stop()` needs that the entry's reap
goes first once the child is dead (`EntryDue`): otherwise an early signal's code
and the host's could both be left. Every way to stop an owner goes through
`OwnerStops`, and what the host hears from its client through `HostHears`. From
`HostInv` follow `HostTypes`, `OneChildHolds`, `ExitCodeAgreesHolds`,
`TerminalRestoredHolds` and `BufferedAnswersHold`.

`SubagentSessionProofs` proves everything the run `subagents` checks, for any
tasks, limits and number of sessions. The invariant `IInv` adds to the types:

- `ManagerInv`, about the manager alone. Per task (`TaskInv`): a setup that still
  awaits something has no child, and goes on after the task settled only to
  notice that it was interrupted; a child is starting or up only while the
  snapshot is running and no settlement is under way. `QueueInv`: the queue
  has no task twice, each is queued and not set up, and a drain that awaits a
  setup is due still. `GateInv` and `SlotInv`: the worktree gate is exactly the setups
  that wait for it or use it; only a live setup holds the pane slot, nobody waits
  for a slot that is free, and a setup that is ready holds it. Without these the
  bounds are not inductive: `Occupied` counts a task in three different phases,
  and a step from one to the next must keep the count.
- `CallInv`: a wait is open exactly for the tasks the manager counts as waited for, a
  task that has no snapshot yet has the call that creates it open, and a cancel is open only
  over a child that is stopping or gone.
- `ResultInv`: who answers for an end that was consumed. A result is consumed by
  the settlement, long before the call that waits for it returns, so `NoResultLost`
  needs that a consumed end was told or has its call still open, and that an end
  nobody consumed is pending or sent.
- `SessionInv`: outside a session nothing of it is queued or set up, and the
  setups of the session before are stale. `NothingOrphaned` needs it: a setup that
  awaits git when its session ends goes on, and must find itself stale.

The manager's part is proved per operation (`startTask`'s awaits, the drain, the
settlement), each once, and the session's actions, which compose them, use these
lemmas. From `IInv` follow the five invariants; the two action properties are
proved from it with a lemma about each way a result or a snapshot changes. For
`SettlesOnce` every operation keeps the `outcome` of a task whose settlement began
(`OutcomesKept`), and a setup that fails there is one past git and the gate,
because those two ask first whether it was interrupted.

The second part of `RpcSessionProofs` proves the two invariants of the run `hydration`, for any
sessions, passes and bounds. `PipeInv` is about the lines the host has not read: every
event between what was read and what was written is there, in the order
written; at most one line is an answer, and it counts the events before it; only an
operation that opened another session leaves the old one's events in front of
it. So what an answer says of the session and what the host has read of it
agree at the moment the answer is read, though not when its continuation runs: it
runs at the end of the chunk, after further events. `HydrationInv` bridges the two:
behind its first `failure` elements the buffer holds exactly the events since the
baseline, the barrier (`Mark`) is never beyond what the answer to `get_messages`
includes, and what the state included is between the barrier and what was read. Then the
transcript of the answer and the suffix after the barrier overlap but leave no gap
(`Completes`), and what was superseded and the suffix together are heard once
(`Halves`, `SpansMeet`). `SettledInv` and `OperateInv` say that everyone has
what was read while nothing is replaced, and, while a session command is under
way that has not opened another session, what was read before it began, with the rest
in the buffer: a cancelled command replays exactly that. `CallInv` and `PhaseInv`
tie the pipe, the buffer and the input gate to the phase of the call. `TypesHold`,
`EventsAreKept` and `SessionsAreNotMixed` follow.

`ActivityFeedProofs` proves the two safety properties of the run `activity` for two
processes, with any number of bridges, attempts of a claim and takeover paths.
`FeedInv`, for any processes, adds to the types what a call holds across its
file-system calls: a takeover path where one is needed (`Handy`), no publisher while a
claim is under way and a claimed one during a publication (`BridgeFits`), and in hand
never the lease of another live process to displace, nor, but for a mistaken
displacement, another's path to link back (`CallFits`). `FeedTypes` follows.

`PairInv` is about two. A process owns the session (`Owner`) once its claim has won, as
long as it has a publisher or the subagent that it ran as writer still runs. An owner's lease is `Held`: it is in its place, or the other
process moved it aside by mistake and is bound to link it back, the place is free
meanwhile, and no earlier lease of the owner can be linked there instead. Why a second
claim cannot succeed meanwhile is in `Stray`: an earlier lease of a process, left in a
takeover path by a crash or an interrupted restoration, either stops every claim of the
other process, which has it still to scan, or its owner comes across it before it owns
a lease again (`Known`). `Held` is not inductive without `Stray`: such a path, linked
back once the name is free, would displace the owner's new lease. `Alone`, of two
owners one is the other, is a consequence and gives `TwoProduceOnce`. The argument needs
two processes in one step only, `Move` (`MoveStep`): while a lease moved by mistake waits to be linked back
no third process may take the free name, which is the behaviour of section 4.
With `FeedRead` (an owner's publisher has the version and the cards of the feed) and
`CardFits` (what the feed says of a bridge's subagent is not ahead of it, and nothing is
said of bridges to come) each `Store` builds on the feed as it is: `TwoFeedAdvances`.

Only model-checked: all liveness (`ExitSettles`, `StopResolves`, `CompletionArrives`, `EveryCallReturns`,
`FlushedAfterCompaction`, `LifeEnds`, `ReplacementEnds`, `TakeoverCompletes`),
which is out of the prover's reach. `OneProducer` and `FeedAdvances` are false for three
processes, so that they are stated of two.

## 6. Plan and what is not modelled

Modelled since the first plan: the RPC client and the host's lives, session
hydration, the subagents of a session, retained children, the activity feed, and
liveness of the lifecycle. What is left, in this order; the runs stay few, so a
component that meets one already modelled is composed with it.

1. Tree navigation in `sumo-tui/rpc/host.ts`, which shares the buffer of
   `SessionHydration`, and overlapping session commands.
2. The store's index: scans that fail in part, retry with backoff, quarantine,
   and the wake-ups of `wait()`, merged into `IndexReady` of the delivery model.
3. The frame scheduler and direct bash: one process each, with timers and aborts.

Not modelled, and why:

- Transcript, widgets, shell chrome, themes, layout, the editor: pure functions
  of projected state, or text editing in one thread. They are most of the
  program's lines; their tests reach what they do, and a model would repeat them.
- State projection (`state-store.ts`, `timeline.ts`) and the activity store and
  adapters: folds over a sequence of events. The models that need one of their
  flags have it.
- Commands, tools, terminal hosts, doctor, diag and worktree: sequences of
  external programs that a user starts and watches.
- The launcher beyond its relaunch loop: argument and environment handling.
- Terminal modes and input decoding: effects outside the program; only the
  restore on exit is modelled, in `RpcHost`.
- Caches and session memory: best effort, with nothing that depends on them.
- Prototypes, scripts and audits under `scratch` and `scripts` are not part of
  the program.
