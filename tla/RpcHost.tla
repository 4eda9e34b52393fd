-------------------------------- MODULE RpcHost --------------------------------
(***************************************************************************)
(* One run of sumocode's RPC mode: the launcher (bin/sumocode.sh or        *)
(* native/main.ts), the entry it starts (sumo-rpc-host.js, or main.ts      *)
(* itself), the host (rpc/host.ts with RpcHostLifecycle) and, through      *)
(* RpcClient, the Pi child.  Signals, a dying child, errors and the user   *)
(* end the host at any time; exit code 100 asks the launcher for the next  *)
(* life, which takes over the terminal as its predecessor left it.         *)
(*                                                                         *)
(* A step is one turn of Node's event loop with the microtasks it causes.  *)
(***************************************************************************)
EXTENDS RpcClient

CONSTANTS
  Hydrate,     \* the request whose answer ends the hydration
  MaxReloads,  \* bounds: lives after the first,
  MaxSignals,  \*   SIGINT and SIGTERM received,
  MaxErrors    \*   protocol errors and unhandled rejections

ASSUME HostAssumption ==
  Hydrate \in Request \ Untimed /\ {MaxReloads, MaxSignals, MaxErrors} \subseteq Nat

VARIABLES
  launcher,  \* which launcher runs
  life,      \* how often it relaunched
  entry,     \* the entry: where it is, the early signal, its reap of the child
  host,      \* RpcHostLifecycle's fields, stats timer and runtime included
  session,   \* runRpcHostSession
  run,       \* RpcHostLifecycle.run
  term,      \* the terminal's modes
  ready,     \* the reload-ready file says "ready"
  file,      \* the exit code file
  ended,     \* the launcher's exit code
  signals, errors

entryVars == <<entry, file>>
hostVars == <<host, session, run, term, ready>>
runVars == <<launcher, life, ended, signals, errors>>
vars == <<clientVars, entryVars, hostVars, runVars>>

Code == {"0", "1", "100", "130"}
Up == {"constructing", "child-owned", "editor-ready", "hydrating", "command-ready"}
Down == {"reaping", "draining", "stopped"}   \* stopping: in finalizeHost, or past it

Entry == [pc : {"import", "host", "caught", "gone"}, relay : {"no", "0", "130"},
          reap : {"off", "term", "kill"}, signalled : BOOLEAN,
          status : Code \cup {"none", "killed"}]
HostFields == [phase : Up \cup Down, intent : Code \cup {"none"}, childOwned : BOOLEAN,
               failed : BOOLEAN, timer : BOOLEAN, stats : BOOLEAN,
               runtime : {"none", "on", "off"}, exits : BOOLEAN]

HostTypeOK ==
  /\ ClientTypeOK
  /\ launcher \in {"bash", "native"} /\ life \in 0..MaxReloads
  /\ entry \in Entry /\ host \in HostFields
  /\ session \in {"none", "shell", "hydrating", "painting", "polling", "over"}
  /\ run \in {"none", "racing", "closing", "rethrowing", "returned", "threw"}
  /\ term \in {"normal", "retained"} /\ ready \in BOOLEAN
  /\ file \in Code \cup {"none"} /\ ended \in Code \cup {"no", "killed"}
  /\ signals \in 0..MaxSignals /\ errors \in 0..MaxErrors

NewEntry == [pc |-> "import", relay |-> "no", reap |-> "off", signalled |-> FALSE, status |-> "none"]
NewHost == [phase |-> "constructing", intent |-> "none", childOwned |-> FALSE,
            failed |-> FALSE, timer |-> FALSE, stats |-> FALSE, runtime |-> "none",
            exits |-> FALSE]

Init ==
  /\ ClientInit
  /\ launcher \in {"bash", "native"} /\ life = 0
  /\ entry = NewEntry /\ file = "none"
  /\ host = NewHost /\ session = "none" /\ run = "none"
  /\ term = "normal" /\ ready = FALSE
  /\ ended = "no" /\ signals = 0 /\ errors = 0

Reload == life > 0
Stopping == host.phase \in Down
Gone == entry.pc = "gone"   \* the process that ran this life has exited

(***************************************************************************)
(* RpcHostLifecycle.stop, up to its first await: the first recorded code   *)
(* stands, timers are cleared, the runtime restores the terminal unless    *)
(* the host reloads, and the client stops.  h and c are the host's and the *)
(* client's fields as the caller left them.                                *)
(***************************************************************************)
\* Mutant of Record: the last exit code wins.
RecordLast(h, code) == [h EXCEPT !.intent = code]

Record(h, code) == [h EXCEPT !.intent = IF @ = "none" THEN code ELSE @]

Cleared(h, c) == [h EXCEPT !.phase = IF c.stop = "reaping" THEN "reaping" ELSE "draining",
                           !.timer = FALSE, !.stats = FALSE,
                           !.runtime = IF @ = "on" THEN "off" ELSE @]

\* Mutant of Unbuilt: such a host leaves the terminal to the entry.
UnbuiltIgnored(h) == FALSE

\* A host that owns the child of a reload and never built its runtime.
Unbuilt(h) == h.childOwned /\ h.runtime = "none" /\ Reload

StopHost(h, c, code) ==
  IF h.phase \in Down THEN host' = h /\ client' = c /\ UNCHANGED <<term, ready>>
  ELSE LET d == Record(h, code)
       IN /\ client' = StopChild(c)
          /\ host' = Cleared(d, client')
          /\ term' = IF Unbuilt(d) \/ (d.runtime = "on" /\ d.intent # "100") THEN "normal" ELSE term
          /\ ready' = (ready \/ Unbuilt(d))

\* stop(code).then(exit)
StopAndExit(c, code) == StopHost([host EXCEPT !.exits = TRUE], c, code)

(***************************************************************************)
(* The host's answer to a step of the client: createRpcExitHandler when it *)
(* is told of an exit (s: how the child exited, or "error"), and the rest  *)
(* of finalizeHost when the awaited client.stop() settles.                 *)
(***************************************************************************)
Deliberate(s) == s \in {"0", "100"}

ChildExited(s) ==
  IF Deliberate(s) THEN StopAndExit(client', s)
  ELSE /\ host' = [Record(host, "1") EXCEPT !.timer = ~Stopping]
       /\ UNCHANGED <<term, ready>>

\* Mutant of StopSettles: a failed reap keeps the recorded exit code.
StopSettlesBlind ==
  /\ host' = [host EXCEPT !.phase = "draining"]
  /\ UNCHANGED <<term, ready>>

StopSettles ==
  IF client'.stop = "done"
  THEN host' = [host EXCEPT !.phase = "draining"] /\ UNCHANGED <<term, ready>>
  ELSE /\ host' = [host EXCEPT !.phase = "draining", !.intent = "1", !.failed = TRUE]
       /\ term' = IF host.intent = "100" THEN "normal" ELSE term
       /\ ready' = (ready \/ host.intent = "100")

Hears(s) ==
  /\ IF told' # told THEN ChildExited(s)
     ELSE IF host.phase = "reaping" /\ client'.stop # "reaping" THEN StopSettles
     ELSE UNCHANGED <<host, term, ready>>
  /\ UNCHANGED <<session, run>>

NodeEvent == ~Gone /\ ClientEvent /\ Hears(os.status) /\ UNCHANGED <<entryVars, runVars>>

ChildExits(s) ==
  /\ ~Gone /\ ChildDies(s)
  /\ s = "100" => life < MaxReloads
  /\ UNCHANGED <<entryVars, hostVars, runVars>>

TransportFails ==
  /\ ~Gone /\ errors < MaxErrors /\ errors' = errors + 1
  /\ ProtocolFails /\ Hears("error")
  /\ UNCHANGED <<entryVars, launcher, life, ended, signals>>

(***************************************************************************)
(* The session: runRpcHostSession from client.start() on.  Nothing before  *)
(* it awaits, so that main() adopts the child, or fails to, in one turn.   *)
(***************************************************************************)
InHost == entry.pc = "host" /\ ~Gone
Throw == StopHost(host, client, "1") /\ session' = "over"

\* The child died while the host was imported: the exit handler decides, and
\* run() keeps its decision unless the child never existed.
AdoptDead ==
  LET s == IF os.status = "unspawned" THEN "error" ELSE os.status
      c == LostClient([NewClient EXCEPT !.owned = TRUE])
  IN /\ StopHost([host EXCEPT !.exits = Deliberate(s)], c, IF Deliberate(s) THEN s ELSE "1")
     /\ run' = IF s = "error" THEN "rethrowing" ELSE "closing"
     /\ session' = "over" /\ told' = told + 1 /\ UNCHANGED outcome

Sends(r) == outcome' = [outcome EXCEPT ![r] = "pending"]

AdoptLive ==
  /\ client' = [NewClient EXCEPT !.owned = TRUE, !.stream = TRUE]
  /\ host' = [host EXCEPT !.phase = IF Reload THEN "hydrating" ELSE "child-owned",
                          !.childOwned = TRUE, !.runtime = "on"]
  /\ session' = IF Reload THEN "hydrating" ELSE "shell"
  /\ term' = "retained" /\ ready' = (ready \/ Reload)
  /\ IF Reload THEN Sends(Hydrate) ELSE UNCHANGED outcome
  /\ run' = "racing" /\ UNCHANGED told

\* The runtime's constructor throws after the adoption.
AdoptUnbuilt ==
  /\ StopHost([host EXCEPT !.childOwned = TRUE, !.phase = "child-owned"],
              [NewClient EXCEPT !.owned = TRUE, !.stream = TRUE], "1")
  /\ session' = "over" /\ run' = "closing" /\ UNCHANGED <<outcome, told>>

\* main() throws before it can own the child.
SetupThrows ==
  /\ Throw /\ run' = "rethrowing" /\ UNCHANGED <<outcome, told>>

HostStarts ==
  /\ entry.pc = "import" /\ entry.relay = "no"
  /\ entry' = [entry EXCEPT !.pc = "host"]
  /\ \/ SetupThrows
     \/ os.exitSeen /\ AdoptDead
     \/ ~os.exitSeen /\ (AdoptLive \/ AdoptUnbuilt)
  /\ UNCHANGED <<os, piped, file, runVars>>

SessionThrows ==
  /\ Throw /\ run' = IF run = "racing" THEN "closing" ELSE run
  /\ UNCHANGED outcome

\* runtime.start() is done; a cold start begins its hydration.
ShellReady ==
  /\ session = "shell"
  /\ IF Stopping THEN session' = "over" /\ UNCHANGED <<client, outcome, host, run, term, ready>>
     ELSE IF ~CanSend THEN SessionThrows
     ELSE /\ Sends(Hydrate) /\ session' = "hydrating"
          /\ host' = [host EXCEPT !.phase = "hydrating"]
          /\ UNCHANGED <<client, run, term, ready>>

\* A shell that cannot be created, at a cold start or after a reload's hydration.
ShellFails ==
  /\ ~Stopping /\ \/ session = "shell"
                  \/ session = "painting" /\ Reload
  /\ SessionThrows

Hydrated ==
  /\ session = "hydrating"
  /\ CASE outcome[Hydrate] = "answered" ->
            session' = "painting" /\ UNCHANGED <<client, outcome, host, run, term, ready>>
       [] outcome[Hydrate] = "failed" -> SessionThrows
       [] OTHER -> FALSE

SessionReady ==
  /\ session = "painting" /\ session' = "polling"
  /\ host' = IF Stopping THEN host ELSE [host EXCEPT !.phase = "command-ready"]
  /\ UNCHANGED <<client, outcome, run, term, ready>>

\* Mutant of StartStats: startStatsPolling does not look whether the host stops.
StartStatsLate ==
  /\ session = "polling" /\ session' = "over"
  /\ host' = [host EXCEPT !.stats = TRUE]
  /\ UNCHANGED <<client, outcome, run, term, ready>>

\* The 5 s stats interval keeps the process alive.
StartStats ==
  /\ session = "polling" /\ session' = "over"
  /\ host' = [host EXCEPT !.stats = ~Stopping]
  /\ UNCHANGED <<client, outcome, run, term, ready>>

SendRequest(r) ==
  /\ r # Hydrate /\ host.phase = "command-ready" /\ CanSend
  /\ outcome[r] = "new" /\ Sends(r)
  /\ UNCHANGED <<client, host, session, run, term, ready>>

SessionStep == ShellReady \/ Hydrated \/ SessionReady \/ StartStats
Session ==
  /\ InHost /\ \/ SessionStep \/ ShellFails
               \/ \E r \in Request : SendRequest(r)
  /\ UNCHANGED <<os, piped, told, entryVars, runVars>>

(***************************************************************************)
(* What ends a running host: the user, the 750 ms timer after a crash, an  *)
(* unhandled error once the child is owned.                                *)
(***************************************************************************)
UserQuits(code) == host.runtime = "on" /\ StopHost(host, client, code) /\ UNCHANGED errors
CrashTimer == host.timer /\ StopAndExit(client, "1") /\ UNCHANGED errors
UnhandledError ==
  /\ host.childOwned /\ host.phase # "stopped"
  /\ errors < MaxErrors /\ errors' = errors + 1
  /\ StopAndExit(client, "1")

Ends(A) ==
  /\ InHost /\ A
  /\ UNCHANGED <<os, piped, outcome, told, entryVars, session, run, launcher, life, ended, signals>>

\* The end of stop(): listeners removed, its waiters resumed.  run() returns the
\* code or rethrows to the entry; exit() leaves the process, as does a host
\* whose child survived.
StopEnds ==
  /\ InHost /\ host.phase = "draining"
  /\ host' = [host EXCEPT !.phase = "stopped"]
  /\ IF run = "rethrowing"
     THEN /\ run' = "threw"
          /\ entry' = [entry EXCEPT !.pc = "caught", !.reap = IF @ = "off" THEN "term" ELSE @]
          /\ UNCHANGED file
     ELSE /\ run' = "returned"
          /\ entry' = IF host.exits \/ (host.childOwned /\ host.failed)
                      THEN [entry EXCEPT !.pc = "gone", !.status = host.intent] ELSE entry
          /\ file' = IF launcher = "bash" THEN host.intent ELSE file
  /\ UNCHANGED <<clientVars, session, term, ready, runVars>>

\* Nothing keeps Node's loop alive any more.
LoopEmpties ==
  /\ InHost /\ run = "returned" /\ entry.relay = "no"
  /\ os.exitSeen /\ ~host.stats /\ client.stop # "reaping"
  /\ entry' = [entry EXCEPT !.pc = "gone", !.status = host.intent]
  /\ UNCHANGED <<clientVars, hostVars, file, runVars>>

(***************************************************************************)
(* The entry: it owns the child and the signals until the host adopts.     *)
(***************************************************************************)
EarlyHandlers ==
  \/ entry.pc \in {"import", "caught"}
  \/ entry.pc = "host" /\ ~host.childOwned /\ run # "returned"

\* The host's import fails.
ImportFails ==
  /\ entry.pc = "import"
  /\ entry' = [entry EXCEPT !.pc = "caught", !.reap = IF @ = "off" THEN "term" ELSE @]
  /\ UNCHANGED <<clientVars, file, hostVars, runVars>>

\* terminateUnadoptedChild has its answer: the terminal is restored, and the
\* process leaves with the early signal's code, or with 1.
EntryLeaves(reaped) ==
  LET code == IF entry.relay # "no" /\ reaped THEN entry.relay ELSE "1"
      restores == Reload /\ (launcher = "native" => ~ready)
  IN /\ entry' = [entry EXCEPT !.pc = "gone", !.reap = "off", !.status = code]
     /\ file' = IF launcher = "bash" /\ entry.relay # "no" THEN code ELSE file
     /\ term' = IF restores THEN "normal" ELSE term
     /\ ready' = (ready \/ (restores /\ launcher = "bash"))
     /\ UNCHANGED <<clientVars, host, session, run, runVars>>

\* The child's exit, known at once or by its event, ends the reap before any
\* other task.
EntryDue == ~Gone /\ entry.reap # "off" /\ os.exitSeen
EntryReaped == EntryDue /\ EntryLeaves(TRUE)

\* 250 ms after SIGTERM, and again after SIGKILL.
EntryTimer ==
  /\ ~Gone /\ ~os.exitSeen
  /\ \/ /\ entry.reap = "term" /\ entry' = [entry EXCEPT !.reap = "kill"]
        /\ UNCHANGED <<clientVars, file, hostVars, runVars>>
     \/ entry.reap = "kill" /\ EntryLeaves(FALSE)

(***************************************************************************)
(* SIGINT (130) or SIGTERM (0), forwarded by the launcher to whichever     *)
(* handlers are installed.                                                 *)
(***************************************************************************)
Signal(code) ==
  /\ ended = "no" /\ signals < MaxSignals /\ signals' = signals + 1
  /\ \/ /\ EarlyHandlers
        /\ entry' = IF entry.relay # "no" THEN entry
                    ELSE [entry EXCEPT !.relay = code, !.reap = IF @ = "off" THEN "term" ELSE @,
                                       !.signalled = TRUE]
        /\ UNCHANGED <<client, host, term, ready, ended>>
     \/ /\ InHost /\ host.childOwned /\ host.phase # "stopped"
        /\ StopAndExit(client, code)
        /\ entry' = [entry EXCEPT !.signalled = TRUE] /\ UNCHANGED ended
     \/ /\ InHost /\ run = "returned" /\ entry.relay = "no"   \* the default disposition
        /\ entry' = [entry EXCEPT !.pc = "gone", !.status = "killed"]
        /\ UNCHANGED <<client, host, term, ready, ended>>
     \/ /\ Gone /\ launcher = "bash"                           \* between two hosts
        /\ ended' = code /\ term' = "normal"
        /\ UNCHANGED <<client, host, entry, ready>>
  /\ UNCHANGED <<os, piped, outcome, told, file, session, run, launcher, life, errors>>

(***************************************************************************)
(* The launcher's loop: it trusts the exit code file before bash's status, *)
(* which a forwarded signal may turn into 143.                             *)
(***************************************************************************)
Relaunch ==
  /\ life' = life + 1
  /\ os' \in {Spawned, Unspawned} /\ client' = NewClient /\ piped' = {} /\ told' = 0
  /\ outcome' = [r \in Request |-> "new"]
  /\ entry' = NewEntry /\ file' = "none" /\ host' = NewHost
  /\ session' = "none" /\ run' = "none" /\ ready' = FALSE
  /\ UNCHANGED <<term, ended>>

LauncherEnds(code) ==
  /\ ended' = code
  /\ term' = IF launcher = "bash" /\ Reload /\ ~ready THEN "normal" ELSE term
  /\ UNCHANGED <<clientVars, entryVars, host, session, run, ready, life>>

\* Mutant of ExitCode: the launcher trusts bash's wait.
WaitStatus == {entry.status} \cup (IF launcher = "bash" /\ entry.signalled THEN {"killed"} ELSE {})

ExitCode == IF file = "none" THEN WaitStatus ELSE {file}

LauncherReads ==
  /\ Gone /\ ended = "no"
  /\ \E code \in ExitCode : IF code = "100" THEN Relaunch ELSE LauncherEnds(code)
  /\ UNCHANGED <<launcher, signals, errors>>

HostEnds == \/ \E code \in {"0", "130"} : Ends(UserQuits(code))
            \/ Ends(CrashTimer) \/ Ends(UnhandledError)

Task ==
  \/ NodeEvent \/ TransportFails \/ \E s \in {"0", "1", "100"} : ChildExits(s)
  \/ HostStarts \/ ImportFails \/ Session \/ HostEnds \/ StopEnds \/ LoopEmpties
  \/ EntryTimer \/ LauncherReads
  \/ \E code \in {"0", "130"} : Signal(code)

Next == EntryReaped \/ (~EntryDue /\ Task)

\* Node's timers and events are fair, and so are the steps of the programs.
\* Nothing is asked of the child, not even its close event.
Fairness ==
  /\ WF_vars(~Gone /\ (OnExit \/ GraceEnds \/ ForceKill \/ Deadline) /\ NodeEvent)
  /\ WF_vars(HostStarts) /\ WF_vars(InHost /\ SessionStep /\ Session)
  /\ WF_vars(Ends(CrashTimer)) /\ WF_vars(StopEnds) /\ WF_vars(LoopEmpties)
  /\ WF_vars(EntryReaped) /\ WF_vars(EntryTimer) /\ WF_vars(LauncherReads)

Spec == Init /\ [][Next]_vars
FairSpec == Spec /\ Fairness

(***************************************************************************)
(* Properties.                                                             *)
(***************************************************************************)
\* No life begins, and the launcher does not end, over a child that may still
\* run: a host that could not reap its child reports 1, never a reload.
\* (A signal between two hosts ends the launcher by itself.)
OneChild ==
  [][/\ life' # life => os.exitSeen
     /\ ended' # ended /\ signals' = signals => os.exitSeen \/ ended' = "1"]_vars

\* The first reason to stop decides the exit code, whatever arrives while the
\* host stops, and only a failed reap overrules it; the launcher then ends with
\* that code, or with the early signal's, and never with what bash's wait says.
\* The host hears of its child's exit once per life, and never of one it asked for,
\* which would be a second reason.
ExitCodeAgrees ==
  [][/\ life' = life /\ host.intent # "none" =>
          host'.intent = host.intent \/ (host'.failed /\ host'.intent = "1")
     /\ ended' # ended /\ signals' = signals =>
          \/ ended' = IF entry.relay # "no" /\ os.exitSeen THEN entry.relay
                      ELSE IF run = "returned" THEN host.intent ELSE "1"
          \/ launcher = "native" /\ ended' = "killed"
     /\ told' > told => told = 0 /\ ~Stopping]_vars

\* A native launcher returns the code of a reload whose child died before the
\* host adopted it, and nobody restores the terminal (native/main.ts:914).
Unrestored == launcher = "native" /\ Reload /\ ~host.childOwned /\ run = "returned"

\* However a run ends, reloads included, the shell gets its terminal back.
TerminalRestored == ended # "no" /\ ~Unrestored => term = "normal"

\* A request whose response is already in the pipe is not failed by the exit
\* event or by stop(): only by a timeout, a broken stream, or the bounded wait.
BufferedAnswersCount ==
  [][\A r \in piped : outcome[r] = "pending" /\ outcome'[r] = "failed" /\ life' = life =>
       \/ r \notin Untimed \/ errors' > errors
       \/ client.grace /\ ~client'.grace
       \/ client.reap # "off" /\ client'.reap = "off"]_vars

\* A dead child ends its life: the host does not render against a corpse, even
\* when it was idle, when the child died unadopted, or when a descendant holds
\* the pipe so that close never comes.  And a stop ends the life, whatever the
\* child does with its signals.
LifeEnds == \A n \in 0..MaxReloads :
  life = n /\ (os.status # "none" \/ Stopping \/ entry.relay # "no")
    ~> life > n \/ ended # "no"
=============================================================================
