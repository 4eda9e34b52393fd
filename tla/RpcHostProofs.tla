---------------------------- MODULE RpcHostProofs ----------------------------
(***************************************************************************)
(* The host's lives for any requests, reloads, signals and errors: the     *)
(* types, one child at a time (OneChild), the exit code (ExitCodeAgrees),  *)
(* the terminal (TerminalRestored) and the answers in the pipe             *)
(* (BufferedAnswersCount).                                                 *)
(*                                                                         *)
(* HostInv relates the client, the host's lifecycle, the entry that owns   *)
(* the child before the host does, what a process that is gone left for    *)
(* its launcher, and the terminal.                                         *)
(***************************************************************************)
EXTENDS RpcHost, TLAPS

Running == {"racing", "closing", "returned"}   \* RpcHostLifecycle.run took the session over

\* A client's fields: a child it is done with is dead, and no stop goes on
\* without having claimed the child's exit.
ClientFits(c, seen) ==
  /\ c \in Client
  /\ c.reap # "off" <=> c.stop = "reaping"
  /\ ~c.owned => ~c.stream /\ ~c.grace /\ c.stop # "reaping"
  /\ c.closed \/ c.stop = "done" => seen
  /\ c.stop # "no" => c.notified

\* The host hears of an exit once, before it stops; what it owns is its client's.
Listening ==
  /\ ~client.notified => told = 0
  /\ client.owned /\ Stopping => client.notified
  /\ client.owned /\ ~Stopping => host.childOwned
  /\ host.childOwned => client.owned \/ client.stop = "done"

\* Who owns the child: a host under construction, the host, or the entry.
Owning ==
  /\ host.runtime # "none" \/ host.timer \/ session \notin {"none", "over"} => host.childOwned
  /\ host.childOwned /\ ~Stopping => host.runtime = "on"
  /\ host.childOwned =>
       entry.reap = "off" /\ entry.relay = "no" /\ entry.pc \in {"host", "gone"} /\ run \in Running
  /\ entry.pc = "import" =>
       /\ client = NewClient /\ host = NewHost /\ session = "none" /\ run = "none"
       /\ ~ready /\ entry.status = "none"
  /\ entry.pc = "host" => run \in Running \cup {"rethrowing"}
  /\ entry.pc = "caught" => run \in {"none", "threw"}
  /\ run \in Running => host.childOwned \/ os.exitSeen
  /\ entry.reap # "off" /\ entry.relay = "no" => entry.pc = "caught"
  /\ entry.relay # "no" /\ ~Gone => entry.reap # "off"
  /\ Gone => entry.reap = "off"

\* Why the host stops, and that it does not get past the reap over a live child.
Reasoned ==
  /\ Stopping => host.intent # "none" /\ ~host.timer
  /\ host.failed => Stopping /\ host.intent = "1"
  /\ host.intent = "100" => host.exits /\ os.status = "100"
  /\ os.status = "100" => life < MaxReloads
  /\ host.phase \in {"draining", "stopped"} /\ run \in Running => os.exitSeen \/ host.failed
  /\ run = "returned" => host.phase = "stopped"
  /\ host.phase = "stopped" => run \in {"returned", "threw"}
  /\ run = "returned" /\ entry.pc = "host" =>
       /\ ~host.exits /\ os.exitSeen
       /\ launcher = "bash" => file = host.intent

\* The code the launcher should end with.
Agreed == IF entry.relay # "no" /\ os.exitSeen THEN entry.relay
          ELSE IF run = "returned" THEN host.intent ELSE "1"

\* What a process leaves behind.
Left ==
  /\ file # "none" => launcher = "bash" /\ (run = "returned" \/ Gone)
  /\ entry.signalled => entry.relay # "no" \/ host.childOwned
  /\ Gone =>
       /\ run = "returned" \/ ~host.childOwned
       /\ launcher = "bash" => \/ file = Agreed
                               \/ file = "none" /\ entry.status = Agreed /\ ~entry.signalled
       /\ launcher = "native" => entry.status \in {Agreed, "killed"}
       /\ entry.status = "killed" => os.exitSeen /\ ~host.exits
  /\ ended # "no" => Gone

\* The terminal.
Screen ==
  /\ ~Reload /\ ~host.childOwned => term = "normal"
  /\ host.childOwned /\ Stopping => term = "normal" \/ (host.intent = "100" /\ ~host.failed)
  /\ ready /\ ~host.childOwned => term = "normal"
  /\ Gone /\ ~host.childOwned /\ run # "returned" => term = "normal"
  /\ TerminalRestored

HostInv ==
  HostTypeOK /\ ClientFits(client, os.exitSeen) /\ Listening /\ Owning /\ Reasoned /\ Left /\ Screen

-----------------------------------------------------------------------------
(***************************************************************************)
(* The client.                                                             *)
(***************************************************************************)
\* d is what a stop, an exit or a reap made of the client c.
Follows(c, d) ==
  /\ c.notified => d.notified
  /\ d.owned => c.owned
  /\ c.owned => d.owned \/ d.stop = "done"
  /\ ~c.owned => ~d.owned /\ d.stop = c.stop

LEMMA Stopped ==
  ASSUME NEW seen \in BOOLEAN, NEW c, ClientFits(c, seen)
  PROVE  /\ ClientFits(StopChild(c), seen) /\ Follows(c, StopChild(c))
         /\ c.owned => StopChild(c).notified /\ StopChild(c).stop # "no"
BY DEF ClientFits, Client, StopChild, Released, Follows

LEMMA Lost ==
  ASSUME NEW seen \in BOOLEAN, NEW c, ClientFits(c, seen)
  PROVE  /\ ClientFits(LostClient(c), seen) /\ Follows(c, LostClient(c))
         /\ LostClient(c).notified
         /\ ~c.grace => ~LostClient(c).grace
<1> DEFINE d == [c EXCEPT !.stream = FALSE]
           e == StopChild(d)
<1>1. ClientFits(d, seen) /\ Follows(c, d) /\ d.grace = c.grace
  BY DEF ClientFits, Client, Follows
<1>2. ClientFits(e, seen) /\ Follows(d, e) BY <1>1, Stopped
<1>3. ~d.grace => ~e.grace BY <1>1 DEF ClientFits, Client, StopChild, Released
<1>4. LostClient(c) = [e EXCEPT !.exited = TRUE, !.notified = TRUE] BY DEF LostClient
<1> HIDE DEF d, e
<1>5. QED BY <1>1, <1>2, <1>3, <1>4 DEF ClientFits, Client, Follows

LEMMA Finished ==
  ASSUME NEW seen \in BOOLEAN, NEW c, ClientFits(c, seen)
  PROVE  /\ ClientFits(FinishStdio(c), seen) /\ Follows(c, FinishStdio(c))
         /\ FinishStdio(c).notified /\ ~FinishStdio(c).grace
<1> DEFINE d == [c EXCEPT !.grace = FALSE, !.stream = FALSE]
<1>1. ClientFits(d, seen) /\ Follows(c, d) /\ ~d.grace /\ d.notified = c.notified
  BY DEF ClientFits, Client, Follows
<1>2. FinishStdio(c) = IF c.notified THEN d ELSE LostClient(d) BY DEF FinishStdio
<1> HIDE DEF d
<1>3. /\ ClientFits(LostClient(d), seen) /\ Follows(d, LostClient(d))
      /\ LostClient(d).notified /\ ~LostClient(d).grace
  BY <1>1, Lost
<1>4. QED BY <1>1, <1>2, <1>3 DEF Follows

\* A response in the pipe of a request that waits for it, and the step fails it.
FailsBuffered ==
  \E r \in piped : outcome[r] = "pending" /\ outcome'[r] = "failed" /\ r \in Untimed

\* What a step of the client changes.
ClientMoves ==
  /\ piped' \subseteq Request /\ outcome' \in [Request -> Outcome]
  /\ Follows(client, client')
  /\ ~client.owned => client' = client
  /\ \/ told' = told
     \/ told' = told + 1 /\ client.owned /\ ~client.notified /\ client'.notified

LEMMA Rejected == ASSUME outcome \in [Request -> Outcome]
                  PROVE  RejectPending \in [Request -> Outcome]
BY DEF RejectPending, Outcome

LEMMA ClientSteps ==
  ASSUME ClientTypeOK, ClientFits(client, os.exitSeen), ClientEvent
  PROVE  /\ os' \in Os /\ os'.status = os.status /\ (os.exitSeen => os'.exitSeen)
         /\ ClientFits(client', os'.exitSeen) /\ ClientMoves
         /\ FailsBuffered =>
              \/ client.grace /\ ~client'.grace
              \/ client.reap # "off" /\ client'.reap = "off"
<1> USE DEF ClientTypeOK
<1>1. os.exitSeen \in BOOLEAN BY DEF Os
<1>2. ASSUME NEW r \in Request, ChildAnswers(r) \/ Data(r) \/ Timeout(r) \/ WriteFails(r)
      PROVE  /\ os' = os /\ client' = client /\ told' = told
             /\ piped' \subseteq Request /\ outcome' \in [Request -> Outcome]
             /\ ~FailsBuffered
  <2>1. CASE ChildAnswers(r) BY <2>1 DEF ChildAnswers, FailsBuffered
  <2>2. CASE Data(r) BY <2>2 DEF Data, Outcome, FailsBuffered
  <2>3. CASE Timeout(r) BY <2>3 DEF Timeout, Outcome, FailsBuffered
  <2>4. CASE WriteFails(r) BY <2>4 DEF WriteFails, Outcome, FailsBuffered
  <2>5. QED BY <1>2, <2>1, <2>2, <2>3, <2>4
<1>3. CASE \E r \in Request : ChildAnswers(r) \/ Data(r) \/ Timeout(r) \/ WriteFails(r)
  BY <1>2, <1>3 DEF ClientMoves, Follows
<1>4. CASE OnExit
  <2>1. os' \in Os /\ os'.status = os.status /\ os'.exitSeen BY <1>4 DEF OnExit, Os
  <2>2. ClientFits(client', TRUE) /\ Follows(client, client')
    BY <1>4 DEF OnExit, ClientFits, Client, Follows
  <2>3. QED BY <1>4, <2>1, <2>2 DEF OnExit, ClientMoves, FailsBuffered
<1>5. CASE OnClose
  <2>1. os' \in Os /\ os'.status = os.status /\ os'.exitSeen /\ os.exitSeen
    BY <1>5 DEF OnClose, Os
  <2>2. piped' \subseteq Request /\ ~FailsBuffered BY <1>5 DEF OnClose, FailsBuffered
  <2>3. CASE ~client.owned
    BY <1>5, <2>1, <2>2, <2>3 DEF OnClose, ClientMoves, Follows
  <2>4. CASE client.owned
    <3> DEFINE b == [client EXCEPT !.closed = TRUE]
               c == FinishStdio(b)
    <3>1. ClientFits(b, TRUE) /\ Follows(client, b) /\ b.notified = client.notified
      BY <2>1 DEF ClientFits, Client, Follows
    <3>2. ClientFits(c, TRUE) /\ Follows(b, c) /\ c.notified BY <3>1, Finished
    <3>3. /\ client' = IF c.stop = "reaping" THEN Released(c) ELSE c
          /\ told' = IF client.notified THEN told ELSE told + 1
          /\ outcome' \in [Request -> Outcome]
      BY <1>5, <2>4, Rejected DEF OnClose
    <3> HIDE DEF b, c
    <3>4. ClientFits(client', TRUE) /\ Follows(c, client') /\ client'.notified
      BY <3>2, <3>3 DEF ClientFits, Client, Released, Follows
    <3>5. Follows(client, client') BY <3>1, <3>2, <3>4 DEF Follows
    <3>6. client.notified \in BOOLEAN BY DEF Client
    <3>7. QED BY <2>1, <2>2, <2>4, <3>3, <3>4, <3>5, <3>6 DEF ClientMoves
  <2>5. QED BY <2>3, <2>4
<1>6. CASE GraceEnds
  <2>1. client.owned /\ client.notified \in BOOLEAN BY <1>6 DEF GraceEnds, ClientFits, Client
  <2>2. ClientFits(client', os.exitSeen) /\ Follows(client, client')
        /\ client'.notified /\ ~client'.grace
    BY <1>1, <1>6, Finished DEF GraceEnds
  <2>3. /\ os' = os /\ piped' = piped /\ client.grace
        /\ outcome' = IF client.notified THEN outcome ELSE RejectPending
        /\ told' = IF client.notified THEN told ELSE told + 1
    BY <1>6 DEF GraceEnds
  <2>4. piped' \subseteq Request /\ outcome' \in [Request -> Outcome] BY <2>3, Rejected
  <2>5. ClientMoves BY <2>1, <2>2, <2>3, <2>4 DEF ClientMoves
  <2>6. QED BY <2>2, <2>3, <2>5
<1>7. CASE ForceKill
  <2>1. ClientFits(client', os.exitSeen) /\ Follows(client, client')
    BY <1>7 DEF ForceKill, ClientFits, Client, Follows
  <2>2. client.owned BY <1>7 DEF ForceKill, ClientFits, Client
  <2>3. QED BY <1>7, <2>1, <2>2 DEF ForceKill, ClientMoves, FailsBuffered
<1>8. CASE Deadline
  <2>1. client.stop = "reaping" /\ client.reap # "off" BY <1>8 DEF Deadline, ClientFits
  <2>2. ClientFits(client', os.exitSeen) /\ Follows(client, client') /\ client'.reap = "off"
    BY <1>8, <2>1 DEF Deadline, Reaped, Released, Kept, alive, ClientFits, Client, Follows
  <2>3. QED BY <1>8, <2>1, <2>2, Rejected DEF Deadline, ClientMoves, ClientFits
<1>9. QED BY <1>3, <1>4, <1>5, <1>6, <1>7, <1>8 DEF ClientEvent

-----------------------------------------------------------------------------
(***************************************************************************)
(* How the host stops.                                                     *)
(***************************************************************************)
\* stop(code) of a host that does not stop yet and has the fields h.
StopShape(h, code) ==
  /\ host' \in HostFields
  /\ host'.phase = IF client'.stop = "reaping" THEN "reaping" ELSE "draining"
  /\ host'.intent = IF h.intent = "none" THEN code ELSE h.intent
  /\ host'.childOwned = h.childOwned /\ host'.failed = h.failed /\ host'.exits = h.exits
  /\ ~host'.timer
  /\ host'.runtime = "none" <=> h.runtime = "none"
  /\ term' = IF Unbuilt(h) \/ (h.runtime = "on" /\ host'.intent # "100") THEN "normal" ELSE term
  /\ ready' = (ready \/ Unbuilt(h))

LEMMA HostStops ==
  ASSUME NEW h \in HostFields, h.phase \in Up, NEW code \in Code,
         NEW seen \in BOOLEAN, NEW c, ClientFits(c, seen), StopHost(h, c, code)
  PROVE  /\ StopShape(h, code) /\ ClientFits(client', seen) /\ Follows(c, client')
         /\ c.owned => client'.notified /\ client'.stop # "no"
<1> DEFINE d == Record(h, code)
<1>1. d \in HostFields /\ d.intent = IF h.intent = "none" THEN code ELSE h.intent
  BY DEF HostFields, Record
<1>2. /\ d.phase = h.phase /\ d.childOwned = h.childOwned /\ d.failed = h.failed
      /\ d.exits = h.exits /\ d.runtime = h.runtime
  BY DEF HostFields, Record
<1>3. /\ client' = StopChild(c) /\ host' = Cleared(d, client')
      /\ term' = IF Unbuilt(d) \/ (d.runtime = "on" /\ d.intent # "100") THEN "normal" ELSE term
      /\ ready' = (ready \/ Unbuilt(d))
  BY DEF StopHost, Up, Down
<1> HIDE DEF d
<1>4. /\ host' \in HostFields /\ host'.intent = d.intent /\ host'.childOwned = d.childOwned
      /\ host'.phase = IF client'.stop = "reaping" THEN "reaping" ELSE "draining"
      /\ host'.failed = d.failed /\ host'.exits = d.exits /\ ~host'.timer
      /\ host'.runtime = "none" <=> d.runtime = "none"
  BY <1>1, <1>3 DEF HostFields, Cleared, Down
<1>5. /\ ClientFits(client', seen) /\ Follows(c, client')
      /\ c.owned => client'.notified /\ client'.stop # "no"
  BY <1>3, Stopped
<1>6. Unbuilt(d) = Unbuilt(h) BY <1>2 DEF Unbuilt
<1>7. QED BY <1>1, <1>2, <1>3, <1>4, <1>5, <1>6 DEF StopShape

\* The first reason stands, and an exit is heard of once.
ReasonKept == /\ host.intent # "none" =>
                   host'.intent = host.intent \/ (host'.failed /\ host'.intent = "1")
              /\ told' > told => told = 0 /\ ~Stopping

\* Any step that leaves the child to its client.
ClientProgress ==
  /\ os' \in Os /\ os'.status = os.status /\ (os.exitSeen => os'.exitSeen)
  /\ ClientFits(client', os'.exitSeen) /\ ClientMoves
  /\ launcher' = launcher /\ life' = life /\ ended' = ended
  /\ signals' \in 0..MaxSignals /\ errors' \in 0..MaxErrors

LEMMA ToldTypes == ASSUME HostInv, ClientProgress
                   PROVE  ClientTypeOK' /\ told' \in Nat
BY DEF HostInv, HostTypeOK, ClientTypeOK, ClientProgress, ClientMoves, ClientFits, Os

\* A host that owns the child is stopped, or already stops.
LEMMA OwnerStops ==
  ASSUME HostInv, ClientProgress, host.childOwned, host.phase # "stopped",
         NEW h \in HostFields, NEW code \in Code,
         h = host \/ h = [host EXCEPT !.exits = TRUE],
         code = "100" => h.exits /\ os.status = "100",
         IF h.phase \in Down THEN host' = h /\ term' = term /\ ready' = ready
         ELSE StopShape(h, code) /\ (client.owned => client'.notified /\ client'.stop # "no"),
         session' \in {session, "over"}, run' = run \/ (run = "racing" /\ run' = "closing"),
         entry' = entry \/ entry' = [entry EXCEPT !.signalled = TRUE], file' = file
  PROVE  HostInv' /\ ReasonKept
<1> USE DEF HostInv
<1>1. /\ h.phase = host.phase /\ h.intent = host.intent /\ h.childOwned = host.childOwned
      /\ h.failed = host.failed /\ h.runtime = host.runtime /\ h.timer = host.timer
      /\ host.exits => h.exits
  BY DEF HostTypeOK, HostFields
<1>2. /\ entry' \in Entry /\ entry'.pc = entry.pc /\ entry'.relay = entry.relay
      /\ entry'.reap = entry.reap /\ entry'.status = entry.status
      /\ entry'.signalled => entry.signalled \/ host.childOwned
  BY DEF HostTypeOK, Entry
<1>3. run \in Running /\ run # "returned" /\ ~Gone /\ entry.reap = "off" /\ entry.relay = "no"
  BY DEF Owning, Reasoned, Left, Gone, Running
<1>4. /\ run' \in Running \ {"returned"} /\ ~Gone' /\ entry'.reap = "off" /\ entry'.relay = "no"
      /\ entry'.pc = "host"
  BY <1>2, <1>3 DEF Owning, Gone, Running
<1>5. HostTypeOK'
  <2>1. host' \in HostFields BY DEF StopShape
  <2>2. term' \in {"normal", "retained"} /\ ready' \in BOOLEAN
    BY DEF StopShape, HostTypeOK
  <2>3. run' \in {"none", "racing", "closing", "rethrowing", "returned", "threw"}
    BY <1>4 DEF Running
  <2>4. ClientTypeOK' BY ToldTypes
  <2>5. QED BY <1>2, <2>1, <2>2, <2>3, <2>4 DEF HostTypeOK, ClientProgress
<1>6. CASE Stopping
  <2>1. host' = h /\ term' = term /\ ready' = ready BY <1>1, <1>6 DEF Stopping
  <2>2. Listening' BY <1>1, <1>6, <2>1 DEF Listening, Stopping, ClientProgress, ClientMoves, Follows
  <2>3. Owning' BY <1>1, <1>2, <1>3, <1>4, <1>6, <2>1 DEF Owning, Stopping, Gone
  <2>4. Reasoned'
    BY <1>1, <1>2, <1>4, <1>6, <2>1 DEF Reasoned, Stopping, ClientProgress, Running
  <2>5. Left' BY <1>1, <1>2, <1>3, <1>4, <2>1 DEF Left, Gone, ClientProgress
  <2>6. Screen'
    BY <1>1, <1>3, <1>4, <1>6, <2>1
    DEF Screen, Stopping, Reload, ClientProgress, TerminalRestored, Left
  <2>7. ReasonKept
    BY <1>1, <1>6, <2>1 DEF ReasonKept, ClientProgress, ClientMoves, Listening, HostTypeOK, ClientTypeOK
  <2>8. QED BY <1>5, <2>2, <2>3, <2>4, <2>5, <2>6, <2>7 DEF ClientProgress
<1>7. CASE ~Stopping
  <2>1. /\ StopShape(h, code) /\ host.runtime = "on" /\ ~Unbuilt(h)
        /\ client.owned => client'.notified /\ client'.stop # "no"
    BY <1>1, <1>7 DEF Stopping, Owning, Unbuilt
  <2>2. host'.phase \in {"reaping", "draining"} /\ Stopping'
    BY <2>1 DEF StopShape, Stopping, Down
  <2>3. Listening'
    BY <1>1, <2>1, <2>2 DEF Listening, StopShape, ClientProgress, ClientMoves, Follows
  <2>4. Owning' BY <1>1, <1>3, <1>4, <2>1, <2>2 DEF Owning, StopShape, Gone
  <2>5. Reasoned'
    <3>1. client.owned \in BOOLEAN /\ client'.stop \in {"no", "reaping", "done"}
      BY DEF ClientProgress, ClientFits, Client
    <3>2. client'.stop # "no"
      BY <2>1, <3>1 DEF Listening, StopShape, ClientProgress, ClientMoves
    <3>3. host'.phase = "draining" => os'.exitSeen
      BY <2>1, <3>1, <3>2 DEF StopShape, ClientProgress, ClientFits
    <3>4. QED
      BY <1>1, <1>4, <1>7, <2>1, <2>2, <3>3 DEF Reasoned, StopShape, ClientProgress, Code
  <2>6. Left' BY <1>1, <1>2, <1>3, <1>4, <2>1 DEF Left, Gone, StopShape, ClientProgress
  <2>7. Screen'
    BY <1>1, <1>3, <1>4, <2>1, <2>2
    DEF Screen, StopShape, Reload, ClientProgress, TerminalRestored, Left, Reasoned
  <2>8. ReasonKept
    BY <1>1, <1>7, <2>1
    DEF ReasonKept, StopShape, ClientProgress, ClientMoves, Listening, HostTypeOK, ClientTypeOK
  <2>9. QED BY <1>5, <2>3, <2>4, <2>5, <2>6, <2>7, <2>8 DEF ClientProgress
<1>8. QED BY <1>6, <1>7

\* A step of the client, as the host hears of it.
LEMMA HostHears ==
  ASSUME HostInv, ClientProgress, NEW s \in ChildStatus \cup {"error"},
         s = "100" => os.status = "100", Hears(s), ~Gone, UNCHANGED entryVars
  PROVE  HostInv' /\ ReasonKept
<1> USE DEF HostInv
<1>1. session' = session /\ run' = run /\ entry' = entry /\ file' = file
  BY DEF Hears, entryVars
<1>2. client.owned \in BOOLEAN /\ os'.exitSeen \in BOOLEAN /\ ClientTypeOK'
  BY ToldTypes DEF ClientFits, Client, ClientProgress, Os
<1>3. ASSUME told' # told
      PROVE  /\ client.owned /\ ~client.notified /\ client'.notified /\ told = 0 /\ told' = 1
             /\ ~Stopping /\ host.childOwned /\ host.runtime = "on" /\ host.phase # "stopped"
  BY <1>3 DEF ClientProgress, ClientMoves, Listening, Owning, Stopping, Down
<1>4. CASE told' # told /\ Deliberate(s)
  <2> DEFINE h == [host EXCEPT !.exits = TRUE]
  <2>1. h \in HostFields /\ h.exits /\ h.phase = host.phase BY DEF HostTypeOK, HostFields
  <2>2. StopHost(h, client', s) /\ s \in Code
    BY <1>4 DEF Hears, ChildExited, StopAndExit, Deliberate, Code
  <2> HIDE DEF h
  <2>3. h.phase \in Up BY <1>3, <1>4, <2>1 DEF Stopping, HostFields
  <2>4. /\ StopShape(h, s)
        /\ client'.owned => client'.notified /\ client'.stop # "no"
    BY <1>2, <2>1, <2>2, <2>3, HostStops DEF ClientProgress
  <2>5. h.phase \notin Down BY <1>3, <1>4, <2>1 DEF Stopping
  <2>6. client'.notified /\ client'.stop # "no"
    BY <1>3, <1>4, <2>4 DEF ClientProgress, ClientMoves, Follows
  <2>7. QED BY <1>1, <1>3, <1>4, <2>1, <2>2, <2>4, <2>5, <2>6, OwnerStops DEF h
<1>5. CASE told' # told /\ ~Deliberate(s)
  <2>1. host' = [Record(host, "1") EXCEPT !.timer = ~Stopping] /\ term' = term /\ ready' = ready
    BY <1>5 DEF Hears, ChildExited
  <2>2. /\ host' \in HostFields /\ host'.phase = host.phase /\ host'.childOwned = host.childOwned
        /\ host'.intent = IF host.intent = "none" THEN "1" ELSE host.intent
        /\ host'.failed = host.failed /\ host'.exits = host.exits /\ host'.runtime = host.runtime
    BY <2>1 DEF HostTypeOK, HostFields, Record, Code
  <2>3. HostTypeOK' BY <1>1, <1>2, <2>1, <2>2 DEF HostTypeOK, ClientProgress
  <2>4. Listening' BY <1>3, <1>5, <2>2 DEF Listening, Stopping, ClientProgress, ClientMoves, Follows
  <2>5. Owning' BY <1>1, <1>3, <1>5, <2>1, <2>2 DEF Owning, Stopping, Gone, ClientProgress
  <2>6. Reasoned' BY <1>1, <1>3, <1>5, <2>2 DEF Reasoned, Stopping, ClientProgress, Down
  <2>7. Left' BY <1>1, <1>3, <1>5, <2>1, <2>2 DEF Left, Gone, ClientProgress, Reasoned, Stopping, Down
  <2>8. Screen'
    BY <1>1, <1>3, <1>5, <2>1, <2>2
    DEF Screen, Stopping, Reload, ClientProgress, TerminalRestored, Unrestored, Left, Gone, Reasoned, Down
  <2>9. ReasonKept BY <1>3, <1>5, <2>2 DEF ReasonKept
  <2>10. QED BY <2>3, <2>4, <2>5, <2>6, <2>7, <2>8, <2>9 DEF ClientProgress
<1>6. CASE told' = told /\ host.phase = "reaping" /\ client'.stop # "reaping"
  <2>1. StopSettles BY <1>6 DEF Hears
  <2>2. /\ host' \in HostFields /\ host'.phase = "draining" /\ host'.childOwned = host.childOwned
        /\ host'.exits = host.exits /\ host'.runtime = host.runtime /\ host'.timer = host.timer
        /\ \/ /\ client'.stop = "done" /\ host'.intent = host.intent /\ host'.failed = host.failed
              /\ term' = term /\ ready' = ready
           \/ /\ host'.intent = "1" /\ host'.failed
              /\ term' = IF host.intent = "100" THEN "normal" ELSE term
              /\ ready' = (ready \/ host.intent = "100")
    BY <2>1 DEF StopSettles, HostTypeOK, HostFields, Down, Code
  <2>3. Stopping /\ Stopping' BY <1>6, <2>2 DEF Stopping, Down
  <2>4. HostTypeOK' BY <1>1, <1>2, <2>2 DEF HostTypeOK, ClientProgress
  <2>5. Listening' BY <1>6, <2>2, <2>3 DEF Listening, ClientProgress, ClientMoves, Follows
  <2>6. Owning' BY <1>1, <1>6, <2>2, <2>3 DEF Owning, Gone, ClientProgress, NewHost
  <2>7. Reasoned'
    <3>1. client'.stop = "done" => os'.exitSeen BY DEF ClientProgress, ClientFits
    <3>2. QED BY <1>1, <1>6, <2>2, <2>3, <3>1 DEF Reasoned, ClientProgress
  <2>8. Left' BY <1>1, <1>6, <2>2, <2>3 DEF Left, Gone, ClientProgress, Reasoned
  <2>9. Screen'
    <3>1. host.childOwned => term' = "normal" \/ (host'.intent = "100" /\ ~host'.failed)
      BY <2>2, <2>3 DEF Screen
    <3>2. term' \in {term, "normal"} /\ (ready' => ready \/ term' = "normal")
      BY <2>2 DEF HostTypeOK
    <3>3. ended' = "no" BY DEF Left, ClientProgress
    <3>4. QED
      BY <1>1, <1>6, <2>2, <2>3, <3>1, <3>2, <3>3
      DEF Screen, Reload, ClientProgress, TerminalRestored, Gone
  <2>10. ReasonKept BY <1>6, <2>2, <2>3 DEF ReasonKept, HostTypeOK, ClientTypeOK
  <2>11. QED BY <2>4, <2>5, <2>6, <2>7, <2>8, <2>9, <2>10 DEF ClientProgress
<1>7. CASE told' = told /\ ~(host.phase = "reaping" /\ client'.stop # "reaping")
  <2>1. host' = host /\ term' = term /\ ready' = ready BY <1>7 DEF Hears
  <2>2. HostTypeOK' BY <1>1, <1>2, <2>1 DEF HostTypeOK, ClientProgress
  <2>3. Listening' BY <1>7, <2>1 DEF Listening, Stopping, ClientProgress, ClientMoves, Follows
  <2>4. Owning' BY <1>1, <2>1 DEF Owning, Stopping, Gone, ClientProgress, ClientMoves, NewClient
  <2>5. Reasoned' BY <1>1, <2>1 DEF Reasoned, Stopping, ClientProgress
  <2>6. Left' BY <1>1, <2>1 DEF Left, Gone, ClientProgress
  <2>7. Screen' BY <1>1, <2>1 DEF Screen, Stopping, Reload, Gone, ClientProgress, TerminalRestored, Unrestored
  <2>8. ReasonKept BY <1>7, <2>1 DEF ReasonKept, HostTypeOK, ClientTypeOK
  <2>9. QED BY <2>2, <2>3, <2>4, <2>5, <2>6, <2>7, <2>8 DEF ClientProgress
<1>8. QED BY <1>4, <1>5, <1>6, <1>7

-----------------------------------------------------------------------------
(***************************************************************************)
(* The steps of the child, the session, and what ends a host.              *)
(***************************************************************************)
LEMMA Stutters == ASSUME HostInv, UNCHANGED vars PROVE HostInv' /\ ReasonKept
<1>1. UNCHANGED vars /\ told \in Nat BY DEF HostInv, HostTypeOK, ClientTypeOK
<1>2. HostInv'
  BY <1>1
  DEF HostInv, HostTypeOK, ClientTypeOK, Listening, Owning, Reasoned, Left, Screen, TerminalRestored,
      Unrestored, Reload, Stopping, Gone, Agreed, vars, clientVars, hostVars, entryVars, runVars
<1>3. QED BY <1>1, <1>2 DEF ReasonKept, vars, clientVars, hostVars

LEMMA Bounds ==
  ASSUME HostInv
  PROVE  /\ signals \in 0..MaxSignals /\ errors \in 0..MaxErrors
         /\ signals < MaxSignals => signals + 1 \in 0..MaxSignals
         /\ errors < MaxErrors => errors + 1 \in 0..MaxErrors
BY HostAssumption DEF HostInv, HostTypeOK

LEMMA NodeEvents == ASSUME HostInv, NodeEvent PROVE HostInv' /\ ReasonKept
<1>1. ClientTypeOK /\ ClientFits(client, os.exitSeen) BY DEF HostInv, HostTypeOK
<1>2. ClientProgress BY <1>1, Bounds, ClientSteps DEF NodeEvent, ClientProgress, runVars
<1>3. os.status \in ChildStatus BY <1>1 DEF ClientTypeOK, Os
<1>4. QED BY <1>2, <1>3, HostHears DEF NodeEvent

LEMMA TransportFailures == ASSUME HostInv, TransportFails PROVE HostInv' /\ ReasonKept
<1>1. ClientTypeOK /\ ClientFits(client, os.exitSeen) /\ os.exitSeen \in BOOLEAN
  BY DEF HostInv, HostTypeOK, ClientTypeOK, Os
<1>2. /\ client.owned /\ ~client.notified /\ client' = LostClient(client) /\ told' = told + 1
      /\ outcome' = RejectPending /\ os' = os /\ piped' = piped
  BY DEF TransportFails, ProtocolFails
<1>3. ClientMoves /\ ClientFits(client', os'.exitSeen)
  BY <1>1, <1>2, Lost, Rejected DEF ClientMoves, ClientTypeOK
<1>4. ClientProgress
  BY <1>1, <1>2, <1>3, Bounds DEF TransportFails, ClientProgress, ClientTypeOK
<1>5. QED BY <1>4, HostHears DEF TransportFails

LEMMA ChildDeaths ==
  ASSUME HostInv, NEW s \in {"0", "1", "100"}, ChildExits(s)
  PROVE  HostInv' /\ ReasonKept
<1> USE DEF HostInv
<1>1. /\ ~Gone /\ os.status = "none" /\ os' = [os EXCEPT !.status = s]
      /\ s = "100" => life < MaxReloads
      /\ UNCHANGED <<client, piped, outcome, told, entryVars, hostVars, runVars>>
  BY DEF ChildExits, ChildDies
<1>2. os' \in Os /\ os'.status = s /\ os'.exitSeen = os.exitSeen
  BY <1>1 DEF HostTypeOK, ClientTypeOK, Os, ChildStatus
<1>3. HostTypeOK' BY <1>1, <1>2 DEF HostTypeOK, ClientTypeOK, hostVars, entryVars, runVars
<1>4. ClientFits(client, os.exitSeen)' /\ Listening' /\ Owning'
  BY <1>1, <1>2 DEF Listening, Owning, Stopping, Gone, hostVars, entryVars
<1>5. Reasoned' BY <1>1, <1>2 DEF Reasoned, Stopping, hostVars, entryVars, runVars
<1>6. Left' /\ Screen'
  BY <1>1, <1>2
  DEF Left, Screen, Stopping, Gone, Reload, TerminalRestored, Unrestored, Agreed, hostVars, entryVars, runVars
<1>7. ReasonKept BY <1>1 DEF ReasonKept, hostVars, HostTypeOK, ClientTypeOK
<1>8. QED BY <1>3, <1>4, <1>5, <1>6, <1>7

\* StopHost of a host that owns the child, for a reason of its own.
LEMMA OwnStop ==
  ASSUME HostInv, host.childOwned, host.phase # "stopped", NEW code \in {"0", "1", "130"},
         NEW h, h = host \/ h = [host EXCEPT !.exits = TRUE],
         StopHost(h, client, code), UNCHANGED <<os, piped, outcome, told, launcher, life, ended, file>>,
         session' \in {session, "over"}, run' = run \/ (run = "racing" /\ run' = "closing"),
         entry' = entry \/ entry' = [entry EXCEPT !.signalled = TRUE],
         signals' \in 0..MaxSignals, errors' \in 0..MaxErrors
  PROVE  HostInv' /\ ReasonKept
<1>1. /\ ClientTypeOK /\ host \in HostFields /\ ClientFits(client, os.exitSeen)
      /\ os.exitSeen \in BOOLEAN /\ Follows(client, client)
  BY DEF HostInv, HostTypeOK, ClientTypeOK, Os, Client, ClientFits, Follows
<1>2. h \in HostFields /\ code \in Code /\ code # "100" BY <1>1 DEF HostFields, Code
<1>3. CASE h.phase \in Down
  <2>1. host' = h /\ client' = client /\ term' = term /\ ready' = ready BY <1>3 DEF StopHost
  <2>2. ClientProgress BY <1>1, <2>1 DEF ClientProgress, ClientMoves, ClientTypeOK
  <2>3. QED BY <1>2, <1>3, <2>1, <2>2, OwnerStops
<1>4. CASE h.phase \notin Down
  <2>1. h.phase \in Up BY <1>2, <1>4 DEF HostFields
  <2>2. /\ StopShape(h, code) /\ ClientFits(client', os.exitSeen) /\ Follows(client, client')
        /\ client.owned => client'.notified /\ client'.stop # "no"
    BY <1>1, <1>2, <2>1, HostStops
  <2>3. ~client.owned => client' = client BY <1>4 DEF StopHost, StopChild
  <2>4. ClientProgress BY <1>1, <2>2, <2>3 DEF ClientProgress, ClientMoves, ClientTypeOK
  <2>5. QED BY <1>2, <1>4, <2>2, <2>4, OwnerStops
<1>5. QED BY <1>3, <1>4

LEMMA Quits ==
  ASSUME HostInv, NEW code \in {"0", "130"}, Ends(UserQuits(code))
  PROVE  HostInv' /\ ReasonKept
<1>1. /\ InHost /\ host.runtime = "on" /\ StopHost(host, client, code) /\ errors' = errors
      /\ UNCHANGED <<os, piped, outcome, told, entryVars, session, run, launcher, life, ended, signals>>
  BY DEF Ends, UserQuits
<1>2. host.childOwned BY <1>1 DEF HostInv, Owning
<1>3. CASE host.phase = "stopped"
  <2>1. UNCHANGED vars BY <1>1, <1>3 DEF StopHost, Down, vars, clientVars, hostVars, runVars
  <2>2. QED BY <2>1, Stutters
<1>4. CASE host.phase # "stopped" BY <1>1, <1>2, <1>4, Bounds, OwnStop DEF entryVars
<1>5. QED BY <1>3, <1>4

LEMMA Crashes ==
  ASSUME HostInv, Ends(CrashTimer) \/ Ends(UnhandledError)
  PROVE  HostInv' /\ ReasonKept
<1>1. /\ InHost /\ (host.timer \/ (host.childOwned /\ host.phase # "stopped"))
      /\ StopAndExit(client, "1")
      /\ errors' = errors \/ (errors < MaxErrors /\ errors' = errors + 1)
      /\ UNCHANGED <<os, piped, outcome, told, entryVars, session, run, launcher, life, ended, signals>>
  BY DEF Ends, CrashTimer, UnhandledError
<1>2. host.childOwned /\ host.phase # "stopped"
  BY <1>1 DEF HostInv, Owning, Reasoned, Stopping, Down
<1>3. QED BY <1>1, <1>2, Bounds, OwnStop DEF StopAndExit, entryVars

\* A step of the session that stops nothing.
LEMMA SessionGoesOn ==
  ASSUME HostInv, InHost, host.childOwned, host' \in HostFields,
         host'.phase = host.phase \/ (host.phase \in Up /\ host'.phase \in Up),
         host'.intent = host.intent, host'.childOwned = host.childOwned, host'.timer = host.timer,
         host'.failed = host.failed, host'.exits = host.exits, host'.runtime = host.runtime,
         session' \in {"none", "shell", "hydrating", "painting", "polling", "over"},
         outcome' \in [Request -> Outcome],
         UNCHANGED <<os, client, piped, told, entryVars, run, term, ready, runVars>>
  PROVE  HostInv' /\ ReasonKept
<1> USE DEF HostInv, InHost, entryVars, runVars
<1>1. Stopping' <=> Stopping BY DEF Stopping, Up, Down
<1>2. host.phase \in Down \/ host'.phase \in Down => host'.phase = host.phase BY DEF Up, Down
<1>3. HostTypeOK' BY DEF HostTypeOK, ClientTypeOK
<1>4. ClientFits(client, os.exitSeen)' /\ Listening' BY <1>1 DEF Listening
<1>5. Owning' BY <1>1 DEF Owning, Gone
<1>6. Reasoned' BY <1>1, <1>2 DEF Reasoned, Down
<1>7. Left' BY DEF Left, Gone
<1>8. Screen' BY <1>1 DEF Screen, Reload, Gone, TerminalRestored, Unrestored
<1>9. ReasonKept BY DEF ReasonKept, HostTypeOK, ClientTypeOK
<1>10. QED BY <1>3, <1>4, <1>5, <1>6, <1>7, <1>8, <1>9

LEMMA SessionFails ==
  ASSUME HostInv, InHost, host.childOwned, SessionThrows,
         UNCHANGED <<os, piped, told, entryVars, runVars>>
  PROVE  HostInv' /\ ReasonKept
<1>1. /\ StopHost(host, client, "1") /\ session' = "over" /\ outcome' = outcome
      /\ run' = IF run = "racing" THEN "closing" ELSE run
  BY DEF SessionThrows, Throw
<1>2. CASE host.phase = "stopped"
  <2>1. host' = host /\ client' = client /\ term' = term /\ ready' = ready
    BY <1>1, <1>2 DEF StopHost, Down
  <2>2. run' = run BY <1>1, <1>2 DEF HostInv, Reasoned
  <2>3. QED BY <1>1, <2>1, <2>2, SessionGoesOn DEF HostInv, HostTypeOK, ClientTypeOK
<1>3. CASE host.phase # "stopped" BY <1>1, <1>3, Bounds, OwnStop DEF entryVars, runVars
<1>4. QED BY <1>2, <1>3

LEMMA SendTypes == ASSUME HostInv, NEW r \in Request, Sends(r)
                   PROVE  outcome' \in [Request -> Outcome]
BY DEF Sends, Outcome, HostInv, HostTypeOK, ClientTypeOK

LEMMA Sessions == ASSUME HostInv, Session PROVE HostInv' /\ ReasonKept
<1>1. InHost /\ UNCHANGED <<os, piped, told, entryVars, runVars>> BY DEF Session
<1>2. /\ session \notin {"none", "over"} => host.childOwned
      /\ client.owned /\ ~Stopping => host.childOwned
      /\ host \in HostFields /\ outcome \in [Request -> Outcome]
      /\ session \in {"none", "shell", "hydrating", "painting", "polling", "over"}
      /\ Hydrate \in Request
  BY HostAssumption DEF HostInv, Owning, Listening, HostTypeOK, ClientTypeOK
<1>3. CASE SessionThrows /\ session \notin {"none", "over"} BY <1>1, <1>2, <1>3, SessionFails
<1>4. CASE ShellReady
  <2>1. CASE Stopping
    BY <1>1, <1>2, <1>4, <2>1, SessionGoesOn DEF ShellReady
  <2>2. CASE ~Stopping /\ CanSend
    <3>1. /\ session = "shell" /\ Sends(Hydrate) /\ session' = "hydrating"
          /\ host' = [host EXCEPT !.phase = "hydrating"]
          /\ UNCHANGED <<client, run, term, ready>>
      BY <1>4, <2>2 DEF ShellReady
    <3>2. host.phase \in Up BY <1>2, <2>2 DEF Stopping, HostFields
    <3>3. QED BY <1>1, <1>2, <3>1, <3>2, SendTypes, SessionGoesOn DEF HostFields, Up
  <2>3. QED BY <1>3, <1>4, <2>1, <2>2 DEF ShellReady
<1>5. CASE Hydrated
  <2>1. CASE outcome[Hydrate] = "answered"
    BY <1>1, <1>2, <1>5, <2>1, SessionGoesOn DEF Hydrated
  <2>2. QED BY <1>3, <1>5, <2>1 DEF Hydrated
<1>6. CASE SessionReady
  <2>1. /\ session = "painting" /\ session' = "polling"
        /\ host' = IF Stopping THEN host ELSE [host EXCEPT !.phase = "command-ready"]
        /\ UNCHANGED <<client, outcome, run, term, ready>>
    BY <1>6 DEF SessionReady
  <2>2. ~Stopping => host.phase \in Up BY <1>2 DEF Stopping, HostFields
  <2>3. QED BY <1>1, <1>2, <2>1, <2>2, SessionGoesOn DEF HostFields, Up
<1>7. CASE StartStats
  <2>1. /\ session = "polling" /\ session' = "over" /\ host' = [host EXCEPT !.stats = ~Stopping]
        /\ UNCHANGED <<client, outcome, run, term, ready>>
    BY <1>7 DEF StartStats
  <2>2. QED BY <1>1, <1>2, <2>1, SessionGoesOn DEF HostFields
<1>8. CASE ShellFails BY <1>3, <1>8 DEF ShellFails
<1>9. ASSUME NEW r \in Request, SendRequest(r) PROVE HostInv' /\ ReasonKept
  <2>1. /\ host.phase = "command-ready" /\ client.owned /\ Sends(r)
        /\ UNCHANGED <<client, host, session, run, term, ready>>
    BY <1>9 DEF SendRequest, CanSend
  <2>2. host.childOwned BY <1>2, <2>1 DEF Stopping, Down
  <2>3. QED BY <1>1, <1>2, <2>1, <2>2, SendTypes, SessionGoesOn
<1>10. QED BY <1>4, <1>5, <1>6, <1>7, <1>8, <1>9 DEF Session, SessionStep

-----------------------------------------------------------------------------
(***************************************************************************)
(* A host begins.                                                          *)
(***************************************************************************)
\* What the entry hands over.
LEMMA Fresh ==
  ASSUME HostInv, entry.pc = "import"
  PROVE  /\ client = NewClient /\ host = NewHost /\ session = "none" /\ run = "none"
         /\ ready = FALSE /\ told = 0 /\ file = "none" /\ ended = "no" /\ ~Gone
         /\ NewHost \in HostFields /\ ~host.childOwned /\ host.intent = "none" /\ ~Stopping
         /\ os \in Os /\ os.exitSeen \in BOOLEAN /\ outcome \in [Request -> Outcome]
         /\ ~Reload => term = "normal"
         /\ entry.relay = "no" => entry.reap = "off" /\ ~entry.signalled
BY DEF HostInv, HostTypeOK, ClientTypeOK, Owning, Listening, Left, Screen, Gone, NewClient, NewHost,
       HostFields, Up, Down, Stopping, Os, Entry

\* A host that stops in the turn it begins in.
LEMMA StopsAtOnce ==
  ASSUME HostInv, entry.pc = "import", entry.relay = "no", entry' = [entry EXCEPT !.pc = "host"],
         NEW h \in HostFields, NEW code \in Code, StopShape(h, code),
         h.intent = "none", h.runtime = "none", ~h.failed, ClientFits(client', os.exitSeen),
         code = "100" => h.exits /\ os.status = "100" /\ ~h.childOwned,
         client'.owned => client'.notified,
         h.childOwned => (client'.owned \/ client'.stop = "done") /\ client'.stop # "no" /\ run' = "closing",
         session' = "over", run' \in {"rethrowing", "closing"},
         run' = "closing" => h.childOwned \/ os.exitSeen,
         told' = told \/ (told' = told + 1 /\ client'.notified),
         UNCHANGED <<os, piped, outcome, file, runVars>>
  PROVE  HostInv' /\ ReasonKept
<1>1. /\ run = "none" /\ told = 0 /\ file = "none" /\ ended = "no" /\ ~ready /\ ~Stopping
      /\ host.intent = "none"
      /\ ~Reload => term = "normal"
      /\ entry.reap = "off" /\ ~entry.signalled /\ entry \in Entry
  BY Fresh DEF HostInv, HostTypeOK
<1>2. /\ entry' \in Entry /\ entry'.pc = "host" /\ entry'.relay = "no" /\ entry'.reap = "off"
      /\ ~entry'.signalled /\ entry'.status = entry.status
  BY <1>1 DEF Entry
<1>3. /\ host' \in HostFields /\ host'.intent = code /\ host'.childOwned = h.childOwned /\ ~host'.failed
      /\ host'.exits = h.exits /\ ~host'.timer /\ host'.runtime = "none"
      /\ host'.phase = IF client'.stop = "reaping" THEN "reaping" ELSE "draining"
      /\ term' = IF h.childOwned /\ Reload THEN "normal" ELSE term
      /\ ready' = (ready \/ (h.childOwned /\ Reload))
  BY DEF StopShape, Unbuilt
<1>4. host'.phase \in {"reaping", "draining"} /\ Stopping' /\ ~Gone'
  BY <1>2, <1>3 DEF Stopping, Down, Gone
<1>5. /\ term' \in {"normal", "retained"} /\ ready' \in BOOLEAN
      /\ ready' \/ h.childOwned \/ ~Reload => term' = "normal"
  BY <1>1, <1>3 DEF HostInv, HostTypeOK, HostFields
<1>6. HostTypeOK'
  BY <1>1, <1>2, <1>3, <1>5 DEF HostInv, HostTypeOK, ClientTypeOK, ClientFits, runVars
<1>7. Listening' BY <1>1, <1>3, <1>4 DEF Listening
<1>8. Owning' BY <1>2, <1>3, <1>4 DEF Owning, Running
<1>9. Reasoned'
  <2>1. host'.phase = "draining" /\ h.childOwned => os.exitSeen
    BY <1>3 DEF ClientFits, Client
  <2>2. QED
    BY <1>1, <1>2, <1>3, <1>4, <2>1 DEF HostInv, Reasoned, Running, Code, runVars
<1>10. Left' BY <1>1, <1>2, <1>3, <1>4 DEF Left, runVars
<1>11. Screen' BY <1>1, <1>3, <1>4, <1>5 DEF Screen, TerminalRestored, Reload, runVars
<1>12. ReasonKept BY <1>1 DEF ReasonKept
<1>13. QED BY <1>6, <1>7, <1>8, <1>9, <1>10, <1>11, <1>12 DEF HostInv

LEMMA HostBegins == ASSUME HostInv, HostStarts PROVE HostInv' /\ ReasonKept
<1>1. /\ entry.pc = "import" /\ entry.relay = "no" /\ entry' = [entry EXCEPT !.pc = "host"]
      /\ UNCHANGED <<os, piped, file, runVars>>
  BY DEF HostStarts
<1> DEFINE o == [NewClient EXCEPT !.owned = TRUE]
           l == [NewClient EXCEPT !.owned = TRUE, !.stream = TRUE]
<1>2. /\ ClientFits(NewClient, os.exitSeen) /\ ~NewClient.owned /\ NewClient.stop = "no"
      /\ ClientFits(o, os.exitSeen) /\ Follows(o, o)
      /\ ClientFits(l, os.exitSeen) /\ l.owned
  BY DEF ClientFits, Client, NewClient, Follows
<1>3. NewHost \in HostFields /\ NewHost.phase \in Up /\ client = NewClient /\ host = NewHost
      /\ os.exitSeen \in BOOLEAN /\ told = 0
  BY <1>1, Fresh DEF NewHost, Up
<1> HIDE DEF o, l
<1>4. CASE SetupThrows
  <2>1. /\ StopHost(host, client, "1") /\ session' = "over" /\ run' = "rethrowing"
        /\ outcome' = outcome /\ told' = told
    BY <1>4 DEF SetupThrows, Throw
  <2>2. /\ StopShape(host, "1") /\ ClientFits(client', os.exitSeen) /\ Follows(client, client')
        /\ "1" \in Code
    BY <1>2, <1>3, <2>1, HostStops DEF Code
  <2>3. ~client'.owned BY <1>2, <1>3, <2>2 DEF Follows
  <2>4. host.intent = "none" /\ host.runtime = "none" /\ ~host.failed /\ ~host.childOwned
    BY <1>3 DEF NewHost
  <2>5. QED BY <1>1, <1>3, <2>1, <2>2, <2>3, <2>4, StopsAtOnce
<1>5. CASE os.exitSeen /\ AdoptDead
  <2> DEFINE s == IF os.status = "unspawned" THEN "error" ELSE os.status
             c == LostClient(o)
             h == [host EXCEPT !.exits = Deliberate(s)]
             code == IF Deliberate(s) THEN s ELSE "1"
  <2>1. /\ StopHost(h, c, code) /\ session' = "over" /\ told' = told + 1 /\ outcome' = outcome
        /\ run' = IF s = "error" THEN "rethrowing" ELSE "closing"
    BY <1>5 DEF AdoptDead, o
  <2>2. code \in Code /\ (code = "100" => Deliberate(s) /\ os.status = "100")
    BY DEF Code, Deliberate
  <2>3. ClientFits(c, os.exitSeen) /\ c.notified BY <1>2, <1>3, Lost
  <2> HIDE DEF s, c, code
  <2>4. Deliberate(s) \in BOOLEAN BY DEF Deliberate
  <2>5. /\ h \in HostFields /\ h.phase \in Up /\ h.intent = "none" /\ h.runtime = "none"
        /\ ~h.failed /\ ~h.childOwned /\ h.exits = Deliberate(s)
    BY <1>3, <2>4 DEF NewHost, HostFields, Up
  <2> HIDE DEF h
  <2>6. /\ StopShape(h, code) /\ ClientFits(client', os.exitSeen) /\ Follows(c, client')
    BY <1>3, <2>1, <2>2, <2>3, <2>5, HostStops
  <2>7. client'.notified BY <2>3, <2>6 DEF Follows
  <2>8. QED BY <1>1, <1>5, <2>1, <2>2, <2>5, <2>6, <2>7, StopsAtOnce
<1>6. CASE AdoptUnbuilt
  <2> DEFINE h == [host EXCEPT !.childOwned = TRUE, !.phase = "child-owned"]
  <2>1. /\ StopHost(h, l, "1") /\ session' = "over" /\ run' = "closing"
        /\ outcome' = outcome /\ told' = told /\ "1" \in Code
    BY <1>6 DEF AdoptUnbuilt, Code, l
  <2>2. /\ h \in HostFields /\ h.phase \in Up /\ h.intent = "none" /\ h.runtime = "none"
        /\ ~h.failed /\ h.childOwned
    BY <1>3 DEF NewHost, HostFields, Up
  <2> HIDE DEF h
  <2>3. /\ StopShape(h, "1") /\ ClientFits(client', os.exitSeen)
        /\ Follows(l, client') /\ client'.notified /\ client'.stop # "no"
    BY <1>2, <1>3, <2>1, <2>2, HostStops
  <2>4. client'.owned \/ client'.stop = "done" BY <1>2, <2>3 DEF Follows
  <2>5. QED BY <1>1, <2>1, <2>2, <2>3, <2>4, StopsAtOnce
<1>7. CASE AdoptLive
  <2> DEFINE first == IF Reload THEN "hydrating" ELSE "child-owned"
  <2>1. /\ client' = l /\ term' = "retained" /\ ready' = (ready \/ Reload) /\ run' = "racing"
        /\ host' = [host EXCEPT !.phase = first, !.childOwned = TRUE, !.runtime = "on"]
        /\ session' \in {"hydrating", "shell"} /\ told' = 0
    BY <1>3, <1>7 DEF AdoptLive, l
  <2>2. outcome' \in [Request -> Outcome]
    BY <1>1, <1>7, Fresh, HostAssumption, SendTypes DEF AdoptLive
  <2>3. /\ host' \in HostFields /\ host'.phase \in {"hydrating", "child-owned"} /\ host'.childOwned
        /\ host'.intent = "none" /\ ~host'.failed /\ host'.runtime = "on" /\ ~host'.timer
    BY <1>3, <2>1 DEF NewHost, HostFields, Up
  <2>4. /\ entry' \in Entry /\ entry'.pc = "host" /\ entry'.relay = "no" /\ entry'.reap = "off"
        /\ ~entry'.signalled /\ file = "none" /\ ended = "no"
    BY <1>1, Fresh DEF HostInv, HostTypeOK, Entry
  <2>5. ~Stopping' /\ ~Gone' BY <2>3, <2>4 DEF Stopping, Down, Gone
  <2>6. HostTypeOK'
    BY <1>1, <1>2, <2>1, <2>2, <2>3, <2>4
    DEF HostInv, HostTypeOK, ClientTypeOK, ClientFits, Reload, runVars
  <2>7. ClientFits(client, os.exitSeen)' /\ Listening'
    BY <1>1, <1>2, <2>1, <2>3, <2>5 DEF Listening
  <2>8. Owning' BY <2>1, <2>3, <2>4, <2>5 DEF Owning, Running
  <2>9. Reasoned'
    BY <1>1, <2>1, <2>3, <2>4, <2>5 DEF HostInv, Reasoned, Down, runVars
  <2>10. Left' /\ Screen'
    BY <1>1, <2>1, <2>3, <2>4, <2>5 DEF Left, Screen, TerminalRestored, runVars
  <2>11. ReasonKept BY <1>1, <1>3, <2>1, Fresh DEF ReasonKept
  <2>12. QED BY <2>6, <2>7, <2>8, <2>9, <2>10, <2>11 DEF HostInv
<1>8. QED BY <1>4, <1>5, <1>6, <1>7 DEF HostStarts

-----------------------------------------------------------------------------
(***************************************************************************)
(* The end of a host, and its entry.                                       *)
(***************************************************************************)
LEMMA ImportFailures == ASSUME HostInv, ImportFails PROVE HostInv' /\ ReasonKept
<1>1. /\ entry.pc = "import"
      /\ entry' = [entry EXCEPT !.pc = "caught", !.reap = IF @ = "off" THEN "term" ELSE @]
      /\ UNCHANGED <<clientVars, file, hostVars, runVars>>
  BY DEF ImportFails
<1>2. /\ client = NewClient /\ host = NewHost /\ run = "none" /\ told = 0
      /\ ~host.childOwned /\ host.intent = "none" /\ ended = "no"
  BY <1>1, Fresh
<1>3. /\ entry' \in Entry /\ entry'.pc = "caught" /\ entry'.relay = entry.relay /\ entry'.reap # "off"
      /\ entry'.signalled = entry.signalled /\ ~Gone'
  BY <1>1 DEF HostInv, HostTypeOK, Entry, Gone
<1> USE DEF HostInv
<1>4. HostTypeOK' /\ ClientFits(client, os.exitSeen)' /\ Listening'
  BY <1>1, <1>3
  DEF HostTypeOK, ClientTypeOK, Listening, Stopping, clientVars, hostVars, runVars
<1>5. Owning' BY <1>1, <1>2, <1>3 DEF Owning, Stopping, Running, clientVars, hostVars
<1>6. Reasoned' BY <1>1, <1>2, <1>3 DEF Reasoned, Stopping, Running, clientVars, hostVars, runVars
<1>7. Left' BY <1>1, <1>2, <1>3, Fresh DEF Left, Gone, hostVars, runVars
<1>8. Screen'
  BY <1>1, <1>2, <1>3, Fresh DEF Screen, Reload, Stopping, TerminalRestored, hostVars, runVars
<1>9. ReasonKept BY <1>1, <1>2 DEF ReasonKept, clientVars, hostVars
<1>10. QED BY <1>4, <1>5, <1>6, <1>7, <1>8, <1>9

LEMMA LoopEnds == ASSUME HostInv, LoopEmpties PROVE HostInv' /\ ReasonKept
<1> USE DEF HostInv
<1>1. /\ entry.pc = "host" /\ run = "returned" /\ entry.relay = "no" /\ os.exitSeen
      /\ entry' = [entry EXCEPT !.pc = "gone", !.status = host.intent]
      /\ UNCHANGED <<clientVars, hostVars, file, runVars>>
  BY DEF LoopEmpties, InHost
<1>2. /\ host.phase = "stopped" /\ Stopping /\ host.intent # "none" /\ ~host.exits
      /\ entry.reap = "off" /\ ended = "no" /\ host.intent \in Code
      /\ launcher = "bash" => file = host.intent
  BY <1>1 DEF Reasoned, Owning, Left, Gone, Stopping, Down, HostTypeOK, HostFields
<1>3. /\ entry' \in Entry /\ entry'.pc = "gone" /\ entry'.relay = "no" /\ entry'.reap = "off"
      /\ entry'.status = host.intent /\ entry'.signalled = entry.signalled
  BY <1>1, <1>2 DEF HostTypeOK, Entry
<1>4. HostTypeOK' BY <1>1, <1>3 DEF HostTypeOK, ClientTypeOK, clientVars, hostVars, runVars
<1>5. ClientFits(client, os.exitSeen)' /\ Listening'
  BY <1>1 DEF Listening, Stopping, clientVars, hostVars
<1>6. Owning' /\ Reasoned'
  BY <1>1, <1>2, <1>3 DEF Owning, Reasoned, Stopping, Running, Gone, clientVars, hostVars, runVars
<1>7. Left'
  BY <1>1, <1>2, <1>3 DEF Left, Agreed, Gone, Code, clientVars, hostVars, runVars, HostTypeOK
<1>8. Screen' BY <1>1, <1>2, <1>3 DEF Screen, Reload, Stopping, TerminalRestored, hostVars, runVars
<1>9. ReasonKept BY <1>1 DEF ReasonKept, clientVars, hostVars, HostTypeOK, ClientTypeOK
<1>10. QED BY <1>4, <1>5, <1>6, <1>7, <1>8, <1>9

\* The end of stop(): the entry has no reap under way, for its child is dead or
\* the host's (EntryDue).
LEMMA StopEndings == ASSUME HostInv, ~EntryDue, StopEnds PROVE HostInv' /\ ReasonKept
<1> USE DEF HostInv
<1>1. /\ entry.pc = "host" /\ host.phase = "draining" /\ host' = [host EXCEPT !.phase = "stopped"]
      /\ UNCHANGED <<clientVars, session, term, ready, runVars>>
  BY DEF StopEnds, InHost
<1>2. /\ host' \in HostFields /\ host'.phase = "stopped" /\ host'.intent = host.intent
      /\ host'.childOwned = host.childOwned /\ host'.failed = host.failed /\ host'.exits = host.exits
      /\ host'.timer = host.timer /\ host'.runtime = host.runtime
  BY <1>1 DEF HostTypeOK, HostFields, Down
<1>3. /\ Stopping /\ Stopping' /\ host.intent # "none" /\ host.intent \in Code /\ ended = "no" /\ ~Gone
      /\ run \in Running \cup {"rethrowing"} /\ run # "returned"
  BY <1>1, <1>2 DEF Stopping, Down, Reasoned, Left, Owning, Gone, HostTypeOK, HostFields
<1>4. Listening' /\ ClientFits(client, os.exitSeen)'
  BY <1>1, <1>2, <1>3 DEF Listening, clientVars
<1>5. ReasonKept BY <1>1, <1>2 DEF ReasonKept, clientVars, HostTypeOK, ClientTypeOK
<1>6. CASE run = "rethrowing"
  <2>1. /\ run' = "threw" /\ file' = file /\ ~host.childOwned
        /\ entry' = [entry EXCEPT !.pc = "caught", !.reap = IF @ = "off" THEN "term" ELSE @]
    BY <1>6 DEF StopEnds, Owning, Running
  <2>2. /\ entry' \in Entry /\ entry'.pc = "caught" /\ entry'.relay = entry.relay
        /\ entry'.reap # "off" /\ entry'.signalled = entry.signalled /\ ~Gone'
    BY <2>1 DEF HostTypeOK, Entry, Gone
  <2>3. HostTypeOK' BY <1>1, <1>2, <2>1, <2>2 DEF HostTypeOK, ClientTypeOK, clientVars, runVars
  <2>4. Owning' BY <1>1, <1>2, <1>3, <2>1, <2>2 DEF Owning, Running, clientVars
  <2>5. Reasoned' BY <1>1, <1>2, <1>3, <2>1, <2>2 DEF Reasoned, Running, clientVars, runVars
  <2>6. Left' BY <1>1, <1>2, <1>3, <1>6, <2>1, <2>2 DEF Left, runVars
  <2>7. Screen'
    BY <1>1, <1>2, <1>3, <2>1, <2>2 DEF Screen, TerminalRestored, Reload, runVars
  <2>8. QED BY <1>4, <1>5, <2>3, <2>4, <2>5, <2>6, <2>7
<1>7. CASE run # "rethrowing"
  <2>1. /\ run' = "returned" /\ file' = IF launcher = "bash" THEN host.intent ELSE file
        /\ entry' = IF host.exits \/ (host.childOwned /\ host.failed)
                    THEN [entry EXCEPT !.pc = "gone", !.status = host.intent] ELSE entry
    BY <1>7 DEF StopEnds
  <2>2. run \in Running /\ (host.childOwned \/ os.exitSeen) BY <1>3, <1>7 DEF Owning
  <2>3. entry.reap = "off" /\ entry.relay = "no"
    BY <1>3, <2>2 DEF EntryDue, Owning
  <2>4. os.exitSeen \/ host.failed BY <1>1, <2>2 DEF Reasoned
  <2>5. /\ entry' \in Entry /\ entry'.relay = "no" /\ entry'.reap = "off"
        /\ entry'.signalled = entry.signalled
        /\ \/ entry'.pc = "gone" /\ entry'.status = host.intent
           \/ entry'.pc = "host" /\ ~host.exits /\ os.exitSeen
    BY <1>1, <1>3, <2>1, <2>2, <2>3, <2>4 DEF HostTypeOK, HostFields, Entry
  <2>6. HostTypeOK'
    BY <1>1, <1>2, <1>3, <2>1, <2>5 DEF HostTypeOK, ClientTypeOK, clientVars, runVars
  <2>7. Owning' BY <1>1, <1>2, <1>3, <2>1, <2>2, <2>5 DEF Owning, Running, Gone, clientVars
  <2>8. Reasoned'
    BY <1>1, <1>2, <1>3, <2>1, <2>2, <2>4, <2>5 DEF Reasoned, Running, clientVars, runVars
  <2>9. Left'
    BY <1>1, <1>2, <1>3, <2>1, <2>5 DEF Left, Agreed, Gone, Code, HostTypeOK, clientVars, runVars
  <2>10. Screen'
    BY <1>1, <1>2, <1>3, <2>1, <2>5 DEF Screen, TerminalRestored, Reload, runVars
  <2>11. QED BY <1>4, <1>5, <2>6, <2>7, <2>8, <2>9, <2>10
<1>8. QED BY <1>6, <1>7

\* The entry's reap has its answer.
LEMMA EntryEnds ==
  ASSUME HostInv, ~Gone, entry.reap # "off", NEW reaped \in BOOLEAN, reaped <=> os.exitSeen,
         EntryLeaves(reaped)
  PROVE  HostInv' /\ ReasonKept
<1> USE DEF HostInv
<1> DEFINE code == IF entry.relay # "no" /\ reaped THEN entry.relay ELSE "1"
           restores == Reload /\ (launcher = "native" => ~ready)
<1>1. /\ entry' = [entry EXCEPT !.pc = "gone", !.reap = "off", !.status = code]
      /\ file' = IF launcher = "bash" /\ entry.relay # "no" THEN code ELSE file
      /\ term' = IF restores THEN "normal" ELSE term
      /\ ready' = (ready \/ (restores /\ launcher = "bash"))
      /\ UNCHANGED <<clientVars, host, session, run, runVars>>
  BY DEF EntryLeaves
<1>2. /\ ~host.childOwned /\ ended = "no" /\ launcher \in {"bash", "native"}
      /\ run = "returned" => entry.relay # "no" /\ os.exitSeen
      /\ ~reaped => run # "returned"
  BY DEF Owning, Left, Running, HostTypeOK
<1>3. code \in Code /\ code = Agreed
  BY <1>2 DEF HostTypeOK, Entry, Code, Agreed
<1> HIDE DEF code
<1>4. /\ entry' \in Entry /\ Gone' /\ entry'.relay = entry.relay /\ entry'.reap = "off"
      /\ entry'.status = Agreed /\ entry'.signalled = entry.signalled
  BY <1>1, <1>3 DEF HostTypeOK, Entry, Gone, Code
<1>5. file' = Agreed \/ (file' = file /\ (launcher = "native" \/ entry.relay = "no"))
  BY <1>1, <1>2, <1>3
<1>6. Agreed' = Agreed BY <1>1, <1>4 DEF Agreed, clientVars
<1>7. term' = "normal" \/ (launcher = "native" /\ ready /\ term' = term) \/ (~Reload /\ term' = term)
  BY <1>1, <1>2
<1>8. term' = "normal" BY <1>2, <1>7 DEF Screen
<1>9. HostTypeOK'
  BY <1>1, <1>3, <1>4, <1>8 DEF HostTypeOK, ClientTypeOK, clientVars, runVars
<1>10. ClientFits(client, os.exitSeen)' /\ Listening'
  BY <1>1 DEF Listening, Stopping, clientVars
<1>11. Owning' BY <1>1, <1>2, <1>4 DEF Owning, Stopping, Gone, clientVars
<1>12. Reasoned' BY <1>1, <1>2, <1>4 DEF Reasoned, Stopping, Gone, clientVars, runVars
<1>13. Left'
  BY <1>1, <1>2, <1>3, <1>4, <1>5, <1>6 DEF Left, Gone, Code, clientVars, runVars
<1>14. Screen' BY <1>1, <1>2, <1>8 DEF Screen, TerminalRestored
<1>15. ReasonKept BY <1>1 DEF ReasonKept, clientVars, HostTypeOK, ClientTypeOK
<1>16. QED BY <1>9, <1>10, <1>11, <1>12, <1>13, <1>14, <1>15

\* A step of the entry that changes its reap, its signal or its status only.
LEMMA EntrySteps ==
  ASSUME HostInv, ended = "no", entry' \in Entry, ~Gone,
         UNCHANGED <<os, piped, outcome, told, client, host, term, ready, file, session, run>>,
         UNCHANGED <<launcher, life, ended, errors>>, signals' \in 0..MaxSignals,
         entry'.pc = entry.pc, entry.relay # "no" => entry'.relay = entry.relay,
         entry'.relay = entry.relay \/ (~host.childOwned /\ run # "returned" /\ entry'.reap # "off"),
         entry'.reap = entry.reap \/ (entry'.reap # "off" /\ (entry'.relay # "no" \/ entry.reap # "off")),
         ~(host.childOwned /\ entry'.reap # entry.reap),
         entry'.signalled => entry.signalled \/ entry'.relay # "no",
         entry'.status = entry.status
  PROVE  HostInv' /\ ReasonKept
<1> USE DEF HostInv
<1>1. HostTypeOK' BY DEF HostTypeOK, ClientTypeOK
<1>2. ClientFits(client, os.exitSeen)' /\ Listening' BY DEF Listening, Stopping
<1>3. Owning' BY DEF Owning, Stopping, Gone
<1>4. Reasoned' BY DEF Reasoned, Stopping, Gone
<1>5. Left' BY DEF Left, Gone
<1>6. Screen' BY DEF Screen, Reload, Stopping, Gone, TerminalRestored
<1>7. ReasonKept BY DEF ReasonKept, HostTypeOK, ClientTypeOK
<1>8. QED BY <1>1, <1>2, <1>3, <1>4, <1>5, <1>6, <1>7

LEMMA EntryReaps == ASSUME HostInv, EntryReaped PROVE HostInv' /\ ReasonKept
BY EntryEnds DEF EntryReaped, EntryDue

LEMMA EntryTimers == ASSUME HostInv, EntryTimer PROVE HostInv' /\ ReasonKept
<1>1. ~Gone /\ ~os.exitSeen BY DEF EntryTimer
<1>2. CASE entry.reap = "kill" /\ EntryLeaves(FALSE) BY <1>1, <1>2, EntryEnds
<1>3. CASE entry.reap = "term" /\ entry' = [entry EXCEPT !.reap = "kill"]
             /\ UNCHANGED <<clientVars, file, hostVars, runVars>>
  <2>1. /\ entry' \in Entry /\ entry'.pc = entry.pc /\ entry'.relay = entry.relay /\ entry'.reap = "kill"
        /\ entry'.signalled = entry.signalled /\ entry'.status = entry.status
    BY <1>3 DEF HostInv, HostTypeOK, Entry
  <2>2. ~host.childOwned /\ ended = "no" BY <1>1, <1>3 DEF HostInv, Owning, Left
  <2>3. UNCHANGED <<os, piped, outcome, told, client, host, term, ready, file, session, run>>
        /\ UNCHANGED <<launcher, life, ended, errors>> /\ signals' \in 0..MaxSignals
    BY <1>3, Bounds DEF clientVars, hostVars, runVars
  <2>4. QED BY <1>1, <1>3, <2>1, <2>2, <2>3, EntrySteps
<1>4. QED BY <1>2, <1>3 DEF EntryTimer

-----------------------------------------------------------------------------
(***************************************************************************)
(* Signals, and the launcher.                                              *)
(***************************************************************************)
\* What the launcher reads is the code agreed on, or a native host's signal.
LEMMA ReadsAgreed ==
  ASSUME HostInv, Gone, NEW code \in ExitCode
  PROVE  /\ code = Agreed \/ (launcher = "native" /\ code = "killed")
         /\ code \in Code \cup {"killed"}
         /\ code = "killed" => os.exitSeen /\ host.intent # "100"
         /\ code = "100" => /\ run = "returned" /\ host.intent = "100" /\ os.exitSeen
                            /\ os.status = "100" /\ life < MaxReloads
         /\ os.exitSeen \/ code = "1"
<1> USE DEF HostInv
<1>1. launcher \in {"bash", "native"} /\ host.intent \in Code \cup {"none"} /\ entry.relay \in {"no", "0", "130"}
  BY DEF HostTypeOK, HostFields, Entry
<1>2. run = "returned" => host.intent # "none" /\ (os.exitSeen \/ host.intent = "1")
  BY DEF Reasoned, Running, Stopping, Down
<1>3. Agreed \in Code /\ (os.exitSeen \/ Agreed = "1")
  BY <1>1, <1>2 DEF Agreed, Code
<1>4. code = Agreed \/ (launcher = "native" /\ code = "killed" /\ entry.status = "killed")
  <2>1. CASE launcher = "bash"
    BY <2>1, <1>3 DEF Left, ExitCode, WaitStatus, Code
  <2>2. CASE launcher = "native"
    BY <2>2 DEF Left, ExitCode, WaitStatus
  <2>3. QED BY <1>1, <2>1, <2>2
<1>5. code = "killed" => os.exitSeen /\ host.intent # "100"
  BY <1>3, <1>4 DEF Left, Reasoned, Code
<1>6. Agreed = "100" => /\ run = "returned" /\ host.intent = "100" /\ os.exitSeen
                       /\ os.status = "100" /\ life < MaxReloads
  BY <1>1, <1>2, <1>3 DEF Agreed, Reasoned
<1>7. QED BY <1>3, <1>4, <1>5, <1>6

\* How a life begins.
LEMMA NewLife ==
  /\ NewEntry \in Entry /\ NewEntry.pc = "import" /\ NewEntry.relay = "no" /\ NewEntry.reap = "off"
  /\ ~NewEntry.signalled /\ NewEntry.status = "none"
  /\ NewHost \in HostFields /\ NewHost.phase = "constructing" /\ NewHost.intent = "none"
  /\ ~NewHost.childOwned /\ ~NewHost.failed /\ ~NewHost.timer /\ NewHost.runtime = "none"
  /\ NewClient \in Client /\ ~NewClient.owned /\ NewClient.stop = "no" /\ NewClient.reap = "off"
  /\ \A o \in {Spawned, Unspawned} :
       /\ o \in Os /\ o.status \in {"none", "unspawned"}
       /\ ClientFits(NewClient, o.exitSeen)
  /\ [r \in Request |-> "new"] \in [Request -> Outcome]
<1>1. /\ NewEntry \in Entry /\ NewEntry.pc = "import" /\ NewEntry.relay = "no" /\ NewEntry.reap = "off"
      /\ ~NewEntry.signalled /\ NewEntry.status = "none"
  BY DEF NewEntry, Entry, Code
<1>2. /\ NewHost \in HostFields /\ NewHost.phase = "constructing" /\ NewHost.intent = "none"
      /\ ~NewHost.childOwned /\ ~NewHost.failed /\ ~NewHost.timer /\ NewHost.runtime = "none"
  BY DEF NewHost, HostFields, Up
<1>3. /\ Spawned \in Os /\ Spawned.status = "none"
      /\ Unspawned \in Os /\ Unspawned.status = "unspawned"
  BY DEF Spawned, Unspawned, Os, ChildStatus
<1>4. /\ NewClient \in Client /\ ~NewClient.owned /\ NewClient.stop = "no" /\ NewClient.reap = "off"
      /\ \A seen : ClientFits(NewClient, seen)
  BY DEF ClientFits, Client, NewClient
<1>5. [r \in Request |-> "new"] \in [Request -> Outcome] BY DEF Outcome
<1>6. QED BY <1>1, <1>2, <1>3, <1>4, <1>5

LEMMA Relaunches ==
  ASSUME HostInv, Gone, ended = "no", life < MaxReloads, Relaunch,
         UNCHANGED <<launcher, signals, errors>>
  PROVE  HostInv'
<1>1. life' \in 0..MaxReloads /\ life' > 0
  BY HostAssumption DEF HostInv, HostTypeOK, Relaunch
<1>2. /\ os' \in Os /\ os'.status \in {"none", "unspawned"} /\ ClientFits(client', os'.exitSeen)
      /\ client' = NewClient /\ piped' = {} /\ told' = 0 /\ outcome' \in [Request -> Outcome]
      /\ entry' = NewEntry /\ file' = "none" /\ host' = NewHost
      /\ session' = "none" /\ run' = "none" /\ ready' = FALSE /\ term' = term /\ ended' = ended
  BY NewLife DEF Relaunch
<1>3. HostTypeOK'
  BY <1>1, <1>2, NewLife DEF HostInv, HostTypeOK, ClientTypeOK, ClientFits
<1>4. ~Stopping' /\ ~Gone' BY <1>2, NewLife DEF Stopping, Down, Gone
<1>5. Listening' /\ Reasoned' BY <1>2, <1>4, NewLife DEF Listening, Reasoned
<1>6. Owning' BY <1>2, <1>4, NewLife DEF Owning, Running
<1>7. Left' /\ Screen'
  BY <1>1, <1>2, <1>4, NewLife DEF Left, Screen, Reload, TerminalRestored
<1>8. QED BY <1>2, <1>3, <1>5, <1>6, <1>7 DEF HostInv

LEMMA LauncherLeaves ==
  ASSUME HostInv, Gone, ended = "no", NEW code \in ExitCode, code # "100", LauncherEnds(code),
         UNCHANGED <<launcher, signals, errors>>
  PROVE  HostInv'
<1> USE DEF HostInv
<1>1. /\ ended' = code /\ term' = IF launcher = "bash" /\ Reload /\ ~ready THEN "normal" ELSE term
      /\ UNCHANGED <<clientVars, entryVars, host, session, run, ready, life, launcher, signals, errors>>
  BY DEF LauncherEnds
<1>2. code \in Code \cup {"killed"} BY ReadsAgreed
<1>3. HostTypeOK' BY <1>1, <1>2 DEF HostTypeOK, ClientTypeOK, clientVars, entryVars
<1>4. ClientFits(client, os.exitSeen)' /\ Listening' /\ Owning' /\ Reasoned'
  BY <1>1 DEF Listening, Owning, Reasoned, Stopping, Gone, clientVars, entryVars
<1>5. Left' BY <1>1 DEF Left, Gone, Agreed, clientVars, entryVars
<1>6. term' = "normal" \/ term' = term BY <1>1
<1>7. TerminalRestored'
  <2>1. SUFFICES ASSUME ~Unrestored PROVE term' = "normal"
    BY <1>1, <1>5 DEF TerminalRestored, Unrestored, Reload
  <2>2. CASE run # "returned" BY <1>6, <2>2 DEF Screen, Left
  <2>3. CASE run = "returned" /\ host.childOwned
    <3>1. Stopping /\ entry.relay = "no" BY <2>3 DEF Reasoned, Stopping, Down, Owning
    <3>2. host.intent # "100"
      <4>1. Agreed = host.intent BY <2>3, <3>1 DEF Agreed
      <4>2. QED BY <4>1, ReadsAgreed
    <3>3. QED BY <1>6, <2>3, <3>1, <3>2 DEF Screen
  <2>4. CASE run = "returned" /\ ~host.childOwned
    <3>1. CASE launcher = "bash" BY <1>1, <1>6, <2>4, <3>1 DEF Screen
    <3>2. CASE launcher = "native" BY <1>6, <2>1, <2>4, <3>2 DEF Screen, Unrestored
    <3>3. QED BY <3>1, <3>2 DEF HostTypeOK
  <2>5. QED BY <2>2, <2>3, <2>4
<1>8. Screen' BY <1>1, <1>6, <1>7 DEF Screen, Stopping, Reload, Gone, entryVars
<1>9. QED BY <1>3, <1>4, <1>5, <1>8

LEMMA Signals ==
  ASSUME HostInv, NEW code \in {"0", "130"}, Signal(code)
  PROVE  HostInv' /\ ReasonKept
<1> USE DEF HostInv
<1>1. /\ ended = "no" /\ signals' \in 0..MaxSignals
      /\ UNCHANGED <<os, piped, outcome, told, file, session, run, launcher, life, errors>>
  BY Bounds DEF Signal
<1>2. CASE /\ EarlyHandlers
           /\ entry' = IF entry.relay # "no" THEN entry
                       ELSE [entry EXCEPT !.relay = code, !.reap = IF @ = "off" THEN "term" ELSE @,
                                          !.signalled = TRUE]
           /\ UNCHANGED <<client, host, term, ready, ended>>
  <2>1. ~Gone /\ ~host.childOwned /\ run # "returned"
    <3>1. CASE entry.pc = "import" BY <3>1, Fresh DEF Gone
    <3>2. CASE entry.pc = "caught" BY <3>2 DEF Owning, Gone
    <3>3. CASE entry.pc = "host" /\ ~host.childOwned /\ run # "returned" BY <3>3 DEF Gone
    <3>4. QED BY <1>2, <3>1, <3>2, <3>3 DEF EarlyHandlers
  <2>2. CASE entry.relay # "no" BY <1>1, <1>2, <2>1, <2>2, EntrySteps DEF HostTypeOK
  <2>3. CASE entry.relay = "no"
    <3>1. /\ entry' \in Entry /\ entry'.pc = entry.pc /\ entry'.relay = code /\ entry'.reap # "off"
          /\ entry'.status = entry.status
      BY <1>2, <2>3 DEF HostTypeOK, Entry
    <3>2. entry'.relay # "no" BY <3>1
    <3>3. QED BY <1>1, <1>2, <2>1, <2>3, <3>1, <3>2, EntrySteps
  <2>4. QED BY <2>2, <2>3
<1>3. CASE /\ InHost /\ host.childOwned /\ host.phase # "stopped"
           /\ StopAndExit(client, code)
           /\ entry' = [entry EXCEPT !.signalled = TRUE] /\ UNCHANGED ended
  BY <1>1, <1>3, Bounds, OwnStop DEF StopAndExit, HostTypeOK
<1>4. CASE /\ InHost /\ run = "returned" /\ entry.relay = "no"
           /\ entry' = [entry EXCEPT !.pc = "gone", !.status = "killed"]
           /\ UNCHANGED <<client, host, term, ready, ended>>
  <2>1. /\ host.phase = "stopped" /\ Stopping /\ ~host.exits /\ os.exitSeen /\ entry.reap = "off"
        /\ launcher = "bash" => file = host.intent
    BY <1>4 DEF InHost, Reasoned, Owning, Stopping, Down
  <2>2. /\ entry' \in Entry /\ entry'.pc = "gone" /\ entry'.relay = "no" /\ entry'.reap = "off"
        /\ entry'.status = "killed" /\ entry'.signalled = entry.signalled
    BY <1>4, <2>1 DEF HostTypeOK, Entry
  <2>3. HostTypeOK' BY <1>1, <1>4, <2>2 DEF HostTypeOK, ClientTypeOK
  <2>4. ClientFits(client, os.exitSeen)' /\ Listening' BY <1>1, <1>4 DEF Listening, Stopping
  <2>5. Owning' /\ Reasoned'
    BY <1>1, <1>4, <2>1, <2>2 DEF Owning, Reasoned, Stopping, Running, Gone, InHost
  <2>6. Left' BY <1>1, <1>4, <2>1, <2>2 DEF Left, Agreed, Gone, InHost, HostTypeOK
  <2>7. Screen' BY <1>1, <1>4 DEF Screen, Reload, Stopping, TerminalRestored
  <2>8. ReasonKept BY <1>1, <1>4 DEF ReasonKept, HostTypeOK, ClientTypeOK
  <2>9. QED BY <2>3, <2>4, <2>5, <2>6, <2>7, <2>8
<1>5. CASE /\ Gone /\ launcher = "bash"
           /\ ended' = code /\ term' = "normal"
           /\ UNCHANGED <<client, host, entry, ready>>
  <2>1. HostTypeOK' BY <1>1, <1>5 DEF HostTypeOK, ClientTypeOK, Code
  <2>2. ClientFits(client, os.exitSeen)' /\ Listening' /\ Owning' /\ Reasoned'
    BY <1>1, <1>5 DEF Listening, Owning, Reasoned, Stopping, Gone
  <2>3. Left' BY <1>1, <1>5 DEF Left, Agreed, Gone
  <2>4. Screen' BY <1>5 DEF Screen, TerminalRestored
  <2>5. ReasonKept BY <1>1, <1>5 DEF ReasonKept, HostTypeOK, ClientTypeOK
  <2>6. QED BY <2>1, <2>2, <2>3, <2>4, <2>5
<1>6. QED BY <1>2, <1>3, <1>4, <1>5 DEF Signal

-----------------------------------------------------------------------------
(***************************************************************************)
(* The theorems.                                                           *)
(***************************************************************************)
LEMMA HostInit == ASSUME Init PROVE HostInv
<1>1. /\ os \in Os /\ os.status \in {"none", "unspawned"} /\ ClientFits(client, os.exitSeen)
      /\ client = NewClient /\ piped = {} /\ told = 0 /\ outcome \in [Request -> Outcome]
      /\ entry = NewEntry /\ file = "none" /\ host = NewHost /\ life = 0
      /\ session = "none" /\ run = "none" /\ ready = FALSE /\ term = "normal" /\ ended = "no"
  BY NewLife DEF Init, ClientInit
<1>2. life \in 0..MaxReloads /\ signals \in 0..MaxSignals /\ errors \in 0..MaxErrors
  BY HostAssumption DEF Init
<1>3. HostTypeOK BY <1>1, <1>2, NewLife DEF Init, HostTypeOK, ClientTypeOK, ClientFits
<1>4. ~Stopping /\ ~Gone BY <1>1, NewLife DEF Stopping, Down, Gone
<1>5. Listening /\ Reasoned BY <1>1, <1>4, NewLife DEF Listening, Reasoned
<1>6. Owning BY <1>1, <1>4, NewLife DEF Owning, Running
<1>7. Left /\ Screen BY <1>1, <1>4, NewLife DEF Left, Screen, TerminalRestored
<1>8. QED BY <1>1, <1>3, <1>5, <1>6, <1>7 DEF HostInv

\* What the launcher reads ends the life, over a dead child, or the run.
LEMMA Launches ==
  ASSUME HostInv, LauncherReads
  PROVE  /\ HostInv' /\ host.intent = host.intent
         /\ \/ life' # life /\ ended' = ended /\ os.exitSeen /\ told' = 0
            \/ /\ UNCHANGED <<life, host, told, outcome, client>>
               /\ os.exitSeen \/ ended' = "1"
               /\ ended' = Agreed \/ (launcher = "native" /\ ended' = "killed")
<1>1. Gone /\ ended = "no" /\ UNCHANGED <<launcher, signals, errors>> BY DEF LauncherReads
<1>2. PICK code \in ExitCode : IF code = "100" THEN Relaunch ELSE LauncherEnds(code)
  BY DEF LauncherReads
<1>3. /\ code = Agreed \/ (launcher = "native" /\ code = "killed")
      /\ code = "100" => os.exitSeen /\ life < MaxReloads
      /\ os.exitSeen \/ code = "1"
  BY <1>1, ReadsAgreed
<1>4. CASE code = "100"
  <2>1. HostInv' BY <1>1, <1>2, <1>3, <1>4, Relaunches
  <2>2. life' # life /\ ended' = ended /\ told' = 0
    BY <1>2, <1>4, HostAssumption DEF Relaunch, HostInv, HostTypeOK
  <2>3. QED BY <1>3, <1>4, <2>1, <2>2
<1>5. CASE code # "100"
  <2>1. HostInv' BY <1>1, <1>2, <1>5, LauncherLeaves
  <2>2. ended' = code /\ UNCHANGED <<life, host, told, outcome, client>>
    BY <1>2, <1>5 DEF LauncherEnds, clientVars
  <2>3. QED BY <1>3, <2>1, <2>2
<1>6. QED BY <1>4, <1>5

\* Every other step stays in its life, and only a signal ends the run.
LEMMA Tasks ==
  ASSUME HostInv, Next, ~LauncherReads
  PROVE  /\ HostInv' /\ ReasonKept /\ life' = life
         /\ ended' = ended \/ signals' # signals
<1>1. CASE EntryReaped
  BY <1>1, EntryReaps DEF EntryReaped, EntryLeaves, runVars
<1>2. CASE NodeEvent BY <1>2, NodeEvents DEF NodeEvent, runVars
<1>3. CASE TransportFails BY <1>3, TransportFailures DEF TransportFails
<1>4. ASSUME NEW s \in {"0", "1", "100"}, ChildExits(s)
      PROVE  /\ HostInv' /\ ReasonKept /\ life' = life /\ ended' = ended
  BY <1>4, ChildDeaths DEF ChildExits, runVars
<1>5. CASE HostStarts BY <1>5, HostBegins DEF HostStarts, runVars
<1>6. CASE ImportFails BY <1>6, ImportFailures DEF ImportFails, runVars
<1>7. CASE Session BY <1>7, Sessions DEF Session, runVars
<1>8. CASE HostEnds
  <2>1. ASSUME NEW code \in {"0", "130"}, Ends(UserQuits(code))
        PROVE  HostInv' /\ ReasonKept /\ life' = life /\ ended' = ended
    BY <2>1, Quits DEF Ends
  <2>2. CASE Ends(CrashTimer) \/ Ends(UnhandledError) BY <2>2, Crashes DEF Ends
  <2>3. QED BY <1>8, <2>1, <2>2 DEF HostEnds
<1>9. CASE ~EntryDue /\ StopEnds BY <1>9, StopEndings DEF StopEnds, runVars
<1>10. CASE LoopEmpties BY <1>10, LoopEnds DEF LoopEmpties, runVars
<1>11. CASE EntryTimer BY <1>11, EntryTimers DEF EntryTimer, EntryLeaves, runVars
<1>12. ASSUME NEW code \in {"0", "130"}, Signal(code)
       PROVE  HostInv' /\ ReasonKept /\ life' = life /\ signals' # signals
  <2>1. signals' # signals BY <1>12, Bounds DEF Signal
  <2>2. QED BY <1>12, <2>1, Signals DEF Signal
<1>13. QED
  BY <1>1, <1>2, <1>3, <1>4, <1>5, <1>6, <1>7, <1>8, <1>9, <1>10, <1>11, <1>12 DEF Next, Task

LEMMA HostInvHolds == Spec => []HostInv
<1>1. HostInv /\ [Next]_vars => HostInv'
  <2>1. CASE HostInv /\ UNCHANGED vars BY <2>1, Stutters
  <2>2. CASE HostInv /\ Next /\ LauncherReads BY <2>2, Launches
  <2>3. CASE HostInv /\ Next /\ ~LauncherReads BY <2>3, Tasks
  <2>4. QED BY <2>1, <2>2, <2>3
<1>2. QED BY <1>1, HostInit, PTL DEF Spec

\* Every variable of the host, its client, its entry and the launcher keeps its type.
THEOREM HostTypes == Spec => []HostTypeOK
<1>1. HostInv => HostTypeOK BY DEF HostInv
<1>2. QED BY <1>1, HostInvHolds, PTL

\* However the run ends, the terminal is restored, but for the native launcher's
\* reload whose child died before the host adopted it.
THEOREM TerminalRestoredHolds == Spec => []TerminalRestored
<1>1. HostInv => TerminalRestored BY DEF HostInv, Screen
<1>2. QED BY <1>1, HostInvHolds, PTL

\* No life begins over a child that may still run, and a launcher that ends over
\* one says 1.
THEOREM OneChildHolds == Spec => OneChild
<1> DEFINE Over == /\ life' # life => os.exitSeen
                   /\ ended' # ended /\ signals' = signals => os.exitSeen \/ ended' = "1"
<1>1. HostInv /\ [Next]_vars => [Over]_vars
  <2>1. CASE UNCHANGED vars BY <2>1
  <2>2. CASE HostInv /\ LauncherReads BY <2>2, Launches
  <2>3. CASE HostInv /\ Next /\ ~LauncherReads BY <2>3, Tasks
  <2>4. QED BY <2>1, <2>2, <2>3
<1>2. Spec => [][Over]_vars BY <1>1, HostInvHolds, PTL DEF Spec
<1>3. QED BY <1>2 DEF OneChild

\* The exit code is the first reason's, unless a reap fails, and the launcher
\* ends with it; a host hears of an exit once, and of none it asked for.
THEOREM ExitCodeAgreesHolds == Spec => ExitCodeAgrees
<1> DEFINE Agrees ==
      /\ life' = life /\ host.intent # "none" =>
           host'.intent = host.intent \/ (host'.failed /\ host'.intent = "1")
      /\ ended' # ended /\ signals' = signals =>
           \/ ended' = IF entry.relay # "no" /\ os.exitSeen THEN entry.relay
                       ELSE IF run = "returned" THEN host.intent ELSE "1"
           \/ launcher = "native" /\ ended' = "killed"
      /\ told' > told => told = 0 /\ ~Stopping
<1>1. HostInv /\ [Next]_vars => [Agrees]_vars
  <2>1. CASE UNCHANGED vars BY <2>1
  <2>2. CASE HostInv /\ LauncherReads
    <3>1. told \in Nat BY <2>2 DEF HostInv, HostTypeOK, ClientTypeOK
    <3>2. QED BY <2>2, <3>1, Launches DEF Agreed
  <2>3. CASE HostInv /\ Next /\ ~LauncherReads BY <2>3, Tasks DEF ReasonKept
  <2>4. QED BY <2>1, <2>2, <2>3
<1>2. Spec => [][Agrees]_vars BY <1>1, HostInvHolds, PTL DEF Spec
<1>3. QED BY <1>2 DEF ExitCodeAgrees

\* A response in the pipe of a request without a timeout is failed only by a
\* broken stream or at the end of a bounded wait.
THEOREM BufferedAnswersHold == Spec => BufferedAnswersCount
<1> DEFINE Counts ==
      \A r \in piped : outcome[r] = "pending" /\ outcome'[r] = "failed" /\ life' = life =>
        \/ r \notin Untimed \/ errors' > errors
        \/ client.grace /\ ~client'.grace
        \/ client.reap # "off" /\ client'.reap = "off"
<1>1. ASSUME HostInv, [Next]_vars PROVE [Counts]_vars
  <2>1. /\ ClientTypeOK /\ ClientFits(client, os.exitSeen) /\ outcome \in [Request -> Outcome]
        /\ piped \subseteq Request /\ errors \in Nat
    BY <1>1, HostAssumption DEF HostInv, HostTypeOK, ClientTypeOK
  <2>2. CASE outcome' = outcome BY <2>2
  <2>3. CASE NodeEvent BY <2>1, <2>3, ClientSteps DEF NodeEvent, FailsBuffered
  <2>4. CASE TransportFails BY <2>1, <2>4 DEF TransportFails
  <2>5. ASSUME NEW r \in Request, Sends(r) PROVE Counts
    BY <2>1, <2>5 DEF Sends
  <2>6. CASE HostStarts
    <3>1. Sends(Hydrate) \/ outcome' = outcome
      BY <2>6 DEF HostStarts, SetupThrows, AdoptDead, AdoptLive, AdoptUnbuilt
    <3>2. QED BY <2>2, <2>5, <3>1, HostAssumption
  <2>7. CASE Session
    <3>1. outcome' = outcome \/ \E r \in Request : Sends(r)
      BY <2>7, HostAssumption
      DEF Session, SessionStep, ShellReady, ShellFails, Hydrated, SessionReady, StartStats,
          SendRequest, SessionThrows
    <3>2. QED BY <2>2, <2>5, <3>1
  <2>8. CASE LauncherReads BY <1>1, <2>2, <2>8, Launches
  <2>9. QED
    BY <1>1, <2>2, <2>3, <2>4, <2>6, <2>7, <2>8
    DEF Next, Task, EntryReaped, EntryLeaves, ChildExits, ChildDies, ImportFails, HostEnds, Ends,
        StopEnds, LoopEmpties, EntryTimer, Signal, vars, clientVars
<1>2. Spec => [][Counts]_vars BY <1>1, HostInvHolds, PTL DEF Spec
<1>3. QED BY <1>2 DEF BufferedAnswersCount
=============================================================================
