------------------------ MODULE SubagentSessionProofs ------------------------
(***************************************************************************)
(* Proofs about SubagentSession, for any set of tasks and any limits.      *)
(***************************************************************************)
EXTENDS SubagentSession, FiniteSetTheorems, SequenceTheorems, TLAPS

(***************************************************************************)
(* The invariant of the manager.                                           *)
(***************************************************************************)
Distinct(s) == \A i, j \in DOMAIN s : s[i] = s[j] => i = j

\* What the setup, the child and the settlement of one task say of each other.
TaskInv(m, t) ==
  /\ m.setup[t] \in Settings => m.snap[t] # "running" /\ m.child[t] = "none"
  /\ m.setup[t] \in Settings /\ Settled(m, t) => Interrupted(m, t)
  /\ m.setup[t] = "ready" => m.snap[t] \in {"running", "settled"}
  /\ m.child[t] # "none" => m.snap[t] \in {"running", "settled"}
  /\ m.child[t] \in {"starting", "up"} => m.snap[t] = "running" /\ t \notin m.settling
  /\ t \in m.settling => m.snap[t] = "running"

QueueInv(m) ==
  /\ Distinct(m.queue)
  /\ \A t \in ToSet(m.queue) : m.snap[t] = "queued" /\ m.setup[t] = "none"
  /\ Len(m.queue) <= MaxQueued
  /\ m.drained # None => m.due

GateInv(m) ==
  /\ Distinct(m.gate)
  /\ \A t \in Task : t \in ToSet(m.gate) <=> m.setup[t] \in {"gate", "worktree"}
  /\ \A t \in Task : m.setup[t] = "worktree" => Opened(m, t)

SlotInv(m) ==
  /\ Distinct(m.waiters)
  /\ \A t \in ToSet(m.waiters) : m.setup[t] = "pane" /\ m.slot # t
  /\ m.slot = None => m.waiters = <<>>
  /\ m.slot # None => m.setup[m.slot] \in {"pane", "ready"}
  /\ \A t \in Task : m.setup[t] = "ready" => m.slot = t

Good(m) ==
  /\ \A t \in Task : TaskInv(m, t)
  /\ QueueInv(m) /\ GateInv(m) /\ SlotInv(m)
  /\ Cardinality(Occupied(m)) <= MaxRunning

ManagerInv == Good(mgr)

(***************************************************************************)
(* The invariant of the session.                                           *)
(***************************************************************************)
TaskCall(t) ==
  /\ call[t] = "wait" <=> t \in mgr.waited
  /\ mgr.snap[t] = "none" /\ mgr.setup[t] # "none" => call[t] \in {"spawn", "command"}
  /\ call[t] = "cancel" =>
       mgr.snap[t] \in {"running", "settled"} /\ mgr.child[t] \notin {"starting", "up"}

CallInv == \A t \in Task : TaskCall(t)

\* Who answers for the end of t, once it was consumed or dropped.
TaskResult(t) ==
  /\ t \in told => result[t] \in {"dropped", "sent"}
  /\ result[t] # "unseen" => Settled(mgr, t) \/ t \in told
  /\ result[t] = "pending" => busy
  /\ t \in aborted => Settled(mgr, t)
  /\ t \in mgr.consumed \ void =>
       \/ t \in told \cup aborted
       \/ call[t] = "cancel"
       \/ call[t] \in {"wait", "close"} /\ Settled(mgr, t)
  /\ result[t] = "dropped" /\ t \notin void =>
       t \in told \cup aborted \/ call[t] \in {"wait", "cancel", "close"}
  /\ session = "on" /\ Settled(mgr, t) /\ t \notin void => result[t] # "unseen"

ResultInv == (busy => session = "on") /\ \A t \in Task : TaskResult(t)

SessionInv ==
  /\ session # "on" => \A t \in Task \ void : mgr.snap[t] = "none" /\ mgr.setup[t] = "none"
  /\ session # "on" => mgr.queue = <<>>
  /\ \A t \in void : t \notin ToSet(mgr.queue)
  /\ \A t \in void : mgr.setup[t] # "none" => t \in mgr.stale
  /\ session = "on" /\ sessions = 0 => mgr.stale = {}
  /\ session = "off" => sessions < MaxSessions
  /\ \A t \in Task : mgr.file[t] = t \/ mgr.snap[mgr.file[t]] # "none"

IInv == /\ TypeOK /\ ManagerInv /\ CallInv /\ ResultInv /\ SessionInv
        /\ NothingOrphaned /\ OneContinuation /\ NothingParked

(***************************************************************************)
(* Sequences without repetition.                                           *)
(***************************************************************************)
\* The elements of a sequence, by their places.
LEMMA Places ==
  ASSUME NEW S, NEW s \in Seq(S)
  PROVE  /\ DOMAIN s = 1..Len(s) /\ Len(s) \in Nat
         /\ \A e : e \in ToSet(s) <=> \E i \in 1..Len(s) : s[i] = e
         /\ ToSet(s) \subseteq S
         /\ s = <<>> <=> Len(s) = 0
  BY LenProperties, EmptySeq, ElementOfSeq DEF ToSet

LEMMA Emptied == Distinct(<<>>) /\ ToSet(<<>>) = {} /\ Len(<<>>) = 0
  BY EmptySeq DEF Distinct, ToSet

LEMMA Appended ==
  ASSUME NEW S, NEW s \in Seq(S), NEW e \in S, Distinct(s), e \notin ToSet(s)
  PROVE  /\ Append(s, e) \in Seq(S) /\ Append(s, e) # <<>>
         /\ Distinct(Append(s, e)) /\ ToSet(Append(s, e)) = ToSet(s) \cup {e}
         /\ Len(Append(s, e)) = Len(s) + 1
         /\ s # <<>> => Head(Append(s, e)) = Head(s)
<1> DEFINE a == Append(s, e)
<1>1. a \in Seq(S) /\ a # <<>> /\ Len(a) = Len(s) + 1 /\ a[Len(s) + 1] = e
      /\ \A i \in 1..Len(s) : a[i] = s[i]
  BY AppendProperties
<1>2. Len(s) \in Nat /\ 1..Len(a) = 1..Len(s) \cup {Len(s) + 1}
  BY <1>1, Places
<1>3. ToSet(a) = ToSet(s) \cup {e}
  <2>1. ASSUME NEW x PROVE x \in ToSet(a) <=> \E i \in 1..Len(a) : a[i] = x
    BY <1>1, Places
  <2>2. ASSUME NEW x PROVE x \in ToSet(s) <=> \E i \in 1..Len(s) : s[i] = x
    BY Places
  <2> QED BY <2>1, <2>2, <1>1, <1>2
<1>4. Distinct(a)
  <2>1. DOMAIN a = 1..Len(a) /\ DOMAIN s = 1..Len(s)
    BY <1>1, Places
  <2>2. \A i \in 1..Len(s) : s[i] # e
    BY Places
  <2> QED BY <2>1, <2>2, <1>1, <1>2 DEF Distinct
<1>5. s # <<>> => Head(a) = Head(s)
  BY HeadTailAppend
<1> QED BY <1>1, <1>3, <1>4, <1>5

\* What is left when the first k + 1 elements are gone.
LEMMA FirstDropped ==
  ASSUME NEW S, NEW s \in Seq(S), NEW k \in Nat, Distinct(s), k < Len(s)
  PROVE  LET r == SubSeq(s, k + 2, Len(s))
         IN /\ r \in Seq(S) /\ Distinct(r) /\ ToSet(r) \subseteq ToSet(s) \ {s[k + 1]}
            /\ Len(r) = Len(s) - k - 1
<1> DEFINE r == SubSeq(s, k + 2, Len(s))
<1>1. DOMAIN s = 1..Len(s) /\ Len(s) \in Nat /\ \A i \in 1..Len(s) : s[i] \in S
  BY Places, ElementOfSeq
<1>6. /\ r \in Seq(S) /\ Len(r) = IF k + 2 <= Len(s) THEN Len(s) - (k + 2) + 1 ELSE 0
      /\ \A i \in 1..(Len(s) - (k + 2) + 1) : r[i] = s[(k + 2) + i - 1]
  <2>1. \A i \in (k + 2)..Len(s) : s[i] \in S
    BY <1>1
  <2> QED BY <2>1, <1>1, SubSeqProperties
<1> HIDE DEF r
<1>2. /\ r \in Seq(S) /\ Len(r) = Len(s) - k - 1
      /\ \A i \in 1..Len(r) : r[i] = s[i + k + 1]
  <2>1. Len(r) = Len(s) - k - 1
    BY <1>6, <1>1
  <2>2. ASSUME NEW i \in 1..Len(r) PROVE r[i] = s[i + k + 1]
    <3>1. (k + 2) + i - 1 = i + k + 1 /\ i \in 1..(Len(s) - (k + 2) + 1)
      BY <2>1, <1>1
    <3> QED BY <3>1, <1>6
  <2> QED BY <1>6, <2>1, <2>2
<1>3. DOMAIN r = 1..Len(r) /\ \A x : x \in ToSet(r) <=> \E i \in 1..Len(r) : r[i] = x
  BY <1>2, Places
<1>4. Distinct(r)
  <2>1. ASSUME NEW i \in 1..Len(r), NEW j \in 1..Len(r), r[i] = r[j] PROVE i = j
    <3>1. s[i + k + 1] = s[j + k + 1]
      BY <2>1, <1>2
    <3>2. i + k + 1 \in 1..Len(s) /\ j + k + 1 \in 1..Len(s)
      BY <1>1, <1>2
    <3>3. i + k + 1 = j + k + 1
      BY <3>1, <3>2, <1>1 DEF Distinct
    <3> QED BY <3>3, <1>2
  <2> QED BY <2>1, <1>3 DEF Distinct
<1>5. ASSUME NEW x \in ToSet(r) PROVE x \in ToSet(s) \ {s[k + 1]}
  <2>1. PICK i \in 1..Len(r) : r[i] = x
    BY <1>3
  <2>2. i + k + 1 \in 1..Len(s) /\ k + 1 \in 1..Len(s) /\ i + k + 1 # k + 1 /\ x = s[i + k + 1]
    BY <2>1, <1>1, <1>2
  <2> QED BY <2>2, <1>1, Places DEF Distinct
<1> QED BY <1>2, <1>4, <1>5 DEF r

LEMMA Tailed ==
  ASSUME NEW S, NEW s \in Seq(S), s # <<>>, Distinct(s)
  PROVE  /\ Head(s) \in S /\ Head(s) = s[1] /\ Head(s) \in ToSet(s)
         /\ Tail(s) \in Seq(S) /\ Distinct(Tail(s))
         /\ ToSet(Tail(s)) = ToSet(s) \ {Head(s)} /\ Len(Tail(s)) = Len(s) - 1
<1>1. /\ Head(s) \in S /\ Tail(s) \in Seq(S) /\ Len(Tail(s)) = Len(s) - 1
      /\ \A i \in 1..Len(Tail(s)) : Tail(s)[i] = s[i + 1]
  BY HeadTailProperties
<1>2. DOMAIN s = 1..Len(s) /\ Len(s) \in Nat /\ Len(s) # 0
  BY Places
<1>3. Head(s) = s[1] /\ s[1] \in ToSet(s)
  BY <1>2 DEF ToSet
<1>4. DOMAIN Tail(s) = 1..(Len(s) - 1)
  BY <1>1, Places
<1>5. Distinct(Tail(s))
  BY <1>1, <1>2, <1>4 DEF Distinct
<1>6. ToSet(Tail(s)) = ToSet(s) \ {s[1]}
  <2>1. ASSUME NEW x \in ToSet(Tail(s)) PROVE x \in ToSet(s) \ {s[1]}
    <3>1. PICK i \in 1..(Len(s) - 1) : Tail(s)[i] = x
      BY <1>4 DEF ToSet
    <3>2. x = s[i + 1] /\ i + 1 \in 1..Len(s) /\ i + 1 # 1 /\ 1 \in 1..Len(s)
      BY <3>1, <1>1, <1>2
    <3> QED BY <3>2, <1>2 DEF ToSet, Distinct
  <2>2. ASSUME NEW x \in ToSet(s), x # s[1] PROVE x \in ToSet(Tail(s))
    <3>1. PICK i \in 1..Len(s) : s[i] = x
      BY <1>2 DEF ToSet
    <3>2. i - 1 \in 1..(Len(s) - 1) /\ Tail(s)[i - 1] = x
      BY <3>1, <2>2, <1>1, <1>2
    <3> QED BY <3>2, <1>4 DEF ToSet
  <2> QED BY <2>1, <2>2
<1> QED BY <1>1, <1>3, <1>5, <1>6

\* How many places are behind the p-th.
LEMMA Behind ==
  ASSUME NEW n \in Nat, NEW p \in 1..n
  PROVE  (IF p + 1 <= n THEN n - (p + 1) + 1 ELSE 0) = n - p
  OBVIOUS

\* RemoveFirst takes the only occurrence out.
LEMMA Removed ==
  ASSUME NEW S, NEW s \in Seq(S), NEW e, Distinct(s), e \in ToSet(s)
  PROVE  LET r == RemoveFirst(s, e)
         IN /\ r \in Seq(S) /\ Distinct(r) /\ ToSet(r) = ToSet(s) \ {e}
            /\ Len(r) = Len(s) - 1
<1> DEFINE r == RemoveFirst(s, e)
<1>1. DOMAIN s = 1..Len(s) /\ Len(s) \in Nat /\ \A i \in 1..Len(s) : s[i] \in S
  BY Places, ElementOfSeq
<1>2. PICK p \in 1..Len(s) : s[p] = e
  BY <1>1 DEF ToSet
<1>3. \A i \in 1..Len(s) : s[i] = e => i = p
  BY <1>1, <1>2 DEF Distinct
<1>4. r = SubSeq(s, 1, p - 1) \o SubSeq(s, p + 1, Len(s))
  <2>1. {i \in 1..Len(s) : s[i] = e} = {p}
    BY <1>2, <1>3
  <2>2. Min({p}) = p
    BY <1>1 DEF Min
  <2>3. SelectInSeq(s, LAMBDA v : v = e) = p
    BY <2>1, <2>2 DEF SelectInSeq
  <2> QED BY <2>3, <1>2 DEF RemoveFirst, RemoveAt
<1> DEFINE b == SubSeq(s, 1, p - 1)
           c == SubSeq(s, p + 1, Len(s))
<1>5. b \in Seq(S) /\ Len(b) = p - 1 /\ \A i \in 1..(p - 1) : b[i] = s[i]
  <2>1. /\ b \in Seq(S) /\ Len(b) = IF 1 <= p - 1 THEN (p - 1) - 1 + 1 ELSE 0
        /\ \A i \in 1..((p - 1) - 1 + 1) : b[i] = s[1 + i - 1]
    <3>1. \A i \in 1..(p - 1) : s[i] \in S
      BY <1>1
    <3> QED BY <3>1, <1>1, SubSeqProperties
  <2> QED BY <2>1, <1>1
<1>6. c \in Seq(S) /\ Len(c) = Len(s) - p /\ \A i \in 1..(Len(s) - p) : c[i] = s[p + i]
  <2>1. /\ c \in Seq(S) /\ Len(c) = IF p + 1 <= Len(s) THEN Len(s) - (p + 1) + 1 ELSE 0
        /\ \A i \in 1..(Len(s) - (p + 1) + 1) : c[i] = s[(p + 1) + i - 1]
    <3>1. \A i \in (p + 1)..Len(s) : s[i] \in S
      BY <1>1
    <3> QED BY <3>1, <1>1, SubSeqProperties
  <2> HIDE DEF c
  <2>2. Len(c) = Len(s) - p
    BY <2>1, <1>1, Behind
  <2>3. ASSUME NEW i \in 1..(Len(s) - p) PROVE c[i] = s[p + i]
    <3>1. (p + 1) + i - 1 = p + i /\ i \in 1..(Len(s) - (p + 1) + 1)
      BY <1>1
    <3> QED BY <3>1, <2>1
  <2> QED BY <2>1, <2>2, <2>3
<1> HIDE DEF b, c
<1>7. /\ r \in Seq(S) /\ Len(r) = Len(s) - 1
      /\ \A i \in 1..(Len(s) - 1) : r[i] = IF i < p THEN s[i] ELSE s[i + 1]
  <2>1. /\ b \o c \in Seq(S) /\ Len(b \o c) = Len(b) + Len(c)
        /\ \A i \in 1..(Len(b) + Len(c)) : (b \o c)[i] = IF i <= Len(b) THEN b[i] ELSE c[i - Len(b)]
    BY <1>5, <1>6, ConcatProperties
  <2>2. r = b \o c
    BY <1>4 DEF b, c
  <2>3. Len(b) + Len(c) = Len(s) - 1
    BY <1>1, <1>5, <1>6
  <2>4. ASSUME NEW i \in 1..(Len(s) - 1) PROVE (b \o c)[i] = IF i < p THEN s[i] ELSE s[i + 1]
    <3>1. CASE i < p
      BY <3>1, <2>1, <2>3, <1>1, <1>5
    <3>2. CASE ~(i < p)
      <4>1. ~(i <= Len(b)) /\ i - Len(b) = i - p + 1 /\ i - p + 1 \in 1..(Len(s) - p)
        BY <3>2, <1>1, <1>5
      <4>2. c[i - p + 1] = s[p + (i - p + 1)] /\ p + (i - p + 1) = i + 1
        BY <4>1, <1>1, <1>6
      <4> QED BY <3>2, <4>1, <4>2, <2>1, <2>3
    <3> QED BY <3>1, <3>2
  <2> QED BY <2>1, <2>2, <2>3, <2>4
<1> HIDE DEF r
<1>8. DOMAIN r = 1..(Len(s) - 1) /\ \A x : x \in ToSet(r) <=> \E i \in 1..(Len(s) - 1) : r[i] = x
  BY <1>7, Places
<1>9. Distinct(r)
  BY <1>1, <1>7, <1>8 DEF Distinct
<1>10. ASSUME NEW x \in ToSet(r) PROVE x \in ToSet(s) \ {e}
  <2>1. PICK i \in 1..(Len(s) - 1) : r[i] = x
    BY <1>8
  <2>2. PICK j \in 1..Len(s) : x = s[j] /\ j # p
    <3>1. CASE i < p
      BY <3>1, <2>1, <1>1, <1>7
    <3>2. CASE ~(i < p)
      BY <3>2, <2>1, <1>1, <1>7
    <3> QED BY <3>1, <3>2
  <2> QED BY <2>2, <1>1, <1>3 DEF ToSet
<1>11. ASSUME NEW x \in ToSet(s), x # e PROVE x \in ToSet(r)
  <2>1. PICK j \in 1..Len(s) : s[j] = x
    BY <1>1 DEF ToSet
  <2>2. CASE j < p
    BY <2>1, <2>2, <1>1, <1>7, <1>8
  <2>3. CASE j > p
    <3>1. j - 1 \in 1..(Len(s) - 1) /\ ~(j - 1 < p) /\ (j - 1) + 1 = j
      BY <2>3, <1>1
    <3> QED BY <3>1, <2>1, <1>7, <1>8
  <2>4. CASE j = p
    BY <2>4, <2>1, <1>2, <1>11
  <2> QED BY <2>2, <2>3, <2>4, <1>1
<1> QED BY <1>7, <1>9, <1>10, <1>11 DEF r

(***************************************************************************)
(* The manager's operators, field by field.                                *)
(***************************************************************************)
Managers == [snap : [Task -> {"none", "queued", "running", "settled"}],
             setup : [Task -> Settings \cup {"none", "ready"}],
             child : [Task -> {"none", "starting", "abandoned", "up", "stopping", "gone"}],
             settling : SUBSET Task, outcome : [Task -> Endings],
             queue : Seq(Task), due : BOOLEAN, drained : Task \cup {None},
             gate : Seq(Task), slot : Task \cup {None}, waiters : Seq(Task),
             file : [Task -> Task], cancelled : SUBSET Task, stale : SUBSET Task,
             consumed : SUBSET Task, waited : SUBSET Task]

\* What a child's end, or a setup, leaves alone.
SameRest(m, n) ==
  /\ n.queue = m.queue /\ n.file = m.file /\ n.waited = m.waited

SameSetups(m, n) ==
  /\ n.setup = m.setup /\ n.gate = m.gate /\ n.slot = m.slot /\ n.waiters = m.waiters
  /\ n.cancelled = m.cancelled /\ n.stale = m.stale /\ n.drained = m.drained

\* Who holds the pane's slot, and who waits for it, once t returned.
SlotAfter(m, t, k) ==
  IF m.slot # t THEN m.slot ELSE IF k < Len(m.waiters) THEN m.waiters[k + 1] ELSE None
WaitersAfter(m, t, k) ==
  IF m.slot # t THEN m.waiters ELSE SubSeq(m.waiters, k + 2, Len(m.waiters))

\* What the end of a setup does to the fields about setups.
SetupOver(m, n, t, k) ==
  /\ n.setup = [m.setup EXCEPT ![t] = "none"] /\ n.gate = m.gate
  /\ n.slot = SlotAfter(m, t, k) /\ n.waiters = WaitersAfter(m, t, k)
  /\ n.cancelled = m.cancelled \ {t} /\ n.stale = m.stale \ {t}
  /\ n.drained = IF m.drained = t THEN None ELSE m.drained

\* What a settlement does, whatever its outcome.
Settles(m, n, t) ==
  /\ n \in Managers /\ SameRest(m, n) /\ SameSetups(m, n)
  /\ n.snap = [m.snap EXCEPT ![t] = "settled"] /\ n.child = m.child
  /\ n.settling = m.settling \ {t} /\ n.due = TRUE
  /\ n.consumed = IF t \in m.waited THEN m.consumed \cup {t} ELSE m.consumed

LEMMA SettleShape ==
  ASSUME NEW m \in Managers, NEW t \in Task
  PROVE  Settles(m, Settle(m, t), t)
  BY DEF Managers, Settle, Settles, SameRest, SameSetups

LEMMA ReleasedShape ==
  ASSUME NEW m \in Managers, NEW t \in Task, NEW k \in Nat
  PROVE  LET n == Released(m, t, k)
         IN /\ n \in Managers /\ SameRest(m, n)
            /\ n.setup = m.setup /\ n.gate = m.gate
            /\ n.cancelled = m.cancelled /\ n.stale = m.stale /\ n.drained = m.drained
            /\ n.snap = m.snap /\ n.child = m.child /\ n.settling = m.settling
            /\ n.due = m.due /\ n.consumed = m.consumed
            /\ n.slot = SlotAfter(m, t, k) /\ n.waiters = WaitersAfter(m, t, k)
<1>1. m.waiters \in Seq(Task)
  BY DEF Managers
<1>2. Len(m.waiters) \in Nat /\ \A i \in 1..Len(m.waiters) : m.waiters[i] \in Task
  BY <1>1, Places, ElementOfSeq
<1>3. SubSeq(m.waiters, k + 2, Len(m.waiters)) \in Seq(Task)
  <2>1. \A i \in (k + 2)..Len(m.waiters) : m.waiters[i] \in Task
    BY <1>2
  <2> QED BY <2>1, <1>2, SubSeqProperties
<1>4. k < Len(m.waiters) => m.waiters[k + 1] \in Task
  BY <1>2
<1> QED BY <1>3, <1>4 DEF Managers, Released, SameRest, SlotAfter, WaitersAfter

LEMMA ReturnedShape ==
  ASSUME NEW m \in Managers, NEW t \in Task, NEW k \in Nat
  PROVE  LET n == Returned(m, t, k)
         IN /\ n \in Managers /\ SameRest(m, n) /\ SetupOver(m, n, t, k)
            /\ n.snap = m.snap /\ n.child = m.child /\ n.settling = m.settling
            /\ n.due = (m.due \/ (m.snap[t] # "running" /\ t \notin m.stale))
            /\ n.consumed = m.consumed
<1> DEFINE r == Released(m, t, k)
<1>1. /\ r \in Managers /\ SameRest(m, r)
      /\ r.setup = m.setup /\ r.gate = m.gate
      /\ r.cancelled = m.cancelled /\ r.stale = m.stale /\ r.drained = m.drained
      /\ r.snap = m.snap /\ r.child = m.child /\ r.settling = m.settling
      /\ r.due = m.due /\ r.consumed = m.consumed
      /\ r.slot = SlotAfter(m, t, k) /\ r.waiters = WaitersAfter(m, t, k)
  BY ReleasedShape
<1> HIDE DEF r
<1>2. Returned(m, t, k) =
        [r EXCEPT !.setup[t] = "none", !.cancelled = @ \ {t}, !.stale = @ \ {t},
                  !.drained = IF @ = t THEN None ELSE @,
                  !.due = @ \/ (m.snap[t] # "running" /\ t \notin m.stale)]
  BY DEF Returned, r
<1> HIDE DEF r
<1> DEFINE e == m.due \/ (m.snap[t] # "running" /\ t \notin m.stale)
           d == IF m.drained = t THEN None ELSE m.drained
           n == [r EXCEPT !.setup[t] = "none", !.cancelled = @ \ {t}, !.stale = @ \ {t},
                          !.drained = d, !.due = e]
<1>4. e \in BOOLEAN /\ d \in Task \cup {None}
  BY DEF Managers
<1>5. Returned(m, t, k) = n
  BY <1>1, <1>2
<1> HIDE DEF e, d
<1>6. /\ n \in Managers
      /\ n.setup = [r.setup EXCEPT ![t] = "none"] /\ n.gate = r.gate
      /\ n.slot = r.slot /\ n.waiters = r.waiters
      /\ n.cancelled = r.cancelled \ {t} /\ n.stale = r.stale \ {t}
      /\ n.drained = d /\ n.due = e
      /\ n.snap = r.snap /\ n.child = r.child /\ n.settling = r.settling
      /\ n.queue = r.queue /\ n.file = r.file /\ n.waited = r.waited /\ n.consumed = r.consumed
  BY <1>1, <1>4 DEF Managers
<1> HIDE DEF n
<1> QED BY <1>1, <1>5, <1>6 DEF SameRest, SetupOver, e, d

\* A setup that ends leaves the task settled; the two ends differ in the outcome.
LEMMA FailedShape ==
  ASSUME NEW m \in Managers, NEW t \in Task, NEW k \in Nat,
         NEW n \in {Failed(m, t, k), GivesUp(m, t, k)}
  PROVE  /\ n \in Managers /\ SameRest(m, n) /\ SetupOver(m, n, t, k)
         /\ n.snap = [m.snap EXCEPT ![t] = "settled"]
         /\ n.child = m.child /\ n.settling = m.settling
         /\ n.due = (m.due \/ t \notin m.stale)
         /\ n.consumed = m.consumed
<1> DEFINE f == [m EXCEPT !.snap[t] = "settled", !.outcome[t] = "refused"]
<1>1. /\ f \in Managers /\ SameRest(m, f) /\ SameSetups(m, f)
      /\ f.snap = [m.snap EXCEPT ![t] = "settled"] /\ f.child = m.child
      /\ f.settling = m.settling /\ f.due = m.due /\ f.consumed = m.consumed
  BY DEF Managers, Endings, SameRest, SameSetups
<1>2. Settled(m, t) => m.snap = [m.snap EXCEPT ![t] = "settled"]
  BY DEF Managers, Settled
<1>3. SameRest(m, m) /\ SameSetups(m, m)
  BY DEF SameRest, SameSetups
<1>4. PICK s \in Managers :
        /\ n = Returned(s, t, k) /\ SameRest(m, s) /\ SameSetups(m, s)
        /\ s.snap = [m.snap EXCEPT ![t] = "settled"] /\ s.child = m.child
        /\ s.settling = m.settling /\ s.due = m.due /\ s.consumed = m.consumed
  <2>1. Failed(m, t, k) = Returned(f, t, k)
    BY DEF Failed
  <2>2. GivesUp(m, t, k) = IF Settled(m, t) THEN Returned(m, t, k) ELSE Returned(f, t, k)
    BY <2>1 DEF GivesUp
  <2> HIDE DEF f
  <2> QED BY <1>1, <1>2, <1>3, <2>1, <2>2
<1> HIDE DEF f
<1>5. SlotAfter(s, t, k) = SlotAfter(m, t, k) /\ WaitersAfter(s, t, k) = WaitersAfter(m, t, k)
  BY <1>4 DEF SameSetups, SlotAfter, WaitersAfter
<1>6. s.snap[t] = "settled"
  BY <1>4 DEF Managers
<1>7. /\ n \in Managers /\ SameRest(s, n) /\ SetupOver(s, n, t, k)
      /\ n.snap = s.snap /\ n.child = s.child /\ n.settling = s.settling
      /\ n.due = (s.due \/ (s.snap[t] # "running" /\ t \notin s.stale))
      /\ n.consumed = s.consumed
  BY <1>4, ReturnedShape
<1>8. SameRest(m, n) /\ SetupOver(m, n, t, k)
  BY <1>4, <1>5, <1>7 DEF SameRest, SameSetups, SetupOver
<1>9. n.due = (m.due \/ t \notin m.stale)
  BY <1>4, <1>6, <1>7 DEF SameSetups
<1> QED BY <1>4, <1>7, <1>8, <1>9

LEMMA StartSettleShape ==
  ASSUME NEW m \in Managers, NEW t \in Task, NEW outcome
  PROVE  LET n == StartSettle(m, t, outcome)
         IN /\ n \in Managers
            /\ Settled(m, t) \/ t \in m.settling => n = m
            /\ ~Settled(m, t) /\ t \notin m.settling /\ AtOnce(m, t, outcome) => Settles(m, n, t)
            /\ ~Settled(m, t) /\ t \notin m.settling /\ ~AtOnce(m, t, outcome) =>
                 /\ SameRest(m, n) /\ SameSetups(m, n)
                 /\ n.snap = m.snap /\ n.child = m.child
                 /\ n.settling = m.settling \cup {t} /\ n.due = m.due
                 /\ n.consumed = m.consumed
<1>1. CASE Settled(m, t) \/ t \in m.settling
  BY <1>1 DEF StartSettle
<1> DEFINE o == IF m.snap[t] # "queued" /\ outcome # "interrupted" THEN "own" ELSE "interrupted"
           c == [m EXCEPT !.outcome[t] = o]
<1>2. o \in Endings
  BY DEF Endings
<1>3. Collect(m, t, outcome) =
        IF AtOnce(m, t, outcome) THEN Settle(c, t) ELSE [c EXCEPT !.settling = @ \cup {t}]
  BY DEF Collect
<1> HIDE DEF o
<1>4. /\ c \in Managers /\ SameRest(m, c) /\ SameSetups(m, c)
      /\ c.snap = m.snap /\ c.child = m.child /\ c.settling = m.settling
      /\ c.due = m.due /\ c.consumed = m.consumed /\ c.waited = m.waited
  BY <1>2 DEF Managers, SameRest, SameSetups
<1> HIDE DEF c
<1>5. CASE ~Settled(m, t) /\ t \notin m.settling /\ AtOnce(m, t, outcome)
  <2>1. Settles(c, Settle(c, t), t)
    BY <1>4, SettleShape
  <2>2. Settles(m, Settle(c, t), t)
    BY <1>4, <2>1 DEF Settles, SameRest, SameSetups
  <2>3. Settle(c, t) \in Managers
    BY <2>2 DEF Settles
  <2> QED BY <1>3, <1>5, <2>2, <2>3 DEF StartSettle
<1>6. CASE ~Settled(m, t) /\ t \notin m.settling /\ ~AtOnce(m, t, outcome)
  <2> DEFINE n == [c EXCEPT !.settling = @ \cup {t}]
  <2>1. /\ n \in Managers /\ SameRest(c, n) /\ SameSetups(c, n)
        /\ n.snap = c.snap /\ n.child = c.child
        /\ n.settling = c.settling \cup {t} /\ n.due = c.due /\ n.consumed = c.consumed
    BY <1>4 DEF Managers, SameRest, SameSetups
  <2> HIDE DEF n
  <2>2. StartSettle(m, t, outcome) = n
    BY <1>3, <1>6 DEF StartSettle, n
  <2>3. /\ SameRest(m, n) /\ SameSetups(m, n)
        /\ n.snap = m.snap /\ n.child = m.child
        /\ n.settling = m.settling \cup {t} /\ n.due = m.due /\ n.consumed = m.consumed
    BY <1>4, <2>1 DEF SameRest, SameSetups
  <2> QED BY <1>6, <2>1, <2>2, <2>3
<1> QED BY <1>1, <1>5, <1>6

(***************************************************************************)
(* Steps that concern one task.                                            *)
(***************************************************************************)
AgreeAt(m, n, u) ==
  /\ n.snap[u] = m.snap[u] /\ n.setup[u] = m.setup[u] /\ n.child[u] = m.child[u]
  /\ u \in n.settling <=> u \in m.settling
  /\ u \in n.stale <=> u \in m.stale
  /\ u \in n.cancelled <=> u \in m.cancelled

Apart(m, n, t) == \A u \in Task \ {t} : AgreeAt(m, n, u)

Continuing(m, u) ==
  m.snap[u] \in {"queued", "running"} \/ (m.setup[u] # "none" /\ ~Settled(m, u))

\* What the life of a task never undoes.
TaskForward(m, n, u) ==
  /\ Settled(m, u) => Settled(n, u) /\ u \notin n.settling
  /\ m.snap[u] # "none" => n.snap[u] # "none"
  /\ m.snap[u] = "running" => n.snap[u] \in {"running", "settled"}
  /\ n.snap[u] = "none" /\ n.setup[u] # "none" => m.snap[u] = "none" /\ m.setup[u] # "none"
  /\ m.snap[u] = "none" /\ m.setup[u] = "none" => n.snap[u] = "none" /\ n.setup[u] = "none"
  /\ Continuing(n, u) => Continuing(m, u)
  /\ n.child[u] \in {"starting", "up"} =>
       \/ m.child[u] \in {"starting", "up"}
       \/ m.setup[u] \in Settings /\ ~Interrupted(m, u)
  /\ n.setup[u] # "none" => m.setup[u] # "none" \/ u \in ToSet(m.queue)
  /\ u \in m.stale /\ n.setup[u] # "none" => u \in n.stale

\* Somebody is about to drain the queue, or nothing is free.
Awake(m) == Full(m) \/ m.due \/ m.settling # {}

Onward(m, n) ==
  /\ \A u \in Task : TaskForward(m, n, u)
  /\ n.stale \subseteq m.stale
  /\ ToSet(n.queue) \subseteq ToSet(m.queue)
  /\ m.queue = <<>> => n.queue = <<>>
  /\ n.file = m.file
  /\ m.stale = {} /\ (m.queue # <<>> => Awake(m)) => (n.queue # <<>> => Awake(n))

Forward(m, n) == Onward(m, n) /\ n.waited = m.waited

\* Only waits consume.
Consumes(m, n, T) == n.consumed \subseteq m.consumed \cup T \cup {u \in m.waited : Settled(n, u)}

LEMMA OccupiedFinite ==
  ASSUME NEW m
  PROVE  IsFiniteSet(Occupied(m)) /\ Cardinality(Occupied(m)) \in Nat
<1>1. Occupied(m) \in SUBSET Task
  BY DEF Occupied, Pending, Children
<1> QED BY <1>1, ManagerAssumption, FS_Subset, FS_CardinalityType

LEMMA OccupiedMonotonic ==
  ASSUME NEW m, NEW n, Occupied(n) \subseteq Occupied(m)
  PROVE  Cardinality(Occupied(n)) <= Cardinality(Occupied(m))
  BY OccupiedFinite, FS_Subset

\* One more task is occupied where there was room.
LEMMA OneMore ==
  ASSUME NEW m, NEW n, NEW t, ~Full(m), Occupied(n) \subseteq Occupied(m) \cup {t}
  PROVE  Cardinality(Occupied(n)) <= MaxRunning
<1>1. IsFiniteSet(Occupied(m)) /\ Cardinality(Occupied(m)) \in Nat
  BY OccupiedFinite
<1>2. /\ IsFiniteSet(Occupied(m) \cup {t})
      /\ Cardinality(Occupied(m) \cup {t}) =
           Cardinality(Occupied(m)) + (IF t \in Occupied(m) THEN 0 ELSE 1)
  BY <1>1, FS_AddElement
<1>3. /\ Cardinality(Occupied(n)) <= Cardinality(Occupied(m) \cup {t})
      /\ Cardinality(Occupied(n)) \in Nat
  BY <1>2, FS_Subset, OccupiedFinite
<1>4. Cardinality(Occupied(m)) < MaxRunning
  BY <1>1, ManagerAssumption DEF Full
<1> QED BY <1>1, <1>2, <1>3, <1>4, ManagerAssumption

LEMMA OneStep ==
  ASSUME NEW m \in Managers, NEW n \in Managers, NEW t \in Task,
         Good(m), Apart(m, n, t), TaskInv(n, t), TaskForward(m, n, t),
         SameRest(m, n), m.setup[t] # "none" \/ m.snap[t] # "queued",
         n.drained # None => n.due,
         GateInv(n), SlotInv(n), n.stale \subseteq m.stale,
         t \in Occupied(n) => t \in Occupied(m),
         m.due => n.due,
         m.stale = {} /\ t \in Occupied(m) => t \in Occupied(n) \/ n.settling # {} \/ n.due,
         t \in m.settling => t \in n.settling \/ n.due
  PROVE  Good(n) /\ Forward(m, n)
<1>1. \A u \in Task : TaskInv(n, u)
  BY DEF Good, Apart, AgreeAt, TaskInv, Settled, Interrupted
<1>2. QueueInv(n)
  <2>1. m.queue \in Seq(Task) /\ ToSet(m.queue) \subseteq Task
    BY Places DEF Managers
  <2>2. t \notin ToSet(m.queue)
    BY DEF Good, QueueInv
  <2> QED BY <2>1, <2>2 DEF Good, QueueInv, SameRest, Apart, AgreeAt
<1>3. \A u \in Task \ {t} : u \in Occupied(n) <=> u \in Occupied(m)
  BY DEF Apart, AgreeAt, Occupied, Pending, Children
<1>4. Occupied(n) \subseteq Task /\ Occupied(m) \subseteq Task
  BY DEF Occupied, Pending, Children
<1>5. Cardinality(Occupied(n)) <= MaxRunning
  <2>1. Occupied(n) \subseteq Occupied(m)
    BY <1>3, <1>4
  <2> QED BY <2>1, OccupiedMonotonic, OccupiedFinite, ManagerAssumption DEF Good
<1>6. Good(n)
  BY <1>1, <1>2, <1>5 DEF Good
<1>7. \A u \in Task : TaskForward(m, n, u)
  BY DEF Good, TaskInv, Apart, AgreeAt, TaskForward, Continuing, Settled
<1>8. ASSUME m.stale = {}, Awake(m) PROVE Awake(n)
  <2>1. CASE n.due \/ n.settling # {}
    BY <2>1 DEF Awake
  <2>2. CASE ~n.due /\ n.settling = {}
    <3>1. ~m.due /\ m.settling = {}
      <4>1. \A u \in m.settling : u \in Task
        BY DEF Managers
      <4> QED BY <2>2, <4>1 DEF Apart, AgreeAt
    <3>2. Full(m)
      BY <3>1, <1>8 DEF Awake
    <3>3. Occupied(m) \subseteq Occupied(n)
      BY <2>2, <1>3, <1>4, <1>8
    <3>4. Full(n)
      BY <3>2, <3>3, OccupiedMonotonic, OccupiedFinite, ManagerAssumption DEF Full
    <3> QED BY <3>4 DEF Awake
  <2> QED BY <2>1, <2>2
<1>9. Forward(m, n)
  BY <1>7, <1>8 DEF Forward, Onward, SameRest
<1> QED BY <1>6, <1>9

(***************************************************************************)
(* The gate of the worktrees.                                              *)
(***************************************************************************)
LEMMA GateKeeps ==
  ASSUME NEW m \in Managers, NEW n \in Managers, NEW t \in Task, NEW v, GateInv(m),
         n.gate = m.gate, n.setup = [m.setup EXCEPT ![t] = v],
         m.setup[t] \notin {"gate", "worktree"}, v \notin {"gate", "worktree"}
  PROVE  GateInv(n)
  BY DEF Managers, GateInv, Opened

LEMMA GateLeft ==
  ASSUME NEW m \in Managers, NEW n \in Managers, NEW t \in Task, NEW v, GateInv(m),
         n.gate = RemoveFirst(m.gate, t), n.setup = [m.setup EXCEPT ![t] = v],
         m.setup[t] \in {"gate", "worktree"}, v \notin {"gate", "worktree"}, Opened(m, t)
  PROVE  GateInv(n)
<1>1. t \in ToSet(m.gate) /\ m.gate \in Seq(Task) /\ Distinct(m.gate)
  BY DEF Managers, GateInv
<1>2. Distinct(n.gate) /\ ToSet(n.gate) = ToSet(m.gate) \ {t}
  BY <1>1, Removed
<1>3. \A u \in Task : n.setup[u] = IF u = t THEN v ELSE m.setup[u]
  BY DEF Managers
<1>4. \A u \in Task : n.setup[u] # "worktree"
  BY <1>3 DEF GateInv, Opened
<1> QED BY <1>2, <1>3, <1>4 DEF GateInv

LEMMA GateJoined ==
  ASSUME NEW m \in Managers, NEW n \in Managers, NEW t \in Task, GateInv(m),
         n.gate = Append(m.gate, t), n.setup = [m.setup EXCEPT ![t] = "gate"],
         m.setup[t] \notin {"gate", "worktree"}
  PROVE  GateInv(n)
<1>1. t \notin ToSet(m.gate) /\ m.gate \in Seq(Task) /\ Distinct(m.gate)
  BY DEF Managers, GateInv
<1>2. /\ Distinct(n.gate) /\ ToSet(n.gate) = ToSet(m.gate) \cup {t}
      /\ m.gate # <<>> => Head(n.gate) = Head(m.gate)
  BY <1>1, Appended
<1>3. \A u \in Task : n.setup[u] = IF u = t THEN "gate" ELSE m.setup[u]
  BY DEF Managers
<1>4. ASSUME NEW u \in Task, n.setup[u] = "worktree" PROVE Opened(n, u)
  <2>1. u \in ToSet(m.gate) /\ Opened(m, u)
    BY <1>3, <1>4 DEF GateInv
  <2>2. m.gate # <<>>
    BY <2>1, Emptied
  <2> QED BY <2>1, <2>2, <1>2 DEF Opened
<1> QED BY <1>2, <1>3, <1>4 DEF GateInv

LEMMA GateOpens ==
  ASSUME NEW m \in Managers, NEW n \in Managers, NEW t \in Task, GateInv(m),
         n.gate = m.gate, n.setup = [m.setup EXCEPT ![t] = "worktree"],
         m.setup[t] = "gate", Opened(m, t)
  PROVE  GateInv(n)
  BY DEF Managers, GateInv, Opened

(***************************************************************************)
(* The pane's slot.                                                        *)
(***************************************************************************)
LEMMA SlotKeeps ==
  ASSUME NEW m \in Managers, NEW n \in Managers, NEW t \in Task, NEW v, SlotInv(m),
         n.slot = m.slot, n.waiters = m.waiters, n.setup = [m.setup EXCEPT ![t] = v],
         m.setup[t] \notin {"pane", "ready"}, v # "ready"
  PROVE  SlotInv(n)
<1>1. \A u \in Task : n.setup[u] = IF u = t THEN v ELSE m.setup[u]
  BY DEF Managers
<1>2. ToSet(m.waiters) \subseteq Task /\ (m.slot # None => m.slot \in Task)
  BY Places DEF Managers
<1> QED BY <1>1, <1>2 DEF SlotInv

\* The end of a setup hands the slot on.
LEMMA SlotHandedOn ==
  ASSUME NEW m \in Managers, NEW n \in Managers, NEW t \in Task, NEW k \in Nat, SlotInv(m),
         n.slot = SlotAfter(m, t, k), n.waiters = WaitersAfter(m, t, k),
         n.setup = [m.setup EXCEPT ![t] = "none"], t \notin ToSet(m.waiters)
  PROVE  SlotInv(n)
<1>1. \A u \in Task : n.setup[u] = IF u = t THEN "none" ELSE m.setup[u]
  BY DEF Managers
<1>2. /\ m.waiters \in Seq(Task) /\ ToSet(m.waiters) \subseteq Task
      /\ m.slot # None => m.slot \in Task
      /\ \A i \in 1..Len(m.waiters) : m.waiters[i] \in ToSet(m.waiters)
      /\ Len(m.waiters) \in Nat
  BY Places DEF Managers
<1>3. CASE m.slot # t
  BY <1>1, <1>2, <1>3 DEF SlotInv, SlotAfter, WaitersAfter
<1>4. CASE m.slot = t /\ k < Len(m.waiters)
  <2>1. /\ n.waiters \in Seq(Task) /\ Distinct(n.waiters)
        /\ ToSet(n.waiters) \subseteq ToSet(m.waiters) \ {m.waiters[k + 1]}
    BY <1>2, <1>4, FirstDropped DEF SlotInv, WaitersAfter
  <2>2. n.slot = m.waiters[k + 1] /\ m.waiters[k + 1] \in ToSet(m.waiters)
    BY <1>2, <1>4 DEF SlotAfter
  <2>3. n.setup[n.slot] = "pane" /\ n.slot # None
    BY <1>1, <1>2, <2>2, ManagerAssumption DEF SlotInv
  <2>4. \A u \in Task : n.setup[u] # "ready"
    BY <1>1, <1>4 DEF SlotInv
  <2> QED BY <1>1, <1>2, <2>1, <2>2, <2>3, <2>4 DEF SlotInv
<1>5. CASE m.slot = t /\ ~(k < Len(m.waiters))
  <2>1. n.slot = None /\ n.waiters = <<>>
    BY <1>2, <1>5, SubSeqEmpty DEF SlotAfter, WaitersAfter
  <2>2. \A u \in Task : n.setup[u] # "ready"
    BY <1>1, <1>5 DEF SlotInv
  <2> QED BY <2>1, <2>2, Emptied DEF SlotInv
<1> QED BY <1>3, <1>4, <1>5

LEMMA WaiterGone ==
  ASSUME NEW m \in Managers, NEW n \in Managers, NEW t \in Task, SlotInv(m),
         n.slot = m.slot, n.waiters = RemoveFirst(m.waiters, t), t \in ToSet(m.waiters),
         n.setup = [m.setup EXCEPT ![t] = "none"]
  PROVE  SlotInv(n)
<1>1. \A u \in Task : n.setup[u] = IF u = t THEN "none" ELSE m.setup[u]
  BY DEF Managers
<1>2. ToSet(m.waiters) \subseteq Task /\ (m.slot # None => m.slot \in Task)
  BY Places DEF Managers
<1>3. Distinct(n.waiters) /\ ToSet(n.waiters) = ToSet(m.waiters) \ {t}
  BY Removed DEF Managers, SlotInv
<1>4. m.slot # None /\ m.slot # t
  BY Emptied DEF SlotInv
<1> QED BY <1>1, <1>2, <1>3, <1>4 DEF SlotInv

LEMMA SlotReserved ==
  ASSUME NEW m \in Managers, NEW n \in Managers, NEW t \in Task, SlotInv(m),
         n.slot = IF m.slot = None THEN t ELSE m.slot,
         n.waiters = IF m.slot = None THEN m.waiters ELSE Append(m.waiters, t),
         n.setup = [m.setup EXCEPT ![t] = "pane"], m.setup[t] \notin {"pane", "ready"}
  PROVE  SlotInv(n)
<1>1. \A u \in Task : n.setup[u] = IF u = t THEN "pane" ELSE m.setup[u]
  BY DEF Managers
<1>2. ToSet(m.waiters) \subseteq Task /\ (m.slot # None => m.slot \in Task) /\ m.waiters \in Seq(Task)
  BY Places DEF Managers
<1>3. t \notin ToSet(m.waiters)
  BY DEF SlotInv
<1>4. CASE m.slot = None
  BY <1>1, <1>4, Emptied, ManagerAssumption DEF SlotInv
<1>5. CASE m.slot # None
  <2>1. Distinct(n.waiters) /\ ToSet(n.waiters) = ToSet(m.waiters) \cup {t}
    BY <1>2, <1>3, <1>5, Appended DEF SlotInv
  <2> QED BY <1>1, <1>2, <1>5, <2>1 DEF SlotInv
<1> QED BY <1>4, <1>5

LEMMA SlotReady ==
  ASSUME NEW m \in Managers, NEW n \in Managers, NEW t \in Task, SlotInv(m),
         n.slot = m.slot, n.waiters = m.waiters, n.setup = [m.setup EXCEPT ![t] = "ready"],
         m.slot = t
  PROVE  SlotInv(n)
<1>1. \A u \in Task : n.setup[u] = IF u = t THEN "ready" ELSE m.setup[u]
  BY DEF Managers
<1>2. ToSet(m.waiters) \subseteq Task
  BY Places DEF Managers
<1> QED BY <1>1, <1>2 DEF SlotInv

(***************************************************************************)
(* The steps of startTask.                                                 *)
(***************************************************************************)
\* A setup that failed, or gave up.
LEMMA SetupFails ==
  ASSUME NEW m \in Managers, NEW n \in Managers, NEW t \in Task,
         Good(m), m.setup[t] \in Settings, SameRest(m, n),
         n.setup = [m.setup EXCEPT ![t] = "none"], n.snap = [m.snap EXCEPT ![t] = "settled"],
         n.child = m.child, n.settling = m.settling,
         n.cancelled = m.cancelled \ {t}, n.stale = m.stale \ {t},
         n.drained = IF m.drained = t THEN None ELSE m.drained,
         n.due = (m.due \/ t \notin m.stale), GateInv(n), SlotInv(n)
  PROVE  Good(n) /\ Forward(m, n)
<1>1. /\ \A u \in Task : n.setup[u] = IF u = t THEN "none" ELSE m.setup[u]
      /\ \A u \in Task : n.snap[u] = IF u = t THEN "settled" ELSE m.snap[u]
  BY DEF Managers
<1>2. Apart(m, n, t)
  BY <1>1 DEF Apart, AgreeAt
<1>3. TaskInv(m, t)
  BY DEF Good
<1>4. m.setup[t] # "none" /\ m.setup[t] # "ready"
  BY DEF Settings
<1>5. TaskInv(n, t)
  BY <1>1, <1>3 DEF TaskInv, Settled, Settings
<1>6. TaskForward(m, n, t)
  BY <1>1, <1>3, <1>4 DEF TaskInv, TaskForward, Settled, Continuing
<1>7. n.drained # None => n.due
  BY DEF Good, QueueInv
<1>8. t \notin Occupied(n)
  BY <1>1 DEF Occupied, Pending, Children, Settings
<1> QED BY <1>2, <1>4, <1>5, <1>6, <1>7, <1>8, OneStep

\* A setup that goes on.
LEMMA SetupGoesOn ==
  ASSUME NEW m \in Managers, NEW n \in Managers, NEW t \in Task, NEW v \in Settings,
         Good(m), m.setup[t] \in Settings, SameRest(m, n),
         n.setup = [m.setup EXCEPT ![t] = v], n.snap = m.snap,
         n.child = m.child, n.settling = m.settling,
         n.cancelled = m.cancelled, n.stale = m.stale, n.drained = m.drained,
         n.due = m.due, GateInv(n), SlotInv(n)
  PROVE  Good(n) /\ Forward(m, n)
<1>1. \A u \in Task : n.setup[u] = IF u = t THEN v ELSE m.setup[u]
  BY DEF Managers
<1>2. Apart(m, n, t)
  BY <1>1 DEF Apart, AgreeAt
<1>3. TaskInv(m, t)
  BY DEF Good
<1>4. m.setup[t] # "none" /\ v \notin {"none", "ready"}
  BY DEF Settings
<1>5. TaskInv(n, t)
  BY <1>1, <1>3, <1>4 DEF TaskInv, Settled, Interrupted
<1>6. TaskForward(m, n, t)
  BY <1>1, <1>3, <1>4 DEF TaskInv, TaskForward, Settled, Continuing
<1>7. n.drained # None => n.due
  BY DEF Good, QueueInv
<1>8. t \in Occupied(n) /\ t \in Occupied(m)
  BY <1>1 DEF Occupied, Pending
<1> QED BY <1>2, <1>4, <1>5, <1>6, <1>7, <1>8, OneStep

\* A child that runs, or whose configuration was refused at once.
LEMMA HeadlessStep ==
  ASSUME NEW m \in Managers, NEW t \in Task, NEW n \in Headless(m, t), Good(m),
         m.setup[t] \in {"git", "base"}, ~Interrupted(m, t)
  PROVE  n \in Managers /\ Good(n) /\ Forward(m, n) /\ Consumes(m, n, {})
<1>1. TaskInv(m, t) /\ m.setup[t] \in Settings /\ GateInv(m) /\ SlotInv(m)
  BY DEF Good, Settings
<1>2. m.snap[t] \in {"none", "queued"} /\ m.child[t] = "none" /\ t \notin m.settling
  <2>1. m.snap[t] \in {"none", "queued", "running", "settled"}
    BY DEF Managers
  <2> QED BY <1>1, <2>1 DEF TaskInv, Settled
<1>3. m.slot # t /\ t \notin ToSet(m.waiters)
  BY <1>1, ManagerAssumption DEF SlotInv
<1>4. SlotAfter(m, t, 0) = m.slot /\ WaitersAfter(m, t, 0) = m.waiters
  BY <1>3 DEF SlotAfter, WaitersAfter
<1> DEFINE l == Launched(m, t)
<1>5. /\ l \in Managers /\ SameRest(m, l) /\ SameSetups(m, l)
      /\ l.snap = [m.snap EXCEPT ![t] = "running"] /\ l.child = m.child
      /\ l.settling = m.settling /\ l.due = m.due /\ l.consumed = m.consumed
  BY DEF Managers, Launched, SameRest, SameSetups
<1>6. l.snap[t] = "running"
  BY <1>5 DEF Managers
<1> HIDE DEF l
<1>7. CASE n = Returned([l EXCEPT !.child[t] = "up"], t, 0)
  <2> DEFINE c == [l EXCEPT !.child[t] = "up"]
  <2>1. /\ c \in Managers /\ SameRest(m, c) /\ SameSetups(m, c)
        /\ c.snap = l.snap /\ c.child = [m.child EXCEPT ![t] = "up"]
        /\ c.settling = m.settling /\ c.due = m.due /\ c.consumed = m.consumed
    BY <1>5 DEF Managers, SameRest, SameSetups
  <2> HIDE DEF c
  <2>2. SlotAfter(c, t, 0) = m.slot /\ WaitersAfter(c, t, 0) = m.waiters
    BY <2>1, <1>3 DEF SlotAfter, WaitersAfter, SameSetups
  <2>3. /\ n \in Managers /\ SameRest(c, n) /\ SetupOver(c, n, t, 0)
        /\ n.snap = c.snap /\ n.child = c.child /\ n.settling = c.settling
        /\ n.due = (c.due \/ (c.snap[t] # "running" /\ t \notin c.stale))
        /\ n.consumed = c.consumed
    BY <1>7, <2>1, ReturnedShape DEF c
  <2>14. n.due = m.due
    <3>1. c.snap[t] = "running"
      BY <2>1, <1>6
    <3> QED BY <3>1, <2>1, <2>3 DEF Managers
  <2>4. /\ SameRest(m, n) /\ n.setup = [m.setup EXCEPT ![t] = "none"]
        /\ n.gate = m.gate /\ n.slot = m.slot /\ n.waiters = m.waiters
        /\ n.cancelled = m.cancelled \ {t} /\ n.stale = m.stale \ {t}
        /\ n.drained = IF m.drained = t THEN None ELSE m.drained
        /\ n.snap = [m.snap EXCEPT ![t] = "running"]
        /\ n.child = [m.child EXCEPT ![t] = "up"] /\ n.settling = m.settling
        /\ n.due = m.due /\ n.consumed = m.consumed
    BY <2>14, <2>1, <2>2, <2>3, <1>5 DEF SameRest, SameSetups, SetupOver
  <2>5. /\ \A u \in Task : n.setup[u] = IF u = t THEN "none" ELSE m.setup[u]
        /\ \A u \in Task : n.snap[u] = IF u = t THEN "running" ELSE m.snap[u]
        /\ \A u \in Task : n.child[u] = IF u = t THEN "up" ELSE m.child[u]
    BY <2>4 DEF Managers
  <2>6. Apart(m, n, t)
    BY <2>4, <2>5 DEF Apart, AgreeAt
  <2>7. TaskInv(n, t)
    BY <2>4, <2>5, <1>2 DEF TaskInv, Settled, Settings
  <2>8. TaskForward(m, n, t)
    BY <2>5, <1>1, <1>2 DEF TaskForward, Settled, Continuing, Settings
  <2>9. GateInv(n) /\ SlotInv(n)
    BY <2>3, <2>4, <1>1, GateKeeps, SlotKeeps
  <2>10. n.drained # None => n.due
    BY <2>4 DEF Good, QueueInv
  <2>11. t \in Occupied(n) /\ t \in Occupied(m)
    BY <2>4, <2>5, <1>1, <1>2 DEF Occupied, Pending, Children
  <2>12. m.setup[t] # "none"
    BY <1>1 DEF Settings
  <2>13. Good(n) /\ Forward(m, n)
    BY <2>3, <2>4, <2>6, <2>7, <2>8, <2>9, <2>10, <2>11, <2>12, OneStep
  <2> QED BY <2>3, <2>4, <2>13 DEF Consumes
<1>8. CASE n = Returned(StartSettle(l, t, "failed"), t, 0)
  <2> DEFINE c == StartSettle(l, t, "failed")
  <2>1. Settles(l, c, t)
    <3>1. ~Settled(l, t) /\ t \notin l.settling /\ AtOnce(l, t, "failed")
      BY <1>2, <1>5, <1>6 DEF Settled, AtOnce, Unstarted
    <3> QED BY <3>1, <1>5, StartSettleShape
  <2> HIDE DEF c
  <2>2. /\ c \in Managers /\ SameRest(l, c) /\ SameSetups(l, c)
        /\ c.snap = [l.snap EXCEPT ![t] = "settled"] /\ c.child = l.child
        /\ c.settling = l.settling \ {t} /\ c.due = TRUE
        /\ c.consumed = IF t \in l.waited THEN l.consumed \cup {t} ELSE l.consumed
    BY <2>1 DEF Settles
  <2>3. /\ n \in Managers /\ SameRest(c, n) /\ SetupOver(c, n, t, 0)
        /\ n.snap = c.snap /\ n.child = c.child /\ n.settling = c.settling
        /\ n.due = (c.due \/ (c.snap[t] # "running" /\ t \notin c.stale))
        /\ n.consumed = c.consumed
    BY <1>8, <2>2, ReturnedShape DEF c
  <2>4. SlotAfter(c, t, 0) = m.slot /\ WaitersAfter(c, t, 0) = m.waiters
    BY <2>2, <1>3, <1>5 DEF SlotAfter, WaitersAfter, SameSetups
  <2>5. c.snap = [m.snap EXCEPT ![t] = "settled"] /\ c.settling = m.settling
    BY <2>2, <1>2, <1>5 DEF Managers
  <2>6. /\ SameRest(m, n) /\ n.setup = [m.setup EXCEPT ![t] = "none"]
        /\ n.gate = m.gate /\ n.slot = m.slot /\ n.waiters = m.waiters
        /\ n.cancelled = m.cancelled \ {t} /\ n.stale = m.stale \ {t}
        /\ n.drained = IF m.drained = t THEN None ELSE m.drained
        /\ n.snap = [m.snap EXCEPT ![t] = "settled"]
        /\ n.child = m.child /\ n.settling = m.settling
        /\ n.due = TRUE
        /\ n.consumed = IF t \in m.waited THEN m.consumed \cup {t} ELSE m.consumed
    BY <2>2, <2>3, <2>4, <2>5, <1>5 DEF SameRest, SameSetups, SetupOver
  <2>7. Good(n) /\ Forward(m, n)
    <3>1. GateInv(n) /\ SlotInv(n)
      BY <2>3, <2>6, <1>1, GateKeeps, SlotKeeps
    <3>2. n.due = (m.due \/ t \notin m.stale)
      BY <2>6 DEF Interrupted
    <3> QED BY <2>3, <2>6, <1>1, <3>1, <3>2, SetupFails
  <2>8. Settled(n, t)
    BY <2>6 DEF Settled, Managers
  <2> QED BY <2>3, <2>6, <2>7, <2>8 DEF Consumes
<1> QED BY <1>7, <1>8 DEF Headless, l

Steady(m, n) == n \in Managers /\ Good(n) /\ Forward(m, n) /\ Consumes(m, n, {})

LEMMA FailedStep ==
  ASSUME NEW m \in Managers, NEW t \in Task, NEW k \in Nat, Good(m),
         m.setup[t] \in {"git", "base", "pane"}, t \notin ToSet(m.waiters),
         NEW n \in {Failed(m, t, k), GivesUp(m, t, k)}
  PROVE  Steady(m, n)
<1>1. /\ n \in Managers /\ SameRest(m, n) /\ SetupOver(m, n, t, k)
      /\ n.snap = [m.snap EXCEPT ![t] = "settled"]
      /\ n.child = m.child /\ n.settling = m.settling
      /\ n.due = (m.due \/ t \notin m.stale)
      /\ n.consumed = m.consumed
  BY FailedShape
<1>2. GateInv(n) /\ SlotInv(n)
  BY <1>1, GateKeeps, SlotHandedOn DEF Good, SetupOver
<1>3. Good(n) /\ Forward(m, n)
  BY <1>1, <1>2, SetupFails DEF SetupOver, Settings
<1> QED BY <1>1, <1>3 DEF Steady, Consumes

LEMMA FailedAtGate ==
  ASSUME NEW m \in Managers, NEW t \in Task, Good(m),
         m.setup[t] \in {"gate", "worktree"}, Opened(m, t)
  PROVE  LET g == [m EXCEPT !.gate = RemoveFirst(@, t)]
         IN \A n \in {Failed(g, t, 0), GivesUp(g, t, 0)} : Steady(m, n)
<1> DEFINE g == [m EXCEPT !.gate = RemoveFirst(@, t)]
<1> SUFFICES ASSUME NEW n \in {Failed(g, t, 0), GivesUp(g, t, 0)} PROVE Steady(m, n)
  OBVIOUS
<1>1. RemoveFirst(m.gate, t) \in Seq(Task)
  BY Removed DEF Managers, Good, GateInv
<1>2. /\ g \in Managers /\ SameRest(m, g) /\ g.gate = RemoveFirst(m.gate, t)
      /\ g.setup = m.setup /\ g.slot = m.slot /\ g.waiters = m.waiters
      /\ g.cancelled = m.cancelled /\ g.stale = m.stale /\ g.drained = m.drained
      /\ g.snap = m.snap /\ g.child = m.child /\ g.settling = m.settling
      /\ g.due = m.due /\ g.consumed = m.consumed
  BY <1>1 DEF Managers, SameRest
<1> HIDE DEF g
<1>3. /\ n \in Managers /\ SameRest(g, n) /\ SetupOver(g, n, t, 0)
      /\ n.snap = [g.snap EXCEPT ![t] = "settled"]
      /\ n.child = g.child /\ n.settling = g.settling
      /\ n.due = (g.due \/ t \notin g.stale)
      /\ n.consumed = g.consumed
  BY <1>2, FailedShape
<1>4. SlotAfter(g, t, 0) = m.slot /\ WaitersAfter(g, t, 0) = m.waiters
  <2>1. m.slot # t
    BY ManagerAssumption DEF Good, SlotInv
  <2> QED BY <2>1, <1>2 DEF SlotAfter, WaitersAfter
<1>5. /\ SameRest(m, n) /\ n.setup = [m.setup EXCEPT ![t] = "none"]
      /\ n.gate = RemoveFirst(m.gate, t) /\ n.slot = m.slot /\ n.waiters = m.waiters
      /\ n.cancelled = m.cancelled \ {t} /\ n.stale = m.stale \ {t}
      /\ n.drained = IF m.drained = t THEN None ELSE m.drained
      /\ n.snap = [m.snap EXCEPT ![t] = "settled"]
      /\ n.child = m.child /\ n.settling = m.settling
      /\ n.due = (m.due \/ t \notin m.stale) /\ n.consumed = m.consumed
  BY <1>2, <1>3, <1>4 DEF SameRest, SetupOver
<1>6. GateInv(n) /\ SlotInv(n)
  BY <1>3, <1>5, GateLeft, SlotKeeps DEF Good
<1>7. Good(n) /\ Forward(m, n)
  BY <1>3, <1>5, <1>6, SetupFails DEF Settings
<1> QED BY <1>3, <1>5, <1>7 DEF Steady, Consumes

LEMMA FailedWaiting ==
  ASSUME NEW m \in Managers, NEW t \in Task, Good(m), t \in ToSet(m.waiters)
  PROVE  Steady(m, Failed([m EXCEPT !.waiters = RemoveFirst(@, t)], t, 0))
<1> DEFINE g == [m EXCEPT !.waiters = RemoveFirst(@, t)]
           n == Failed(g, t, 0)
<1>1. RemoveFirst(m.waiters, t) \in Seq(Task)
  BY Removed DEF Managers, Good, SlotInv
<1>2. /\ g \in Managers /\ SameRest(m, g) /\ g.waiters = RemoveFirst(m.waiters, t)
      /\ g.setup = m.setup /\ g.slot = m.slot /\ g.gate = m.gate
      /\ g.cancelled = m.cancelled /\ g.stale = m.stale /\ g.drained = m.drained
      /\ g.snap = m.snap /\ g.child = m.child /\ g.settling = m.settling
      /\ g.due = m.due /\ g.consumed = m.consumed
  BY <1>1 DEF Managers, SameRest
<1> HIDE DEF g
<1>3. /\ n \in Managers /\ SameRest(g, n) /\ SetupOver(g, n, t, 0)
      /\ n.snap = [g.snap EXCEPT ![t] = "settled"]
      /\ n.child = g.child /\ n.settling = g.settling
      /\ n.due = (g.due \/ t \notin g.stale)
      /\ n.consumed = g.consumed
  BY <1>2, FailedShape
<1> HIDE DEF n
<1>4. SlotAfter(g, t, 0) = m.slot /\ WaitersAfter(g, t, 0) = RemoveFirst(m.waiters, t)
  <2>1. m.slot # t
    BY DEF Good, SlotInv
  <2> QED BY <2>1, <1>2 DEF SlotAfter, WaitersAfter
<1>5. /\ SameRest(m, n) /\ n.setup = [m.setup EXCEPT ![t] = "none"]
      /\ n.gate = m.gate /\ n.slot = m.slot /\ n.waiters = RemoveFirst(m.waiters, t)
      /\ n.cancelled = m.cancelled \ {t} /\ n.stale = m.stale \ {t}
      /\ n.drained = IF m.drained = t THEN None ELSE m.drained
      /\ n.snap = [m.snap EXCEPT ![t] = "settled"]
      /\ n.child = m.child /\ n.settling = m.settling
      /\ n.due = (m.due \/ t \notin m.stale) /\ n.consumed = m.consumed
  BY <1>2, <1>3, <1>4 DEF SameRest, SetupOver
<1>6. m.setup[t] = "pane"
  BY DEF Good, SlotInv
<1>7. GateInv(n) /\ SlotInv(n)
  BY <1>3, <1>5, <1>6, GateKeeps, WaiterGone DEF Good
<1>8. Good(n) /\ Forward(m, n)
  BY <1>3, <1>5, <1>6, <1>7, SetupFails DEF Settings
<1> QED BY <1>3, <1>5, <1>8 DEF Steady, Consumes, n, g

\* The pane's slot is taken or waited for, or a headless child is launched.
LEMMA PreparedStep ==
  ASSUME NEW m \in Managers, NEW t \in Task, NEW n \in Prepared(m, t), Good(m),
         m.setup[t] \in {"git", "base"}, ~Interrupted(m, t)
  PROVE  Steady(m, n)
<1>1. CASE n = Reserve(m, t)
  <2> DEFINE s == IF m.slot = None THEN t ELSE m.slot
             w == IF m.slot = None THEN m.waiters ELSE Append(m.waiters, t)
  <2>1. s \in Task \cup {None} /\ w \in Seq(Task)
    <3>1. m.waiters \in Seq(Task) /\ m.slot \in Task \cup {None}
      BY DEF Managers
    <3> QED BY <3>1, AppendProperties
  <2>2. n = [m EXCEPT !.setup[t] = "pane", !.slot = s, !.waiters = w]
    BY <1>1 DEF Reserve, Managers
  <2> HIDE DEF s, w
  <2>3. /\ n \in Managers /\ SameRest(m, n) /\ n.setup = [m.setup EXCEPT ![t] = "pane"]
        /\ n.slot = s /\ n.waiters = w /\ n.gate = m.gate
        /\ n.cancelled = m.cancelled /\ n.stale = m.stale /\ n.drained = m.drained
        /\ n.snap = m.snap /\ n.child = m.child /\ n.settling = m.settling
        /\ n.due = m.due /\ n.consumed = m.consumed
    BY <2>1, <2>2 DEF Managers, Settings, SameRest
  <2>4. GateInv(n)
    BY <2>3, GateKeeps DEF Good
  <2>5. SlotInv(n)
    BY <2>3, SlotReserved DEF Good, s, w
  <2>6. Good(n) /\ Forward(m, n)
    BY <2>3, <2>4, <2>5, SetupGoesOn DEF Settings
  <2> QED BY <2>3, <2>6 DEF Steady, Consumes
<1>2. CASE n \in Headless(m, t)
  BY <1>2, HeadlessStep DEF Steady
<1> QED BY <1>1, <1>2 DEF Prepared

(***************************************************************************)
(* The actions of startTask and drainQueue.                                *)
(***************************************************************************)
LEMMA GitReadStep ==
  ASSUME mgr \in Managers, Good(mgr), NEW t \in Task, GitRead(t)
  PROVE  Steady(mgr, mgr')
<1>1. mgr.setup[t] = "git" /\ t \notin ToSet(mgr.waiters)
  BY DEF GitRead, Good, SlotInv
<1>2. CASE mgr' = GivesUp(mgr, t, 0) \/ mgr' = Failed(mgr, t, 0)
  BY <1>1, <1>2, FailedStep
<1>3. CASE ~Interrupted(mgr, t) /\ mgr' \in Prepared(mgr, t)
  BY <1>1, <1>3, PreparedStep
<1>4. CASE mgr' = [mgr EXCEPT !.setup[t] = "gate", !.gate = Append(@, t)]
  <2>1. Append(mgr.gate, t) \in Seq(Task)
    BY AppendProperties DEF Managers
  <2>2. /\ mgr' \in Managers /\ SameRest(mgr, mgr')
        /\ mgr'.setup = [mgr.setup EXCEPT ![t] = "gate"] /\ mgr'.gate = Append(mgr.gate, t)
        /\ mgr'.slot = mgr.slot /\ mgr'.waiters = mgr.waiters
        /\ mgr'.cancelled = mgr.cancelled /\ mgr'.stale = mgr.stale
        /\ mgr'.drained = mgr.drained
        /\ mgr'.snap = mgr.snap /\ mgr'.child = mgr.child /\ mgr'.settling = mgr.settling
        /\ mgr'.due = mgr.due /\ mgr'.consumed = mgr.consumed
    BY <1>4, <2>1 DEF Managers, Settings, SameRest
  <2>3. GateInv(mgr') /\ SlotInv(mgr')
    BY <1>1, <2>2, GateJoined, SlotKeeps DEF Good
  <2>4. Good(mgr') /\ Forward(mgr, mgr')
    BY <1>1, <2>2, <2>3, SetupGoesOn DEF Settings
  <2> QED BY <2>2, <2>4 DEF Steady, Consumes
<1> QED BY <1>2, <1>3, <1>4 DEF GitRead

LEMMA GateTurnStep ==
  ASSUME mgr \in Managers, Good(mgr), NEW t \in Task, GateTurn(t)
  PROVE  Steady(mgr, mgr')
<1>1. mgr.setup[t] = "gate" /\ Opened(mgr, t)
  BY DEF GateTurn
<1>2. CASE mgr' = GivesUp([mgr EXCEPT !.gate = RemoveFirst(@, t)], t, 0)
  BY <1>1, <1>2, FailedAtGate
<1>3. CASE mgr' = [mgr EXCEPT !.setup[t] = "worktree"]
  <2>1. /\ mgr' \in Managers /\ SameRest(mgr, mgr')
        /\ mgr'.setup = [mgr.setup EXCEPT ![t] = "worktree"] /\ mgr'.gate = mgr.gate
        /\ mgr'.slot = mgr.slot /\ mgr'.waiters = mgr.waiters
        /\ mgr'.cancelled = mgr.cancelled /\ mgr'.stale = mgr.stale
        /\ mgr'.drained = mgr.drained
        /\ mgr'.snap = mgr.snap /\ mgr'.child = mgr.child /\ mgr'.settling = mgr.settling
        /\ mgr'.due = mgr.due /\ mgr'.consumed = mgr.consumed
    BY <1>3 DEF Managers, Settings, SameRest
  <2>2. GateInv(mgr') /\ SlotInv(mgr')
    BY <1>1, <2>1, GateOpens, SlotKeeps DEF Good
  <2>3. Good(mgr') /\ Forward(mgr, mgr')
    BY <1>1, <2>1, <2>2, SetupGoesOn DEF Settings
  <2> QED BY <2>1, <2>3 DEF Steady, Consumes
<1> QED BY <1>2, <1>3 DEF GateTurn

LEMMA WorktreeMadeStep ==
  ASSUME mgr \in Managers, Good(mgr), NEW t \in Task, WorktreeMade(t)
  PROVE  Steady(mgr, mgr')
<1> DEFINE g == [mgr EXCEPT !.gate = RemoveFirst(@, t)]
<1>1. mgr.setup[t] = "worktree" /\ Opened(mgr, t)
  BY DEF WorktreeMade, Good, GateInv
<1>2. CASE mgr' = Failed(g, t, 0)
  BY <1>1, <1>2, FailedAtGate
<1>3. CASE mgr' = [g EXCEPT !.setup[t] = "base"]
  <2>1. RemoveFirst(mgr.gate, t) \in Seq(Task)
    BY <1>1, Removed DEF Managers, Good, GateInv
  <2>2. /\ mgr' \in Managers /\ SameRest(mgr, mgr')
        /\ mgr'.setup = [mgr.setup EXCEPT ![t] = "base"]
        /\ mgr'.gate = RemoveFirst(mgr.gate, t)
        /\ mgr'.slot = mgr.slot /\ mgr'.waiters = mgr.waiters
        /\ mgr'.cancelled = mgr.cancelled /\ mgr'.stale = mgr.stale
        /\ mgr'.drained = mgr.drained
        /\ mgr'.snap = mgr.snap /\ mgr'.child = mgr.child /\ mgr'.settling = mgr.settling
        /\ mgr'.due = mgr.due /\ mgr'.consumed = mgr.consumed
    BY <1>3, <2>1 DEF Managers, Settings, SameRest
  <2>3. GateInv(mgr') /\ SlotInv(mgr')
    BY <1>1, <2>2, GateLeft, SlotKeeps DEF Good
  <2>4. Good(mgr') /\ Forward(mgr, mgr')
    BY <1>1, <2>2, <2>3, SetupGoesOn DEF Settings
  <2> QED BY <2>2, <2>4 DEF Steady, Consumes
<1> QED BY <1>2, <1>3 DEF WorktreeMade

LEMMA BaseResolvedStep ==
  ASSUME mgr \in Managers, Good(mgr), NEW t \in Task, BaseResolved(t)
  PROVE  Steady(mgr, mgr')
<1>1. mgr.setup[t] = "base" /\ t \notin ToSet(mgr.waiters)
  BY DEF BaseResolved, Good, SlotInv
<1>2. CASE mgr' = GivesUp(mgr, t, 0) \/ mgr' = Failed(mgr, t, 0)
  BY <1>1, <1>2, FailedStep
<1>3. CASE ~Interrupted(mgr, t) /\ mgr' \in Prepared(mgr, t)
  BY <1>1, <1>3, PreparedStep
<1> QED BY <1>2, <1>3 DEF BaseResolved

LEMMA PaneRefusedStep ==
  ASSUME mgr \in Managers, Good(mgr), NEW t \in Task, PaneRefused(t)
  PROVE  Steady(mgr, mgr')
  BY FailedStep DEF PaneRefused

LEMMA PaneTimesOutStep ==
  ASSUME mgr \in Managers, Good(mgr), NEW t \in Task, PaneTimesOut(t)
  PROVE  Steady(mgr, mgr')
  BY FailedWaiting DEF PaneTimesOut

LEMMA PaneGrantedStep ==
  ASSUME mgr \in Managers, Good(mgr), NEW t \in Task, PaneGranted(t)
  PROVE  Steady(mgr, mgr')
<1>1. /\ mgr.setup[t] = "pane" /\ mgr.slot = t /\ t \notin ToSet(mgr.waiters)
      /\ Len(mgr.waiters) \in Nat
  BY LenProperties DEF PaneGranted, Good, SlotInv, Managers
<1>2. PICK k \in Nat : \/ mgr' = GivesUp(mgr, t, k)
                       \/ mgr' = Failed(mgr, t, k)
                       \/ ~Interrupted(mgr, t) /\ mgr' = Pane(mgr, t)
  BY <1>1 DEF PaneGranted, Expiring
<1>3. CASE mgr' = GivesUp(mgr, t, k) \/ mgr' = Failed(mgr, t, k)
  BY <1>1, <1>3, FailedStep
<1>4. CASE ~Interrupted(mgr, t) /\ mgr' = Pane(mgr, t)
  <2>1. /\ mgr' \in Managers /\ SameRest(mgr, mgr')
        /\ mgr'.setup = [mgr.setup EXCEPT ![t] = "ready"] /\ mgr'.gate = mgr.gate
        /\ mgr'.slot = mgr.slot /\ mgr'.waiters = mgr.waiters
        /\ mgr'.cancelled = mgr.cancelled /\ mgr'.stale = mgr.stale
        /\ mgr'.drained = mgr.drained
        /\ mgr'.snap = [mgr.snap EXCEPT ![t] = "running"]
        /\ mgr'.child = [mgr.child EXCEPT ![t] = "starting"]
        /\ mgr'.settling = mgr.settling
        /\ mgr'.due = mgr.due /\ mgr'.consumed = mgr.consumed
    BY <1>4 DEF Pane, Launched, Managers, SameRest
  <2>2. /\ \A u \in Task : mgr'.setup[u] = IF u = t THEN "ready" ELSE mgr.setup[u]
        /\ \A u \in Task : mgr'.snap[u] = IF u = t THEN "running" ELSE mgr.snap[u]
        /\ \A u \in Task : mgr'.child[u] = IF u = t THEN "starting" ELSE mgr.child[u]
    BY <2>1 DEF Managers
  <2>3. TaskInv(mgr, t)
    BY DEF Good
  <2>4. mgr.snap[t] \in {"none", "queued"} /\ t \notin mgr.settling /\ mgr.setup[t] \in Settings
    <3>1. mgr.snap[t] \in {"none", "queued", "running", "settled"}
      BY DEF Managers
    <3> QED BY <1>1, <1>4, <2>3, <3>1 DEF TaskInv, Settled, Settings
  <2>5. Apart(mgr, mgr', t)
    BY <2>1, <2>2 DEF Apart, AgreeAt
  <2>6. TaskInv(mgr', t)
    BY <2>1, <2>2, <2>4 DEF TaskInv, Settled, Settings
  <2>7. TaskForward(mgr, mgr', t)
    BY <1>4, <2>1, <2>2, <2>4 DEF TaskForward, Settled, Continuing, Settings
  <2>8. GateInv(mgr') /\ SlotInv(mgr')
    <3>1. GateInv(mgr')
      <4>1. GateInv(mgr) /\ mgr.setup[t] \notin {"gate", "worktree"}
        BY <1>1 DEF Good
      <4> QED BY <4>1, <2>1, GateKeeps
    <3>2. SlotInv(mgr')
      BY <1>1, <2>1, SlotReady DEF Good
    <3> QED BY <3>1, <3>2
  <2>9. mgr'.drained # None => mgr'.due
    BY <2>1 DEF Good, QueueInv
  <2>10. t \in Occupied(mgr') /\ t \in Occupied(mgr)
    BY <2>1, <2>2, <2>4 DEF Occupied, Pending, Children
  <2>11. mgr.setup[t] # "none"
    BY <1>1
  <2>12. Good(mgr') /\ Forward(mgr, mgr')
    BY <2>1, <2>5, <2>6, <2>7, <2>8, <2>9, <2>10, <2>11, OneStep
  <2> QED BY <2>1, <2>12 DEF Steady, Consumes
<1> QED BY <1>2, <1>3, <1>4

LEMMA LaunchReturnsStep ==
  ASSUME mgr \in Managers, Good(mgr), NEW t \in Task, LaunchReturns(t)
  PROVE  Steady(mgr, mgr')
<1>1. /\ mgr.setup[t] = "ready" /\ mgr.child[t] \notin {"starting", "abandoned"}
      /\ t \notin mgr.settling /\ TaskInv(mgr, t) /\ t \notin ToSet(mgr.waiters)
  BY DEF LaunchReturns, Ready, Good, SlotInv
<1>2. PICK k \in Nat : mgr' = Returned(mgr, t, k)
  BY LenProperties DEF LaunchReturns, Expiring, Managers
<1>3. /\ mgr' \in Managers /\ SameRest(mgr, mgr') /\ SetupOver(mgr, mgr', t, k)
      /\ mgr'.snap = mgr.snap /\ mgr'.child = mgr.child /\ mgr'.settling = mgr.settling
      /\ mgr'.due = (mgr.due \/ (mgr.snap[t] # "running" /\ t \notin mgr.stale))
      /\ mgr'.consumed = mgr.consumed
  BY <1>2, ReturnedShape
<1>4. /\ mgr'.cancelled = mgr.cancelled \ {t} /\ mgr'.stale = mgr.stale \ {t}
      /\ \A u \in Task : mgr'.setup[u] = IF u = t THEN "none" ELSE mgr.setup[u]
  BY <1>3 DEF SetupOver, Managers
<1>5. Apart(mgr, mgr', t)
  BY <1>3, <1>4 DEF Apart, AgreeAt
<1>6. TaskInv(mgr', t)
  BY <1>1, <1>3, <1>4 DEF TaskInv, Settled, Settings
<1>7. TaskForward(mgr, mgr', t)
  BY <1>1, <1>3, <1>4 DEF TaskInv, TaskForward, Settled, Continuing
<1>8. GateInv(mgr') /\ SlotInv(mgr')
  BY <1>1, <1>3, GateKeeps, SlotHandedOn DEF Good, SetupOver
<1>9. mgr'.drained # None => mgr'.due
  BY <1>3 DEF Good, QueueInv, SetupOver
<1>10. t \in Occupied(mgr') <=> t \in Occupied(mgr)
  BY <1>1, <1>3, <1>4 DEF Occupied, Pending, Children, Settings
<1>11. Good(mgr') /\ Forward(mgr, mgr')
  BY <1>1, <1>3, <1>4, <1>5, <1>6, <1>7, <1>8, <1>9, <1>10, OneStep
<1> QED BY <1>3, <1>11 DEF Steady, Consumes

(***************************************************************************)
(* The child's steps.                                                      *)
(***************************************************************************)
\* A child or a settlement goes on.
LEMMA ChildGoesOn ==
  ASSUME NEW m \in Managers, NEW n \in Managers, NEW t \in Task, NEW x, NEW v,
         Good(m), m.snap[t] \in {"running", "settled"}, m.setup[t] \notin Settings,
         SameRest(m, n), SameSetups(m, n),
         n.snap = [m.snap EXCEPT ![t] = v], n.child = [m.child EXCEPT ![t] = x],
         v \in {m.snap[t], "settled"},
         m.snap[t] = "settled" \/ v = "settled" => t \notin n.settling,
         x \in {"starting", "up"} =>
           m.child[t] \in {"starting", "up"} /\ v = m.snap[t] /\ t \notin n.settling,
         \A u \in Task \ {t} : u \in n.settling <=> u \in m.settling,
         m.due => n.due,
         t \in Occupied(m) => t \in Occupied(n) \/ n.settling # {} \/ n.due,
         t \in m.settling => t \in n.settling \/ (n.due /\ v = "settled")
  PROVE  Good(n) /\ Forward(m, n)
<1>1. /\ \A u \in Task : n.snap[u] = IF u = t THEN v ELSE m.snap[u]
      /\ \A u \in Task : n.child[u] = IF u = t THEN x ELSE m.child[u]
  BY DEF Managers
<1>2. TaskInv(m, t)
  BY DEF Good
<1>3. Apart(m, n, t)
  BY <1>1 DEF Apart, AgreeAt, SameSetups
<1>4. TaskInv(n, t)
  BY <1>1, <1>2 DEF TaskInv, Settled, SameSetups
<1>5. TaskForward(m, n, t)
  BY <1>1, <1>2 DEF TaskInv, TaskForward, Settled, Continuing, SameSetups
<1>6. GateInv(n) /\ SlotInv(n)
  BY DEF Good, GateInv, SlotInv, SameSetups, Opened
<1>7. n.drained # None => n.due
  BY DEF Good, QueueInv, SameSetups
<1>8. t \in Occupied(n) => t \in Occupied(m)
  BY <1>1, <1>2 DEF Occupied, Pending, Children, SameSetups, TaskInv
<1>9. n.stale \subseteq m.stale
  BY DEF SameSetups
<1> QED BY <1>3, <1>4, <1>5, <1>6, <1>7, <1>8, <1>9, OneStep

\* A child that is gone settles once its manifest is there.
LEMMA EndsStep ==
  ASSUME NEW m \in Managers, NEW t \in Task, NEW outcome, Good(m), m.child[t] # "none"
  PROVE  Steady(m, Ends(m, t, outcome))
<1> DEFINE g == [m EXCEPT !.child[t] = "gone"]
           n == StartSettle(g, t, outcome)
<1>1. TaskInv(m, t)
  BY DEF Good
<1>2. m.snap[t] \in {"running", "settled"} /\ m.setup[t] \notin Settings
  BY <1>1 DEF TaskInv
<1>3. /\ g \in Managers /\ SameRest(m, g) /\ SameSetups(m, g)
      /\ g.snap = m.snap /\ g.child = [m.child EXCEPT ![t] = "gone"]
      /\ g.settling = m.settling /\ g.due = m.due /\ g.consumed = m.consumed
  BY DEF Managers, SameRest, SameSetups
<1>4. m.snap = [m.snap EXCEPT ![t] = m.snap[t]] /\ g.child[t] = "gone"
  BY <1>3 DEF Managers
<1> HIDE DEF g
<1>5. Settled(m, t) => t \notin m.settling
  BY <1>1 DEF TaskInv, Settled
<1>6. CASE Settled(m, t) \/ t \in m.settling
  <2>1. n = g
    BY <1>3, <1>6, StartSettleShape DEF Settled
  <2>2. t \in Occupied(m) => t \in Occupied(g)
    BY <1>3 DEF Occupied, Pending, Children, SameSetups
  <2>3. Good(g) /\ Forward(m, g)
    BY <1>1, <1>2, <1>3, <1>4, <1>5, <2>2, ChildGoesOn DEF Settled
  <2> QED BY <2>1, <2>3, <1>3 DEF Steady, Consumes, Ends, g
<1>7. CASE ~(Settled(m, t) \/ t \in m.settling)
  <2>1. /\ n \in Managers /\ SameRest(g, n) /\ SameSetups(g, n)
        /\ n.snap = g.snap /\ n.child = g.child
        /\ n.settling = g.settling \cup {t} /\ n.due = g.due /\ n.consumed = g.consumed
    <3>1. ~Settled(g, t) /\ t \notin g.settling /\ ~AtOnce(g, t, outcome)
      BY <1>2, <1>3, <1>4, <1>7 DEF Settled, AtOnce, Unstarted
    <3> QED BY <3>1, <1>3, StartSettleShape
  <2> HIDE DEF n
  <2>2. /\ SameRest(m, n) /\ SameSetups(m, n) /\ n.snap = m.snap
        /\ n.child = [m.child EXCEPT ![t] = "gone"]
        /\ n.settling = m.settling \cup {t} /\ n.consumed = m.consumed
    BY <1>3, <2>1 DEF SameRest, SameSetups
  <2>5. m.due => n.due
    BY <1>3, <2>1
  <2>3. m.snap[t] # "settled"
    BY <1>7 DEF Settled
  <2>4. Good(n) /\ Forward(m, n)
    BY <1>2, <1>4, <2>1, <2>2, <2>3, <2>5, ChildGoesOn
  <2> QED BY <2>1, <2>2, <2>4 DEF Steady, Consumes, Ends, g, n
<1> QED BY <1>6, <1>7

LEMMA PaneStartsStep ==
  ASSUME mgr \in Managers, Good(mgr), NEW t \in Task, PaneStarts(t)
  PROVE  Steady(mgr, mgr')
<1>1. TaskInv(mgr, t) /\ mgr.child[t] \in {"starting", "abandoned"}
  BY DEF Good, PaneStarts
<1>2. mgr.snap[t] \in {"running", "settled"} /\ mgr.setup[t] \notin Settings
  BY <1>1 DEF TaskInv
<1>3. mgr.snap = [mgr.snap EXCEPT ![t] = mgr.snap[t]]
  BY DEF Managers
<1>4. Settled(mgr, t) => t \notin mgr.settling
  BY <1>1 DEF TaskInv, Settled
<1>5. CASE mgr.child[t] = "starting" /\ mgr' = [mgr EXCEPT !.child[t] = "up"]
  <2>1. /\ mgr' \in Managers /\ SameRest(mgr, mgr') /\ SameSetups(mgr, mgr')
        /\ mgr'.snap = mgr.snap /\ mgr'.child = [mgr.child EXCEPT ![t] = "up"]
        /\ mgr'.settling = mgr.settling /\ mgr'.due = mgr.due /\ mgr'.consumed = mgr.consumed
    BY <1>5 DEF Managers, SameRest, SameSetups
  <2>2. t \in Occupied(mgr) => t \in Occupied(mgr')
    BY <2>1 DEF Occupied, Pending, Children, SameSetups
  <2>3. t \notin mgr.settling
    BY <1>1, <1>5 DEF TaskInv
  <2>4. mgr'.snap = [mgr.snap EXCEPT ![t] = mgr.snap[t]] /\ mgr.child[t] = "starting"
    BY <1>3, <1>5, <2>1
  <2>5. Good(mgr') /\ Forward(mgr, mgr')
    BY <1>2, <2>1, <2>2, <2>3, <2>4, ChildGoesOn
  <2> QED BY <2>1, <2>5 DEF Steady, Consumes
<1>6. CASE mgr' = Ends(mgr, t, "interrupted")
  BY <1>1, <1>6, EndsStep
<1>7. CASE mgr' = [StartSettle(mgr, t, "failed") EXCEPT !.child[t] = "gone"]
  <2> DEFINE s == StartSettle(mgr, t, "failed")
  <2>1. CASE Settled(mgr, t) \/ t \in mgr.settling
    <3>1. s = mgr
      BY <2>1, StartSettleShape
    <3>2. /\ mgr' \in Managers /\ SameRest(mgr, mgr') /\ SameSetups(mgr, mgr')
          /\ mgr'.snap = mgr.snap /\ mgr'.child = [mgr.child EXCEPT ![t] = "gone"]
          /\ mgr'.settling = mgr.settling /\ mgr'.due = mgr.due
          /\ mgr'.consumed = mgr.consumed
      BY <1>7, <3>1 DEF Managers, SameRest, SameSetups
    <3>3. t \in Occupied(mgr) => t \in Occupied(mgr')
      BY <3>2 DEF Occupied, Pending, Children, SameSetups
    <3>4. Good(mgr') /\ Forward(mgr, mgr')
      BY <1>2, <1>3, <1>4, <3>2, <3>3, ChildGoesOn DEF Settled
    <3> QED BY <3>2, <3>4 DEF Steady, Consumes
  <2>2. CASE ~(Settled(mgr, t) \/ t \in mgr.settling)
    <3>1. Settles(mgr, s, t)
      BY <1>1, <2>2, StartSettleShape DEF AtOnce, Unstarted
    <3> HIDE DEF s
    <3>2. /\ s \in Managers /\ SameRest(mgr, s) /\ SameSetups(mgr, s)
          /\ s.snap = [mgr.snap EXCEPT ![t] = "settled"] /\ s.child = mgr.child
          /\ s.settling = mgr.settling \ {t} /\ s.due = TRUE
          /\ s.consumed = IF t \in mgr.waited THEN mgr.consumed \cup {t} ELSE mgr.consumed
      BY <3>1 DEF Settles
    <3>3. mgr' = [s EXCEPT !.child[t] = "gone"]
      BY <1>7 DEF s
    <3>4. /\ mgr' \in Managers /\ SameRest(s, mgr') /\ SameSetups(s, mgr')
          /\ mgr'.snap = s.snap /\ mgr'.child = [s.child EXCEPT ![t] = "gone"]
          /\ mgr'.settling = s.settling /\ mgr'.due = s.due /\ mgr'.consumed = s.consumed
      BY <3>2, <3>3 DEF Managers, SameRest, SameSetups
    <3>5. /\ SameRest(mgr, mgr') /\ SameSetups(mgr, mgr')
          /\ mgr'.snap = [mgr.snap EXCEPT ![t] = "settled"]
          /\ mgr'.child = [mgr.child EXCEPT ![t] = "gone"]
          /\ mgr'.settling = mgr.settling \ {t} /\ mgr'.due = TRUE
          /\ mgr'.consumed = IF t \in mgr.waited THEN mgr.consumed \cup {t} ELSE mgr.consumed
      BY <3>2, <3>4 DEF SameRest, SameSetups
    <3>6. Good(mgr') /\ Forward(mgr, mgr')
      BY <1>2, <3>4, <3>5, ChildGoesOn
    <3>7. Settled(mgr', t)
      BY <3>5 DEF Settled, Managers
    <3> QED BY <3>4, <3>5, <3>6, <3>7 DEF Steady, Consumes
  <2> QED BY <2>1, <2>2
<1> QED BY <1>5, <1>6, <1>7 DEF PaneStarts

LEMMA ManifestReadyStep ==
  ASSUME mgr \in Managers, Good(mgr), NEW t \in Task, ManifestReady(t)
  PROVE  Steady(mgr, mgr')
<1>1. /\ mgr.snap[t] = "running" /\ mgr.setup[t] \notin Settings
      /\ mgr.child[t] \notin {"starting", "up"}
  BY DEF ManifestReady, Good, TaskInv
<1>2. /\ mgr' \in Managers /\ SameRest(mgr, mgr') /\ SameSetups(mgr, mgr')
      /\ mgr'.snap = [mgr.snap EXCEPT ![t] = "settled"] /\ mgr'.child = mgr.child
      /\ mgr'.settling = mgr.settling \ {t} /\ mgr'.due = TRUE
      /\ mgr'.consumed = IF t \in mgr.waited THEN mgr.consumed \cup {t} ELSE mgr.consumed
  BY SettleShape DEF ManifestReady, Settles
<1>3. mgr.child = [mgr.child EXCEPT ![t] = mgr.child[t]]
  BY DEF Managers
<1>4. Good(mgr') /\ Forward(mgr, mgr')
  BY <1>1, <1>2, <1>3, ChildGoesOn
<1>5. Settled(mgr', t)
  BY <1>2 DEF Settled, Managers
<1> QED BY <1>2, <1>4, <1>5 DEF Steady, Consumes

LEMMA ChildStepStep ==
  ASSUME mgr \in Managers, Good(mgr), NEW t \in Task, ChildStep(t)
  PROVE  Steady(mgr, mgr')
<1>1. CASE ChildEnds(t) \/ ChildStops(t)
  <2>1. PICK outcome : mgr' = Ends(mgr, t, outcome)
    BY <1>1 DEF ChildEnds, ChildStops
  <2>2. mgr.child[t] # "none"
    BY <1>1 DEF ChildEnds, ChildStops
  <2> QED BY <2>1, <2>2, EndsStep
<1> QED BY <1>1, PaneStartsStep, ManifestReadyStep DEF ChildStep

\* The head of the queue is started while there is room.
LEMMA DrainStep ==
  ASSUME mgr \in Managers, Good(mgr), Drain
  PROVE  Steady(mgr, mgr')
<1>1. mgr.due /\ mgr.drained = None /\ mgr' = Drained(mgr) /\ mgr.queue \in Seq(Task)
  BY DEF Drain, Managers
<1>2. CASE mgr.queue # <<>> /\ ~Full(mgr)
  <2> DEFINE h == Head(mgr.queue)
  <2>1. /\ h \in Task /\ h \in ToSet(mgr.queue)
        /\ Tail(mgr.queue) \in Seq(Task) /\ Distinct(Tail(mgr.queue))
        /\ ToSet(Tail(mgr.queue)) = ToSet(mgr.queue) \ {h}
        /\ Len(Tail(mgr.queue)) = Len(mgr.queue) - 1 /\ Len(mgr.queue) \in Nat
    BY <1>1, <1>2, Tailed, LenProperties DEF Good, QueueInv
  <2> HIDE DEF h
  <2>2. mgr' = [mgr EXCEPT !.queue = Tail(mgr.queue), !.drained = h, !.setup[h] = "git"]
    BY <1>1, <1>2, <2>1 DEF Drained, Start, h, Managers
  <2>3. /\ mgr' \in Managers /\ mgr'.queue = Tail(mgr.queue)
        /\ mgr'.setup = [mgr.setup EXCEPT ![h] = "git"] /\ mgr'.gate = mgr.gate
        /\ mgr'.slot = mgr.slot /\ mgr'.waiters = mgr.waiters
        /\ mgr'.cancelled = mgr.cancelled /\ mgr'.stale = mgr.stale
        /\ mgr'.snap = mgr.snap /\ mgr'.child = mgr.child /\ mgr'.settling = mgr.settling
        /\ mgr'.due = TRUE /\ mgr'.consumed = mgr.consumed
        /\ mgr'.file = mgr.file /\ mgr'.waited = mgr.waited
    <3>1. mgr.due = TRUE
      BY <1>1 DEF Managers
    <3>2. mgr'.due = mgr.due
      BY <2>2 DEF Managers
    <3>3. /\ mgr' \in Managers /\ mgr'.queue = Tail(mgr.queue)
          /\ mgr'.setup = [mgr.setup EXCEPT ![h] = "git"]
      BY <2>1, <2>2 DEF Managers, Settings
    <3> QED BY <3>1, <3>2, <3>3, <2>2 DEF Managers
  <2>4. \A u \in Task : mgr'.setup[u] = IF u = h THEN "git" ELSE mgr.setup[u]
    BY <2>3 DEF Managers
  <2>5. mgr.snap[h] = "queued" /\ mgr.setup[h] = "none" /\ TaskInv(mgr, h)
    BY <2>1 DEF Good, QueueInv
  <2>6. \A u \in Task : TaskInv(mgr', u)
    <3>1. ASSUME NEW u \in Task, u # h PROVE TaskInv(mgr', u)
      BY <2>3, <2>4, <3>1 DEF Good, TaskInv, Settled, Interrupted
    <3>2. TaskInv(mgr', h)
      BY <2>1, <2>3, <2>4, <2>5 DEF TaskInv, Settled
    <3> QED BY <3>1, <3>2
  <2>7. QueueInv(mgr')
    BY <2>1, <2>3, <2>4, ManagerAssumption DEF Good, QueueInv
  <2>8. GateInv(mgr') /\ SlotInv(mgr')
    <3>1. mgr.setup[h] \notin {"gate", "worktree"} /\ mgr.setup[h] \notin {"pane", "ready"}
      BY <2>5
    <3>2. GateInv(mgr) /\ SlotInv(mgr)
      BY DEF Good
    <3>3. GateInv(mgr')
      <4>1. "git" \notin {"gate", "worktree"}
        OBVIOUS
      <4>2. mgr'.gate = mgr.gate /\ mgr'.setup = [mgr.setup EXCEPT ![h] = "git"] /\ mgr' \in Managers
        BY <2>3
      <4> QED BY <2>1, <3>1, <3>2, <4>1, <4>2, GateKeeps
    <3>4. SlotInv(mgr')
      BY <2>1, <2>3, <3>1, <3>2, SlotKeeps
    <3> QED BY <3>3, <3>4
  <2>9. Cardinality(Occupied(mgr')) <= MaxRunning
    <3>1. Occupied(mgr') \subseteq Occupied(mgr) \cup {h}
      BY <2>3, <2>4 DEF Occupied, Pending, Children
    <3> QED BY <1>2, <3>1, OneMore
  <2>10. Good(mgr')
    BY <2>6, <2>7, <2>8, <2>9 DEF Good
  <2>11. \A u \in Task : TaskForward(mgr, mgr', u)
    <3>1. ASSUME NEW u \in Task, u # h PROVE TaskForward(mgr, mgr', u)
      BY <2>3, <2>4, <3>1 DEF Good, TaskInv, TaskForward, Settled, Continuing
    <3>2. TaskForward(mgr, mgr', h)
      BY <2>1, <2>3, <2>4, <2>5 DEF TaskForward, Settled, Continuing
    <3> QED BY <3>1, <3>2
  <2>12. Forward(mgr, mgr')
    <3>1. Awake(mgr')
      BY <2>3 DEF Awake
    <3> QED BY <1>2, <2>1, <2>3, <2>11, <3>1 DEF Forward, Onward
  <2> QED BY <2>3, <2>10, <2>12 DEF Steady, Consumes
<1>3. CASE ~(mgr.queue # <<>> /\ ~Full(mgr))
  <2>1. mgr' = [mgr EXCEPT !.due = FALSE]
    BY <1>1, <1>3 DEF Drained
  <2>2. /\ mgr' \in Managers /\ SameRest(mgr, mgr') /\ SameSetups(mgr, mgr')
        /\ mgr'.snap = mgr.snap /\ mgr'.child = mgr.child /\ mgr'.settling = mgr.settling
        /\ mgr'.due = FALSE /\ mgr'.consumed = mgr.consumed
    BY <2>1 DEF Managers, SameRest, SameSetups
  <2>3. Occupied(mgr') = Occupied(mgr)
    BY <2>2 DEF Occupied, Pending, Children, SameSetups
  <2>4. Good(mgr')
    <3>1. \A u \in Task : TaskInv(mgr', u)
      BY <2>2 DEF Good, TaskInv, Settled, Interrupted, SameSetups
    <3>2. QueueInv(mgr')
      BY <1>1, <2>2 DEF Good, QueueInv, SameRest, SameSetups
    <3>3. GateInv(mgr') /\ SlotInv(mgr')
      BY <2>2 DEF Good, GateInv, SlotInv, SameSetups, Opened
    <3> QED BY <3>1, <3>2, <3>3, <2>3 DEF Good
  <2>5. \A u \in Task : TaskForward(mgr, mgr', u)
    BY <2>2 DEF Good, TaskInv, TaskForward, Settled, Continuing, SameSetups
  <2>6. Forward(mgr, mgr')
    <3>1. mgr.queue # <<>> => Awake(mgr')
      BY <1>3, <2>3 DEF Awake, Full
    <3> QED BY <2>2, <2>5, <3>1 DEF Forward, Onward, SameRest, SameSetups
  <2> QED BY <2>2, <2>4, <2>6 DEF Steady, Consumes
<1> QED BY <1>2, <1>3

\* Whatever the manager does between two calls of the session.
LEMMA ManagerSteps ==
  ASSUME mgr \in Managers, Good(mgr),
         Drain \/ \E t \in Task : Resumes(t) \/ Awaited(t) \/ ChildStep(t)
  PROVE  Steady(mgr, mgr')
  BY DrainStep, GateTurnStep, PaneGrantedStep, PaneRefusedStep, LaunchReturnsStep,
     GitReadStep, WorktreeMadeStep, BaseResolvedStep, PaneTimesOutStep, ChildStepStep
     DEF Resumes, Awaited

(***************************************************************************)
(* What a tool call does to the manager.                                   *)
(***************************************************************************)
\* Only what was consumed, who waits and whether a drain is due may differ.
SameCore(m, n) ==
  /\ SameSetups(m, n) /\ n.queue = m.queue /\ n.file = m.file
  /\ n.snap = m.snap /\ n.child = m.child /\ n.settling = m.settling

LEMMA CoreKept ==
  ASSUME NEW m \in Managers, NEW n \in Managers, Good(m), SameCore(m, n), m.due => n.due
  PROVE  Good(n) /\ Onward(m, n)
<1>1. Occupied(n) = Occupied(m)
  BY DEF Occupied, Pending, Children, SameCore, SameSetups
<1>2. \A u \in Task : TaskInv(n, u)
  BY DEF Good, TaskInv, Settled, Interrupted, SameCore, SameSetups
<1>3. QueueInv(n)
  BY DEF Good, QueueInv, SameCore, SameSetups
<1>4. GateInv(n) /\ SlotInv(n)
  BY DEF Good, GateInv, SlotInv, SameCore, SameSetups, Opened
<1>5. Good(n)
  BY <1>1, <1>2, <1>3, <1>4 DEF Good
<1>6. \A u \in Task : TaskForward(m, n, u)
  BY DEF Good, TaskInv, TaskForward, Settled, Continuing, SameCore, SameSetups
<1>7. Awake(m) => Awake(n)
  BY <1>1 DEF Awake, Full, SameCore
<1>8. Onward(m, n)
  BY <1>6, <1>7 DEF Onward, SameCore, SameSetups
<1> QED BY <1>5, <1>8

LEMMA ConsumeShape ==
  ASSUME NEW m \in Managers, NEW T \in SUBSET Task
  PROVE  LET n == Consume(m, T)
         IN /\ n \in Managers /\ SameCore(m, n) /\ n.due = m.due
            /\ n.waited = m.waited /\ n.consumed = m.consumed \cup T
  BY DEF Managers, Consume, SameCore, SameSetups

\* A queued task leaves the queue, or its setup is marked.
LEMMA DequeuedShape ==
  ASSUME NEW m \in Managers, NEW t \in Task, Good(m)
  PROVE  LET n == Dequeued(m, t)
         IN /\ n \in Managers /\ Distinct(n.queue) /\ Len(n.queue) <= Len(m.queue)
            /\ ToSet(n.queue) = ToSet(m.queue) \ {t}
            /\ m.queue = <<>> => n.queue = <<>>
            /\ n.cancelled = IF t \in ToSet(m.queue) THEN m.cancelled ELSE m.cancelled \cup {t}
            /\ n.setup = m.setup /\ n.gate = m.gate /\ n.slot = m.slot /\ n.waiters = m.waiters
            /\ n.stale = m.stale /\ n.drained = m.drained /\ n.file = m.file
            /\ n.snap = m.snap /\ n.child = m.child /\ n.settling = m.settling
            /\ n.due = m.due /\ n.consumed = m.consumed /\ n.waited = m.waited
<1>1. m.queue \in Seq(Task) /\ Distinct(m.queue) /\ Len(m.queue) \in Nat
  BY LenProperties DEF Managers, Good, QueueInv
<1>2. CASE t \in ToSet(m.queue)
  <2>1. LET r == RemoveFirst(m.queue, t)
        IN /\ r \in Seq(Task) /\ Distinct(r) /\ ToSet(r) = ToSet(m.queue) \ {t}
           /\ Len(r) = Len(m.queue) - 1
    BY <1>1, <1>2, Removed
  <2>2. m.queue # <<>>
    BY <1>2, Emptied
  <2> DEFINE r == RemoveFirst(m.queue, t)
  <2>3. Dequeued(m, t) = [m EXCEPT !.queue = r]
    BY <1>2 DEF Dequeued, Managers
  <2> HIDE DEF r
  <2>4. r \in Seq(Task) /\ Distinct(r) /\ ToSet(r) = ToSet(m.queue) \ {t} /\ Len(r) <= Len(m.queue)
    BY <2>1, <1>1 DEF r
  <2> QED BY <1>2, <2>2, <2>3, <2>4 DEF Managers
<1>3. CASE t \notin ToSet(m.queue)
  <2> DEFINE c == m.cancelled \cup {t}
  <2>1. Dequeued(m, t) = [m EXCEPT !.cancelled = c]
    BY <1>3 DEF Dequeued, Managers
  <2>2. c \in SUBSET Task
    BY DEF Managers
  <2>3. ToSet(m.queue) \ {t} = ToSet(m.queue) /\ Len(m.queue) <= Len(m.queue)
    BY <1>1, <1>3
  <2> HIDE DEF c
  <2> DEFINE n == [m EXCEPT !.cancelled = c]
  <2>4. /\ n \in Managers /\ n.queue = m.queue /\ n.cancelled = c
        /\ n.setup = m.setup /\ n.gate = m.gate /\ n.slot = m.slot /\ n.waiters = m.waiters
        /\ n.stale = m.stale /\ n.drained = m.drained /\ n.file = m.file
        /\ n.snap = m.snap /\ n.child = m.child /\ n.settling = m.settling
        /\ n.due = m.due /\ n.consumed = m.consumed /\ n.waited = m.waited
    BY <2>2 DEF Managers
  <2> HIDE DEF n
  <2> QED BY <1>1, <1>3, <2>1, <2>3, <2>4 DEF c, n
<1> QED BY <1>2, <1>3

\* A queued task settles at once.
LEMMA QueuedSettles ==
  ASSUME NEW m \in Managers, NEW t \in Task, Good(m), m.snap[t] = "queued"
  PROVE  LET n == StartSettle(Dequeued(m, t), t, "interrupted")
         IN /\ n \in Managers /\ Good(n) /\ Onward(m, n) /\ n.waited = m.waited
            /\ n.snap = [m.snap EXCEPT ![t] = "settled"] /\ n.child = m.child
            /\ n.setup = m.setup
            /\ n.consumed = IF t \in m.waited THEN m.consumed \cup {t} ELSE m.consumed
<1> DEFINE d == Dequeued(m, t)
           n == StartSettle(d, t, "interrupted")
<1>1. /\ d \in Managers /\ Distinct(d.queue) /\ Len(d.queue) <= Len(m.queue)
      /\ ToSet(d.queue) = ToSet(m.queue) \ {t}
      /\ m.queue = <<>> => d.queue = <<>>
      /\ d.cancelled = IF t \in ToSet(m.queue) THEN m.cancelled ELSE m.cancelled \cup {t}
      /\ d.setup = m.setup /\ d.gate = m.gate /\ d.slot = m.slot /\ d.waiters = m.waiters
      /\ d.stale = m.stale /\ d.drained = m.drained /\ d.file = m.file
      /\ d.snap = m.snap /\ d.child = m.child /\ d.settling = m.settling
      /\ d.due = m.due /\ d.consumed = m.consumed /\ d.waited = m.waited
  BY DequeuedShape
<1> HIDE DEF d
<1>2. TaskInv(m, t) /\ t \notin m.settling /\ m.child[t] = "none" /\ m.setup[t] # "ready"
  <2>1. TaskInv(m, t)
    BY DEF Good
  <2> QED BY <2>1 DEF TaskInv
<1>3. Settles(d, n, t)
  <2>1. ~Settled(d, t) /\ t \notin d.settling /\ AtOnce(d, t, "interrupted")
    BY <1>1, <1>2 DEF Settled, AtOnce
  <2> QED BY <2>1, <1>1, StartSettleShape
<1> HIDE DEF n
<1>4. /\ n \in Managers /\ SameRest(d, n) /\ SameSetups(d, n)
      /\ n.snap = [d.snap EXCEPT ![t] = "settled"] /\ n.child = d.child
      /\ n.settling = d.settling \ {t} /\ n.due = TRUE
      /\ n.consumed = IF t \in d.waited THEN d.consumed \cup {t} ELSE d.consumed
  BY <1>3 DEF Settles
<1>5. n.settling = m.settling /\ n.snap = [m.snap EXCEPT ![t] = "settled"] /\ n.child = m.child
      /\ n.setup = m.setup /\ n.stale = m.stale /\ n.queue = d.queue /\ n.file = m.file
      /\ n.gate = m.gate /\ n.slot = m.slot /\ n.waiters = m.waiters
      /\ n.cancelled = d.cancelled /\ n.drained = m.drained
  BY <1>1, <1>2, <1>4 DEF SameRest, SameSetups
<1>6. \A u \in Task : n.snap[u] = IF u = t THEN "settled" ELSE m.snap[u]
  BY <1>5 DEF Managers
<1>7. \A u \in Task : TaskInv(n, u)
  <2>1. ASSUME NEW u \in Task, u # t PROVE TaskInv(n, u)
    BY <2>1, <1>1, <1>5, <1>6 DEF Good, TaskInv, Settled, Interrupted
  <2>2. TaskInv(n, t)
    <3>1. m.setup[t] \in Settings => t \in n.cancelled
      BY <1>1, <1>5 DEF Good, QueueInv, Settings
    <3> QED BY <3>1, <1>2, <1>5, <1>6 DEF TaskInv, Settled, Interrupted
  <2> QED BY <2>1, <2>2
<1>8. QueueInv(n)
  <2>1. Len(d.queue) \in Nat /\ Len(m.queue) \in Nat
    BY <1>1, LenProperties DEF Managers
  <2>2. m.queue \in Seq(Task) /\ ToSet(m.queue) \subseteq Task
    BY Places DEF Managers
  <2> QED BY <1>1, <1>4, <1>5, <1>6, <2>1, <2>2, ManagerAssumption DEF Good, QueueInv
<1>9. GateInv(n) /\ SlotInv(n)
  BY <1>5 DEF Good, GateInv, SlotInv, Opened
<1>10. Occupied(n) = Occupied(m)
  BY <1>5, <1>6 DEF Occupied, Pending, Children
<1>11. Good(n)
  BY <1>7, <1>8, <1>9, <1>10 DEF Good
<1>12. \A u \in Task : TaskForward(m, n, u)
  <2>1. ASSUME NEW u \in Task, u # t PROVE TaskForward(m, n, u)
    BY <2>1, <1>5, <1>6 DEF Good, TaskInv, TaskForward, Settled, Continuing
  <2>2. TaskForward(m, n, t)
    BY <1>2, <1>5, <1>6 DEF TaskForward, Settled, Continuing
  <2> QED BY <2>1, <2>2
<1>13. Awake(n)
  BY <1>4 DEF Awake
<1>14. Onward(m, n)
  BY <1>1, <1>5, <1>12, <1>13 DEF Onward
<1>15. n.waited = m.waited /\ n.consumed = IF t \in m.waited THEN m.consumed \cup {t} ELSE m.consumed
  BY <1>1, <1>4 DEF SameRest
<1> QED BY <1>4, <1>5, <1>11, <1>14, <1>15 DEF n, d

\* An interrupted child is stopped, or closed once its pane exists.
Halted(c) == IF c = "up" THEN "stopping" ELSE IF c = "starting" THEN "abandoned" ELSE c

LEMMA InterruptShape ==
  ASSUME NEW m \in Managers, NEW t \in Task
  PROVE  LET n == Interrupt(m, t)
         IN /\ n \in Managers /\ SameRest(m, n) /\ SameSetups(m, n)
            /\ n.child = [m.child EXCEPT ![t] = Halted(m.child[t])]
            /\ n.snap = m.snap /\ n.settling = m.settling
            /\ n.due = m.due /\ n.consumed = m.consumed
<1> DEFINE h == Halted(m.child[t])
           n == [m EXCEPT !.child[t] = h]
<1>1. m.child[t] \in {"none", "starting", "abandoned", "up", "stopping", "gone"}
  BY DEF Managers
<1>2. h \in {"none", "starting", "abandoned", "up", "stopping", "gone"}
  BY <1>1 DEF Halted
<1>3. (CASE m.child[t] = "up" -> "stopping" [] m.child[t] = "starting" -> "abandoned"
         [] OTHER -> m.child[t]) = h
  BY DEF Halted
<1>4. Interrupt(m, t) = n
  BY <1>3 DEF Interrupt, Managers
<1> HIDE DEF h
<1>5. /\ n \in Managers /\ SameRest(m, n) /\ SameSetups(m, n)
      /\ n.child = [m.child EXCEPT ![t] = h]
      /\ n.snap = m.snap /\ n.settling = m.settling
      /\ n.due = m.due /\ n.consumed = m.consumed
  BY <1>2 DEF Managers, SameRest, SameSetups
<1> HIDE DEF n
<1> QED BY <1>4, <1>5 DEF h

LEMMA CancelTaskStep ==
  ASSUME NEW m \in Managers, NEW t \in Task, Good(m), m.snap[t] # "none"
  PROVE  LET n == CancelTask(m, t)
         IN /\ n \in Managers /\ Good(n) /\ Onward(m, n)
            /\ n.waited = m.waited /\ n.setup = m.setup
            /\ n.consumed \subseteq m.consumed \cup {t}
            /\ \A u \in Task \ {t} : n.snap[u] = m.snap[u]
            /\ Settled(m, t) \/ t \in m.settling => n.snap[t] = m.snap[t]
            /\ ~(Settled(m, t) \/ t \in m.settling) =>
                 n.snap[t] \in {"running", "settled"} /\ n.child[t] \notin {"starting", "up"}
<1> DEFINE n == CancelTask(m, t)
           c == Consume(m, {t})
<1>1. TaskInv(m, t) /\ m.snap[t] \in {"queued", "running", "settled"}
  BY DEF Good, Managers
<1>2. /\ c \in Managers /\ SameCore(m, c) /\ c.due = m.due
      /\ c.waited = m.waited /\ c.consumed = m.consumed \cup {t}
  BY ConsumeShape
<1>3. Good(c) /\ Onward(m, c)
  <2>1. m.due => c.due
    BY <1>2
  <2> QED BY <2>1, <1>2, CoreKept
<1> HIDE DEF c
<1>4. CASE t \in m.settling
  <2>1. n = m
    BY <1>4 DEF CancelTask
  <2>2. SameCore(m, m)
    BY DEF SameCore, SameSetups
  <2>3. Onward(m, m)
    BY <2>2, CoreKept
  <2> QED BY <1>4, <2>1, <2>3
<1>5. CASE t \notin m.settling /\ Settled(m, t)
  <2>1. n = c
    BY <1>5 DEF CancelTask, c
  <2> QED BY <1>2, <1>3, <1>5, <2>1 DEF SameCore, SameSetups
<1>6. CASE t \notin m.settling /\ m.snap[t] = "queued"
  <2>1. n = StartSettle(Dequeued(c, t), t, "interrupted")
    BY <1>6 DEF CancelTask, Settled, c
  <2>2. c.snap[t] = "queued"
    BY <1>2, <1>6 DEF SameCore
  <2>3. /\ n \in Managers /\ Good(n) /\ Onward(c, n) /\ n.waited = c.waited
        /\ n.snap = [c.snap EXCEPT ![t] = "settled"] /\ n.child = c.child
        /\ n.setup = c.setup
        /\ n.consumed = IF t \in c.waited THEN c.consumed \cup {t} ELSE c.consumed
    BY <1>2, <1>3, <2>1, <2>2, QueuedSettles
  <2> HIDE DEF n
  <2>4. Onward(m, n)
    <3>1. /\ c.snap = m.snap /\ c.setup = m.setup /\ c.child = m.child /\ c.settling = m.settling
          /\ c.queue = m.queue /\ c.file = m.file /\ c.stale = m.stale /\ c.cancelled = m.cancelled
      BY <1>2 DEF SameCore, SameSetups
    <3>2. Awake(c) <=> Awake(m)
      <4>1. c.due <=> m.due
        BY <1>2
      <4> QED BY <3>1, <4>1 DEF Awake, Full, Occupied, Pending, Children
    <3>3. \A u \in Task : TaskForward(m, n, u) <=> TaskForward(c, n, u)
      BY <3>1 DEF TaskForward, Settled, Continuing, Interrupted
    <3> QED BY <2>3, <3>1, <3>2, <3>3 DEF Onward
  <2>5. \A u \in Task : n.snap[u] = IF u = t THEN "settled" ELSE m.snap[u]
    BY <1>2, <2>3 DEF SameCore, Managers
  <2>6. n.child[t] = "none"
    BY <1>1, <1>2, <1>6, <2>3 DEF SameCore, TaskInv
  <2>7. n.setup = m.setup
    BY <1>2, <2>3 DEF SameCore, SameSetups
  <2> QED BY <1>2, <1>6, <2>3, <2>4, <2>5, <2>6, <2>7 DEF Settled, n
<1>7. CASE t \notin m.settling /\ m.snap[t] = "running"
  <2>1. n = Interrupt(c, t)
    BY <1>7 DEF CancelTask, Settled, c
  <2>2. /\ n \in Managers /\ SameRest(c, n) /\ SameSetups(c, n)
        /\ n.child = [c.child EXCEPT ![t] = Halted(c.child[t])]
        /\ n.snap = c.snap /\ n.settling = c.settling
        /\ n.due = c.due /\ n.consumed = c.consumed
    BY <1>2, <2>1, InterruptShape
  <2> HIDE DEF n
  <2>3. /\ SameRest(m, n) /\ SameSetups(m, n) /\ n.snap = m.snap
        /\ n.child = [m.child EXCEPT ![t] = Halted(m.child[t])]
        /\ n.settling = m.settling /\ n.consumed = m.consumed \cup {t}
    BY <1>2, <2>2 DEF SameCore, SameRest, SameSetups
  <2>9. m.due => n.due
    BY <1>2, <2>2
  <2>4. Halted(m.child[t]) \notin {"starting", "up"}
    BY DEF Halted
  <2>5. m.snap = [m.snap EXCEPT ![t] = m.snap[t]] /\ m.setup[t] \notin Settings
    BY <1>1, <1>7 DEF Managers, TaskInv
  <2>6. t \in Occupied(m) => t \in Occupied(n)
    BY <2>3 DEF Occupied, Pending, Children, SameSetups
  <2>7. Good(n) /\ Forward(m, n)
    <3>1. n.snap = [m.snap EXCEPT ![t] = m.snap[t]]
      BY <2>3, <2>5
    <3> QED BY <1>7, <2>2, <2>3, <2>9, <2>4, <2>5, <2>6, <3>1, ChildGoesOn
  <2>8. n.child[t] \notin {"starting", "up"}
    BY <2>3, <2>4 DEF Managers
  <2> QED BY <1>7, <2>2, <2>3, <2>7, <2>8 DEF Forward, SameRest, SameSetups, n
<1> QED BY <1>1, <1>4, <1>5, <1>6, <1>7 DEF Settled

LEMMA CloseTaskStep ==
  ASSUME NEW m \in Managers, NEW t \in Task, Good(m), m.snap[t] # "none"
  PROVE  LET n == CloseTask(m, t)
         IN /\ n \in Managers /\ Good(n) /\ Onward(m, n)
            /\ n.waited = m.waited /\ n.setup = m.setup
            /\ n.consumed \subseteq m.consumed \cup {u \in {t} : Settled(n, t)}
            /\ \A u \in Task \ {t} : n.snap[u] = m.snap[u]
<1> DEFINE n == CloseTask(m, t)
           c == Consume(m, {t})
<1>1. m.snap[t] \in {"queued", "running", "settled"}
  BY DEF Managers
<1>2. SameCore(m, m)
  BY DEF SameCore, SameSetups
<1>3. Onward(m, m)
  BY <1>2, CoreKept
<1>4. CASE t \in m.settling \/ m.snap[t] = "running"
  <2>1. n = m
    BY <1>4 DEF CloseTask
  <2> QED BY <1>3, <2>1
<1>5. CASE t \notin m.settling /\ m.snap[t] = "settled"
  <2>1. /\ c \in Managers /\ SameCore(m, c) /\ c.due = m.due
        /\ c.waited = m.waited /\ c.consumed = m.consumed \cup {t}
    BY ConsumeShape
  <2>2. n = c
    BY <1>5 DEF CloseTask, Settled
  <2> HIDE DEF c
  <2>3. Good(c) /\ Onward(m, c)
    <3>1. m.due => c.due
      BY <2>1
    <3> QED BY <2>1, <3>1, CoreKept
  <2>4. Settled(c, t)
    BY <1>5, <2>1 DEF Settled, SameCore
  <2> QED BY <2>1, <2>2, <2>3, <2>4 DEF SameCore, SameSetups
<1>6. CASE t \notin m.settling /\ m.snap[t] = "queued"
  <2>1. n = StartSettle(Dequeued(m, t), t, "interrupted")
    BY <1>6 DEF CloseTask, Settled
  <2>2. /\ n \in Managers /\ Good(n) /\ Onward(m, n) /\ n.waited = m.waited
        /\ n.snap = [m.snap EXCEPT ![t] = "settled"] /\ n.child = m.child
        /\ n.setup = m.setup
        /\ n.consumed = IF t \in m.waited THEN m.consumed \cup {t} ELSE m.consumed
    BY <1>6, <2>1, QueuedSettles
  <2> HIDE DEF n
  <2>3. \A u \in Task : n.snap[u] = IF u = t THEN "settled" ELSE m.snap[u]
    BY <2>2 DEF Managers
  <2> QED BY <2>2, <2>3 DEF Settled, n
<1> QED BY <1>1, <1>4, <1>5, <1>6

\* The cancellation timer settles what runs, once its child was interrupted.
LEMMA CancelTimerStep ==
  ASSUME NEW m \in Managers, NEW t \in Task, Good(m), m.snap[t] \in {"running", "settled"},
         t \notin m.settling, m.child[t] \notin {"starting", "up"}
  PROVE  LET n == StartSettle(m, t, "interrupted")
         IN /\ n \in Managers /\ Good(n) /\ Onward(m, n) /\ n.snap = m.snap
            /\ n.child = m.child /\ n.setup = m.setup
            /\ n.waited = m.waited /\ n.consumed = m.consumed
<1> DEFINE n == StartSettle(m, t, "interrupted")
<1>1. CASE Settled(m, t)
  <2>1. n = m
    BY <1>1, StartSettleShape
  <2>2. SameCore(m, m)
    BY DEF SameCore, SameSetups
  <2> QED BY <2>1, <2>2, CoreKept
<1>2. CASE ~Settled(m, t)
  <2>1. /\ n \in Managers /\ SameRest(m, n) /\ SameSetups(m, n)
        /\ n.snap = m.snap /\ n.child = m.child
        /\ n.settling = m.settling \cup {t} /\ n.due = m.due /\ n.consumed = m.consumed
    BY <1>2, StartSettleShape DEF AtOnce
  <2> HIDE DEF n
  <2>2. m.due => n.due
    BY <2>1
  <2>3. m.snap = [m.snap EXCEPT ![t] = m.snap[t]] /\ m.child = [m.child EXCEPT ![t] = m.child[t]]
    BY DEF Managers
  <2>4. m.setup[t] \notin Settings /\ m.snap[t] # "settled"
    BY <1>2 DEF Good, TaskInv, Settled
  <2>5. Good(n) /\ Forward(m, n)
    BY <2>1, <2>2, <2>3, <2>4, ChildGoesOn
  <2> QED BY <2>1, <2>5 DEF Forward, SameRest, SameSetups, n
<1> QED BY <1>1, <1>2

\* A spawn waits in the queue, or its setup begins.
LEMMA SpawnedStep ==
  ASSUME NEW m \in Managers, NEW t \in Task, NEW f \in Task, Good(m),
         m.snap[t] = "none", m.setup[t] = "none", ~Refuses(m)
  PROVE  LET n == Spawned(m, t, f)
         IN /\ n \in Managers /\ Good(n)
            /\ n.file = [m.file EXCEPT ![t] = f] /\ n.stale = m.stale /\ n.child = m.child
            /\ n.waited = m.waited /\ n.consumed = m.consumed
            /\ \A u \in Task \ {t} : n.snap[u] = m.snap[u] /\ n.setup[u] = m.setup[u]
            /\ n.snap[t] \in {"none", "queued"}
            /\ n.snap[t] = "none" <=> ~Queues(m)
            /\ ToSet(n.queue) \subseteq ToSet(m.queue) \cup {t}
            /\ (m.queue # <<>> => Awake(m)) => (n.queue # <<>> => Awake(n))
<1> DEFINE n == Spawned(m, t, f)
<1>1. TaskInv(m, t) /\ m.child[t] = "none" /\ t \notin m.settling /\ t \notin ToSet(m.queue)
  <2>1. TaskInv(m, t) /\ t \notin ToSet(m.queue)
    BY DEF Good, QueueInv
  <2> QED BY <2>1 DEF TaskInv
<1>2. m.queue \in Seq(Task) /\ Len(m.queue) \in Nat /\ Distinct(m.queue) /\ ToSet(m.queue) \subseteq Task
  BY Places DEF Managers, Good, QueueInv
<1>3. CASE Queues(m)
  <2> DEFINE q == Append(m.queue, t)
  <2>1. /\ q \in Seq(Task) /\ q # <<>> /\ Distinct(q) /\ ToSet(q) = ToSet(m.queue) \cup {t}
        /\ Len(q) = Len(m.queue) + 1
    BY <1>1, <1>2, Appended
  <2>2. n = [m EXCEPT !.file[t] = f, !.queue = q, !.snap[t] = "queued"]
    BY <1>3 DEF Spawned, Managers
  <2> HIDE DEF q, n
  <2>3. /\ n \in Managers /\ n.queue = q
        /\ n.snap = [m.snap EXCEPT ![t] = "queued"] /\ n.file = [m.file EXCEPT ![t] = f]
    <3>1. [m.snap EXCEPT ![t] = "queued"] \in [Task -> {"none", "queued", "running", "settled"}]
      BY DEF Managers
    <3>2. [m.file EXCEPT ![t] = f] \in [Task -> Task]
      BY DEF Managers
    <3> QED BY <2>1, <2>2, <3>1, <3>2 DEF Managers
  <2>4. /\ SameSetups(m, n) /\ n.child = m.child /\ n.settling = m.settling
        /\ n.waited = m.waited /\ n.consumed = m.consumed
    BY <2>2 DEF Managers, SameSetups
  <2>5. n.due = m.due
    BY <2>2 DEF Managers
  <2>6. \A u \in Task : n.snap[u] = IF u = t THEN "queued" ELSE m.snap[u]
    BY <2>3 DEF Managers
  <2>7. \A u \in Task : TaskInv(n, u)
    <3>1. ASSUME NEW u \in Task, u # t PROVE TaskInv(n, u)
      BY <3>1, <2>4, <2>6 DEF Good, TaskInv, Settled, Interrupted, SameSetups
    <3>2. TaskInv(n, t)
      BY <1>1, <2>4, <2>6 DEF TaskInv, Settled, SameSetups, Settings
    <3> QED BY <3>1, <3>2
  <2>8. QueueInv(n)
    <3>1. Len(q) <= MaxQueued
      BY <1>2, <1>3, <2>1, ManagerAssumption DEF Refuses
    <3>2. \A u \in ToSet(q) : n.snap[u] = "queued" /\ n.setup[u] = "none"
      BY <1>2, <2>1, <2>4, <2>6 DEF Good, QueueInv, SameSetups
    <3>3. n.drained # None => n.due
      BY <2>4, <2>5 DEF Good, QueueInv, SameSetups
    <3> QED BY <2>1, <2>3, <3>1, <3>2, <3>3 DEF QueueInv
  <2>9. GateInv(n) /\ SlotInv(n)
    BY <2>4 DEF Good, GateInv, SlotInv, SameSetups, Opened
  <2>10. Occupied(n) = Occupied(m)
    BY <2>4, <2>6 DEF Occupied, Pending, Children, SameSetups
  <2>11. Good(n)
    BY <2>7, <2>8, <2>9, <2>10 DEF Good
  <2>12. (m.queue # <<>> => Awake(m)) => Awake(n)
    <3>1. n.due <=> m.due
      BY <2>5
    <3> QED BY <1>3, <2>4, <2>10, <3>1 DEF Queues, Awake, Full
  <2> QED BY <1>3, <2>1, <2>3, <2>4, <2>6, <2>11, <2>12 DEF SameSetups, n
<1>4. CASE ~Queues(m)
  <2>1. m.queue = <<>> /\ ~Full(m)
    BY <1>4 DEF Queues
  <2>2. n = [m EXCEPT !.file[t] = f, !.setup[t] = "git"]
    BY <1>4 DEF Spawned, Start, Managers
  <2> HIDE DEF n
  <2>3. /\ n \in Managers
        /\ n.setup = [m.setup EXCEPT ![t] = "git"] /\ n.file = [m.file EXCEPT ![t] = f]
    <3>1. [m.setup EXCEPT ![t] = "git"] \in [Task -> Settings \cup {"none", "ready"}]
      BY DEF Managers, Settings
    <3>2. [m.file EXCEPT ![t] = f] \in [Task -> Task]
      BY DEF Managers
    <3> QED BY <2>2, <3>1, <3>2 DEF Managers
  <2>4. /\ n.queue = m.queue /\ n.snap = m.snap /\ n.child = m.child /\ n.settling = m.settling
        /\ n.gate = m.gate /\ n.slot = m.slot /\ n.waiters = m.waiters
        /\ n.cancelled = m.cancelled /\ n.stale = m.stale /\ n.drained = m.drained
        /\ n.waited = m.waited /\ n.consumed = m.consumed
    BY <2>2 DEF Managers
  <2>5. n.due = m.due
    BY <2>2 DEF Managers
  <2>6. \A u \in Task : n.setup[u] = IF u = t THEN "git" ELSE m.setup[u]
    BY <2>3 DEF Managers
  <2>7. \A u \in Task : TaskInv(n, u)
    <3>1. ASSUME NEW u \in Task, u # t PROVE TaskInv(n, u)
      BY <3>1, <2>4, <2>6 DEF Good, TaskInv, Settled, Interrupted
    <3>2. TaskInv(n, t)
      BY <1>1, <2>4, <2>6 DEF TaskInv, Settled
    <3> QED BY <3>1, <3>2
  <2>8. QueueInv(n)
    <3>1. n.drained # None => n.due
      BY <2>4, <2>5 DEF Good, QueueInv
    <3> QED BY <2>1, <2>4, <3>1, Emptied DEF Good, QueueInv
  <2>9. GateInv(n) /\ SlotInv(n)
    <3>1. GateInv(m) /\ SlotInv(m) /\ m.setup[t] \notin {"gate", "worktree", "pane", "ready"}
      BY DEF Good
    <3>2. GateInv(n)
      BY <2>3, <2>4, <3>1, GateKeeps
    <3>3. SlotInv(n)
      BY <2>3, <2>4, <3>1, SlotKeeps
    <3> QED BY <3>2, <3>3
  <2>10. Cardinality(Occupied(n)) <= MaxRunning
    <3>1. Occupied(n) \subseteq Occupied(m) \cup {t}
      BY <2>4, <2>6 DEF Occupied, Pending, Children
    <3> QED BY <2>1, <3>1, OneMore
  <2>11. Good(n)
    BY <2>7, <2>8, <2>9, <2>10 DEF Good
  <2> QED BY <1>4, <2>1, <2>3, <2>4, <2>6, <2>11 DEF n
<1> QED BY <1>3, <1>4

\* The end of a session: the queue settles and every child is interrupted.
LEMMA DisposedStep ==
  ASSUME NEW m \in Managers, Good(m)
  PROVE  LET n == Disposed(m)
         IN /\ n \in Managers /\ Good(n) /\ n.queue = <<>>
            /\ n.file = m.file /\ n.setup = m.setup /\ n.waited = m.waited
            /\ n.stale = {t \in Task : m.setup[t] # "none"}
            /\ n.consumed = m.consumed \cup (ToSet(m.queue) \cap m.waited)
            /\ \A u \in Task : TaskForward(m, n, u)
            /\ \A u \in Task : n.child[u] \notin {"starting", "up"}
<1> DEFINE n == Disposed(m)
           q == ToSet(m.queue)
           v == [t \in Task |-> IF t \in q THEN "settled" ELSE m.snap[t]]
           k == [t \in Task |-> IF t \in Children(m) THEN Interrupt(m, t).child[t] ELSE m.child[t]]
           s == {t \in Task : m.setup[t] # "none"}
           e == (m.due \/ q # {})
           c == m.consumed \cup (q \cap m.waited)
           o == [t \in Task |-> IF t \in q THEN "interrupted" ELSE m.outcome[t]]
<1>1. q \subseteq Task /\ \A t \in q : m.snap[t] = "queued" /\ m.setup[t] = "none"
  BY Places DEF Managers, Good, QueueInv
<1>2. \A t \in Task : TaskInv(m, t)
  BY DEF Good
<1>3. \A t \in Task : k[t] = IF t \in Children(m) THEN Halted(m.child[t]) ELSE m.child[t]
  <2>1. ASSUME NEW t \in Task PROVE Interrupt(m, t).child[t] = Halted(m.child[t])
    <3>1. Interrupt(m, t).child = [m.child EXCEPT ![t] = Halted(m.child[t])]
      BY InterruptShape
    <3> QED BY <3>1 DEF Managers
  <2> QED BY <2>1
<1> HIDE DEF k
<1>4. k \in [Task -> {"none", "starting", "abandoned", "up", "stopping", "gone"}]
  <2>1. \A t \in Task : k[t] \in {"none", "starting", "abandoned", "up", "stopping", "gone"}
    BY <1>3 DEF Halted, Managers
  <2>2. k = [t \in Task |-> k[t]]
    BY DEF k
  <2> QED BY <2>1, <2>2
<1>5. v \in [Task -> {"none", "queued", "running", "settled"}] /\ s \in SUBSET Task
      /\ e \in BOOLEAN /\ c \in SUBSET Task /\ o \in [Task -> Endings]
  BY DEF Managers, Endings
<1>6. \A t \in Task : v[t] = IF t \in q THEN "settled" ELSE m.snap[t]
  OBVIOUS
<1>7. n = [m EXCEPT !.queue = <<>>, !.due = e, !.snap = v, !.stale = s, !.consumed = c, !.child = k,
                 !.outcome = o]
  BY DEF Disposed, Managers, k
<1>8. \A t \in s : t \in Task /\ m.setup[t] # "none"
  OBVIOUS
<1>9. \A t \in Task : m.setup[t] # "none" => t \in s
  OBVIOUS
<1>10. q = {} => m.queue = <<>>
  BY Tailed DEF Managers, Good, QueueInv
<1>11. m.drained # None => e
  BY DEF Good, QueueInv
<1> HIDE DEF n, v, s, e, c, o
<1>12. /\ n \in Managers /\ n.queue = <<>> /\ n.snap = v /\ n.stale = s /\ n.consumed = c
       /\ n.child = k
  <2>1. <<>> \in Seq(Task)
    BY EmptySeq
  <2> QED BY <1>4, <1>5, <1>7, <2>1 DEF Managers
<1>13. /\ n.setup = m.setup /\ n.file = m.file /\ n.settling = m.settling /\ n.waited = m.waited
       /\ n.cancelled = m.cancelled /\ n.drained = m.drained
       /\ n.gate = m.gate /\ n.slot = m.slot /\ n.waiters = m.waiters
  BY <1>7 DEF Managers
<1>14. n.due = e
  BY <1>7 DEF Managers
<1> HIDE DEF q
<1>15. \A u \in Task : n.child[u] \notin {"starting", "up"}
  BY <1>2, <1>3, <1>12 DEF TaskInv, Children, Halted
<1>16. \A u \in Task : n.child[u] = "none" <=> m.child[u] = "none"
  BY <1>3, <1>12 DEF Halted
<1>17. \A u \in Task : TaskInv(n, u)
  <2> TAKE u \in Task
  <2>1. /\ TaskInv(m, u) /\ n.snap[u] = IF u \in q THEN "settled" ELSE m.snap[u]
        /\ u \in q => m.snap[u] = "queued" /\ m.setup[u] = "none"
    BY <1>1, <1>2, <1>6, <1>12
  <2>2. m.setup[u] # "none" => u \in n.stale
    BY <1>9, <1>12
  <2>3. u \in m.settling => u \notin q
    BY <2>1 DEF TaskInv
  <2> QED BY <2>1, <2>2, <2>3, <1>13, <1>15, <1>16 DEF TaskInv, Settled, Interrupted, Settings
<1>18. QueueInv(n)
  <2>1. n.drained # None => n.due
    BY <1>11, <1>13, <1>14
  <2> QED BY <1>12, <2>1, Emptied, ManagerAssumption DEF QueueInv
<1>19. GateInv(n) /\ SlotInv(n)
  BY <1>13 DEF Good, GateInv, SlotInv, Opened
<1>20. Occupied(n) = Occupied(m)
  <2>1. \A u \in Task : n.snap[u] = "running" <=> m.snap[u] = "running"
    BY <1>1, <1>6, <1>12
  <2> QED BY <2>1, <1>13 DEF Occupied, Pending, Children
<1>21. Good(n)
  BY <1>17, <1>18, <1>19, <1>20 DEF Good
<1>22. \A u \in Task : TaskForward(m, n, u)
  <2> TAKE u \in Task
  <2>1. /\ n.snap[u] = IF u \in q THEN "settled" ELSE m.snap[u]
        /\ u \in q => m.snap[u] = "queued" /\ m.setup[u] = "none"
        /\ TaskInv(m, u)
    BY <1>1, <1>2, <1>6, <1>12
  <2>2. m.setup[u] # "none" => u \in n.stale
    BY <1>9, <1>12
  <2> QED BY <2>1, <2>2, <1>13, <1>15 DEF TaskInv, TaskForward, Settled, Continuing
<1> QED BY <1>12, <1>13, <1>15, <1>21, <1>22 DEF n, s, c, q

(***************************************************************************)
(* The session.                                                            *)
(***************************************************************************)
Ends4 == {"unseen", "pending", "dropped", "sent"}

\* What onManagerChange makes of the end of t, when nothing pends without a turn.
Seen(m, t) ==
  IF session = "on" /\ result[t] = "unseen" /\ Settled(m, t)
  THEN IF t \in m.consumed THEN "dropped" ELSE IF busy THEN "pending" ELSE "sent"
  ELSE result[t]

LEMMA FlushedShape ==
  ASSUME result \in [Task -> Ends4], NEW r \in [Task -> Ends4],
         \A t \in Task : r[t] = "pending" => result[t] \notin {"sent", "resent"}
  PROVE  /\ Flushed(r) \in [Task -> Ends4]
         /\ \A t \in Task : Flushed(r)[t] = IF r[t] = "pending" THEN "sent" ELSE r[t]
<1>1. \A t \in Task : Flushed(r)[t] = IF r[t] = "pending" THEN "sent" ELSE r[t]
  BY DEF Flushed
<1>2. \A t \in Task : Flushed(r)[t] \in Ends4
  BY <1>1 DEF Ends4
<1>3. Flushed(r) = [t \in Task |-> Flushed(r)[t]]
  BY DEF Flushed
<1> QED BY <1>1, <1>2, <1>3

LEMMA ChangedShape ==
  ASSUME result \in [Task -> Ends4], \A t \in Task : result[t] = "pending" => busy, NEW m
  PROVE  /\ Changed(result, m) \in [Task -> Ends4]
         /\ \A t \in Task : Changed(result, m)[t] = Seen(m, t)
<1> DEFINE d == Deferred(result, m)
<1>1. \A t \in Task : d[t] = IF ~Settled(m, t) \/ result[t] # "unseen" THEN result[t]
                             ELSE IF t \in m.consumed THEN "dropped" ELSE "pending"
  BY DEF Deferred
<1>2. d = [t \in Task |-> d[t]]
  BY DEF Deferred
<1> HIDE DEF d
<1>3. d \in [Task -> Ends4]
  <2>1. \A t \in Task : d[t] \in Ends4
    BY <1>1 DEF Ends4
  <2> QED BY <1>2, <2>1
<1>4. \A t \in Task : d[t] = "pending" => result[t] \notin {"sent", "resent"}
  BY <1>1
<1>5. CASE session # "on"
  BY <1>5 DEF Changed, Seen
<1>6. CASE session = "on" /\ busy
  BY <1>1, <1>3, <1>6 DEF Changed, Seen, d
<1>7. CASE session = "on" /\ ~busy
  <2>1. Changed(result, m) = Flushed(d)
    BY <1>7 DEF Changed, d
  <2>2. /\ Flushed(d) \in [Task -> Ends4]
        /\ \A t \in Task : Flushed(d)[t] = IF d[t] = "pending" THEN "sent" ELSE d[t]
    BY <1>3, <1>4, FlushedShape
  <2> QED BY <1>1, <1>7, <2>1, <2>2 DEF Seen
<1> QED BY <1>5, <1>6, <1>7

LEMMA DroppedShape ==
  ASSUME NEW r \in [Task -> Ends4], NEW T
  PROVE  /\ Dropped(r, T) \in [Task -> Ends4]
         /\ \A t \in Task : Dropped(r, T)[t] =
              IF t \in T /\ r[t] \in {"unseen", "pending"} THEN "dropped" ELSE r[t]
<1>1. \A t \in Task : Dropped(r, T)[t] \in Ends4
  BY DEF Dropped, Ends4
<1>2. Dropped(r, T) = [t \in Task |-> Dropped(r, T)[t]]
  BY DEF Dropped
<1> QED BY <1>1, <1>2 DEF Dropped

LEMMA Types ==
  TypeOK <=> /\ mgr \in Managers
             /\ call \in [Task -> {"none", "spawn", "command", "wait", "cancel", "close"}]
             /\ busy \in BOOLEAN /\ session \in {"on", "off", "ended"}
             /\ sessions \in 0..MaxSessions /\ result \in [Task -> Ends4]
             /\ told \subseteq Task /\ void \subseteq Task /\ aborted \subseteq Task
  BY DEF TypeOK, ManagerTypeOK, Managers, Ends4

LEMMA NextTypes ==
  ASSUME mgr' \in Managers,
         call' \in [Task -> {"none", "spawn", "command", "wait", "cancel", "close"}],
         busy' \in BOOLEAN, session' \in {"on", "off", "ended"},
         sessions' \in 0..MaxSessions, result' \in [Task -> Ends4],
         told' \subseteq Task, void' \subseteq Task, aborted' \subseteq Task
  PROVE  TypeOK'
  BY DEF TypeOK, ManagerTypeOK, Managers, Ends4

\* A step that does not spawn, within one session.
LEMMA OnwardKeeps ==
  ASSUME mgr \in Managers, mgr' \in Managers, Good(mgr), Onward(mgr, mgr'), void \subseteq Task,
         SessionInv, NothingOrphaned, OneContinuation, NothingParked,
         session' = session, sessions' = sessions, void' = void
  PROVE  SessionInv' /\ NothingOrphaned' /\ OneContinuation' /\ NothingParked'
<1>1. \A u \in Task : TaskForward(mgr, mgr', u)
  BY DEF Onward
<1>2. mgr.file \in [Task -> Task] /\ mgr'.file = mgr.file
  BY DEF Managers, Onward
<1>3. SessionInv'
  <2>1. (session # "on" => \A t \in Task \ void : mgr.snap[t] = "none" /\ mgr.setup[t] = "none")'
    BY <1>1 DEF SessionInv, TaskForward
  <2>2. (session # "on" => mgr.queue = <<>>)'
    BY DEF SessionInv, Onward
  <2>3. (\A t \in void : t \notin ToSet(mgr.queue))'
    BY DEF SessionInv, Onward
  <2>4. (\A t \in void : mgr.setup[t] # "none" => t \in mgr.stale)'
    BY <1>1 DEF SessionInv, TaskForward
  <2>5. (session = "on" /\ sessions = 0 => mgr.stale = {})'
    BY DEF SessionInv, Onward
  <2>6. (\A t \in Task : mgr.file[t] = t \/ mgr.snap[mgr.file[t]] # "none")'
    BY <1>1, <1>2 DEF SessionInv, TaskForward
  <2> QED BY <2>1, <2>2, <2>3, <2>4, <2>5, <2>6 DEF SessionInv
<1>4. NothingOrphaned'
  <2>1. \A t \in void : mgr.setup[t] \in Settings => Interrupted(mgr, t)
    BY DEF SessionInv, Interrupted, Settings
  <2> QED BY <1>1, <2>1 DEF NothingOrphaned, TaskForward
<1>5. OneContinuation'
  <2>1. \A t \in Task : Continues(t)' => Continues(t)
    BY <1>1 DEF TaskForward, Continues, Continuing, Settled
  <2> QED BY <1>2, <2>1 DEF OneContinuation
<1>6. NothingParked'
  <2>1. ASSUME sessions = 0, mgr'.queue # <<>> PROVE Awake(mgr')
    <3>1. mgr.queue # <<>> => Awake(mgr)
      BY <2>1 DEF NothingParked, Awake, Good, QueueInv
    <3>2. session = "on"
      BY <2>1 DEF SessionInv, Onward
    <3>3. mgr.stale = {}
      BY <2>1, <3>2 DEF SessionInv
    <3> QED BY <2>1, <3>1, <3>3 DEF Onward
  <2>2. mgr'.settling \subseteq Task
    BY DEF Managers
  <2> QED BY <2>1, <2>2 DEF NothingParked, Awake
<1> QED BY <1>3, <1>4, <1>5, <1>6

\* What is told and recorded of each task, by a step.
ReportsOnce ==
  \A t \in Task : result'[t] \in {"sent", "resent"} /\ result[t] # result'[t]
    => result'[t] = "sent" /\ t \notin told

Sticks == \A t \in Task : Settled(mgr, t) => mgr'.snap[t] = mgr.snap[t] /\ t \notin mgr'.settling

StepInv == IInv' /\ ReportsOnce /\ Sticks

LEMMA OnwardSticks ==
  ASSUME Onward(mgr, mgr')
  PROVE  Sticks /\ \A t \in Task : Settled(mgr, t) => Settled(mgr', t)
  BY DEF Onward, TaskForward, Settled, Sticks

LEMMA ManagerStepInv ==
  ASSUME IInv, Steady(mgr, mgr'), Notified, UNCHANGED sessionVars
  PROVE  StepInv
<1> USE DEF sessionVars
<1>1. TypeOK /\ CallInv /\ ResultInv /\ Good(mgr) /\ mgr \in Managers
  BY Types DEF IInv, ManagerInv
<1>2. /\ mgr' \in Managers /\ Good(mgr') /\ Onward(mgr, mgr') /\ mgr'.waited = mgr.waited
      /\ mgr'.consumed \subseteq mgr.consumed \cup {u \in mgr.waited : Settled(mgr', u)}
  BY DEF Steady, Forward, Consumes
<1> DEFINE back == {t \in Task : call[t] \in {"spawn", "command"} /\ mgr'.setup[t] = "none"}
           R == Reported(back)
<1>3. /\ \A t \in Task : call'[t] = IF t \in back THEN "none" ELSE call[t]
      /\ call' \in [Task -> {"none", "spawn", "command", "wait", "cancel", "close"}]
      /\ told' = told \cup R /\ R \subseteq Task
      /\ \A t \in R : t \in back
  BY <1>1, Types DEF Notified, Reported
<1> DEFINE r == Changed(result, mgr')
<1>4. r \in [Task -> Ends4] /\ \A t \in Task : r[t] = Seen(mgr', t)
  <2>1. result \in [Task -> Ends4] /\ \A t \in Task : result[t] = "pending" => busy
    BY <1>1, Types DEF ResultInv, TaskResult
  <2> QED BY <2>1, ChangedShape
<1>5. result' = Dropped(r, R)
  BY DEF Notified
<1> HIDE DEF r
<1>6. /\ result' \in [Task -> Ends4]
      /\ \A t \in Task : result'[t] = IF t \in R /\ r[t] \in {"unseen", "pending"}
                                      THEN "dropped" ELSE r[t]
  BY <1>4, <1>5, DroppedShape
<1>7. \A t \in back : call[t] \in {"spawn", "command"}
  OBVIOUS
<1> HIDE DEF back, R
<1>8. /\ \A u \in Task : TaskForward(mgr, mgr', u)
      /\ \A u \in Task : Settled(mgr, u) => Settled(mgr', u)
  BY <1>2, OnwardSticks DEF Onward
<1>9. TypeOK'
  BY <1>1, <1>2, <1>3, <1>6, Types, NextTypes
<1>10. ASSUME NEW t \in Task PROVE TaskCall(t)'
  <2>1. TaskCall(t) /\ TaskForward(mgr, mgr', t) /\ TaskInv(mgr, t)
    BY <1>1, <1>8 DEF CallInv, Good
  <2>2. (call[t] = "wait" <=> t \in mgr.waited)'
    BY <1>2, <1>3, <1>7, <2>1 DEF TaskCall
  <2>3. (mgr.snap[t] = "none" /\ mgr.setup[t] # "none" => call[t] \in {"spawn", "command"})'
    BY <1>3, <2>1 DEF TaskCall, TaskForward, back
  <2>4. (call[t] = "cancel" =>
            mgr.snap[t] \in {"running", "settled"} /\ mgr.child[t] \notin {"starting", "up"})'
    <3>1. ASSUME call'[t] = "cancel"
          PROVE  mgr'.snap[t] \in {"running", "settled"} /\ mgr'.child[t] \notin {"starting", "up"}
      <4>1. call[t] = "cancel"
        BY <1>3, <3>1
      <4>2. mgr.snap[t] \in {"running", "settled"} /\ mgr.child[t] \notin {"starting", "up"}
        BY <2>1, <4>1 DEF TaskCall
      <4> QED BY <2>1, <4>2 DEF TaskForward, TaskInv, Settled
    <3> QED BY <3>1
  <2> QED BY <2>2, <2>3, <2>4 DEF TaskCall
<1>11. ASSUME NEW t \in Task PROVE TaskResult(t)'
  <2>1. TaskResult(t) /\ TaskCall(t) /\ (Settled(mgr, t) => Settled(mgr', t))
    BY <1>1, <1>8 DEF ResultInv, CallInv
  <2>2. /\ result[t] \in Ends4 /\ r[t] = Seen(mgr', t)
        /\ result'[t] = IF t \in R /\ r[t] \in {"unseen", "pending"} THEN "dropped" ELSE r[t]
        /\ r[t] \in Ends4
    BY <1>1, <1>4, <1>6, Types
  <2>3. t \in mgr'.consumed \ void =>
          \/ t \in told \cup aborted
          \/ call'[t] = "cancel"
          \/ call'[t] \in {"wait", "close"} /\ Settled(mgr', t)
    <3>1. CASE t \in mgr.consumed
      BY <3>1, <1>3, <1>7, <2>1 DEF TaskResult
    <3>2. CASE t \in mgr.waited /\ Settled(mgr', t)
      BY <3>2, <1>3, <1>7, <2>1 DEF TaskCall
    <3> QED BY <3>1, <3>2, <1>2
  <2>4. (t \in told => result[t] \in {"dropped", "sent"})'
    BY <1>3, <2>1, <2>2 DEF TaskResult, Seen, Ends4
  <2>5. (result[t] # "unseen" => Settled(mgr, t) \/ t \in told)'
    BY <1>3, <2>1, <2>2 DEF TaskResult, Seen
  <2>6. (result[t] = "pending" => busy)'
    BY <2>1, <2>2 DEF TaskResult, Seen
  <2>7. (t \in aborted => Settled(mgr, t))'
    BY <2>1 DEF TaskResult
  <2>8. (result[t] = "dropped" /\ t \notin void =>
            t \in told \cup aborted \/ call[t] \in {"wait", "cancel", "close"})'
    <3>1. CASE t \in R
      BY <3>1, <1>3
    <3>2. CASE t \notin R /\ result[t] = "dropped"
      BY <3>2, <1>3, <1>7, <2>1 DEF TaskResult
    <3>3. CASE t \notin R /\ result[t] # "dropped"
      <4>1. result'[t] = "dropped" => t \in mgr'.consumed
        BY <3>3, <2>2 DEF Seen
      <4> QED BY <4>1, <1>3, <2>3
    <3> QED BY <3>1, <3>2, <3>3
  <2>9. (session = "on" /\ Settled(mgr, t) /\ t \notin void => result[t] # "unseen")'
    BY <2>2 DEF Seen
  <2>10. (t \in mgr.consumed \ void =>
            \/ t \in told \cup aborted
            \/ call[t] = "cancel"
            \/ call[t] \in {"wait", "close"} /\ Settled(mgr, t))'
    BY <1>3, <2>3
  <2> QED BY <2>4, <2>5, <2>6, <2>7, <2>8, <2>9, <2>10 DEF TaskResult
<1>12. CallInv' /\ ResultInv'
  BY <1>1, <1>10, <1>11 DEF CallInv, ResultInv
<1>13. SessionInv' /\ NothingOrphaned' /\ OneContinuation' /\ NothingParked'
  BY <1>1, <1>2, Types, OnwardKeeps DEF IInv
<1>14. ReportsOnce
  <2>1. ASSUME NEW t \in Task, result'[t] \in {"sent", "resent"}, result[t] # result'[t]
        PROVE  result'[t] = "sent" /\ t \notin told
    BY <2>1, <1>1, <1>4, <1>6, Types DEF ResultInv, TaskResult, Seen, Ends4
  <2> QED BY <2>1 DEF ReportsOnce
<1>15. Sticks
  BY <1>2, OnwardSticks
<1> QED BY <1>2, <1>9, <1>12, <1>13, <1>14, <1>15 DEF StepInv, IInv, ManagerInv

(***************************************************************************)
(* The tools.                                                              *)
(***************************************************************************)
\* A call within a session that is neither a spawn nor a reply.
LEMMA ToolKeeps ==
  ASSUME IInv, TypeOK', Good(mgr'), Onward(mgr, mgr'),
         UNCHANGED <<busy, session, sessions, void>>,
         \A t \in Task : TaskCall(t)' /\ TaskResult(t)', ReportsOnce
  PROVE  StepInv
<1>1. mgr \in Managers /\ mgr' \in Managers /\ void \subseteq Task /\ Good(mgr) /\ ResultInv
  BY Types DEF IInv, ManagerInv, TypeOK, ManagerTypeOK, Managers
<1>2. SessionInv' /\ NothingOrphaned' /\ OneContinuation' /\ NothingParked'
  BY <1>1, OnwardKeeps DEF IInv
<1>3. CallInv' /\ ResultInv'
  BY <1>1 DEF CallInv, ResultInv
<1>4. Sticks
  BY OnwardSticks
<1> QED BY <1>2, <1>3, <1>4 DEF StepInv, IInv, ManagerInv

\* What a tool call may rely on.
LEMMA ToolFacts ==
  ASSUME IInv
  PROVE  /\ mgr \in Managers /\ Good(mgr)
         /\ \A t \in Task : TaskCall(t) /\ TaskResult(t) /\ TaskInv(mgr, t)
         /\ \A t \in Task : result[t] \in Ends4
         /\ call \in [Task -> {"none", "spawn", "command", "wait", "cancel", "close"}]
         /\ busy \in BOOLEAN /\ session \in {"on", "off", "ended"}
         /\ sessions \in 0..MaxSessions /\ result \in [Task -> Ends4]
         /\ told \subseteq Task /\ void \subseteq Task /\ aborted \subseteq Task
         /\ mgr.waited \in SUBSET Task /\ Onward(mgr, mgr)
<1>1. TypeOK /\ Good(mgr) /\ CallInv /\ ResultInv
  BY DEF IInv, ManagerInv
<1>2. mgr \in Managers
  BY <1>1, Types
<1>3. Onward(mgr, mgr)
  <2>1. SameCore(mgr, mgr)
    BY DEF SameCore, SameSetups
  <2> QED BY <1>1, <1>2, <2>1, CoreKept
<1> QED BY <1>1, <1>2, <1>3, Types DEF CallInv, ResultInv, Good, Managers

\* What only concerns waits and consumption.
CoreStep(m, n, T, W) ==
  /\ n \in Managers /\ Good(n) /\ Onward(m, n)
  /\ n.snap = m.snap /\ n.setup = m.setup /\ n.child = m.child
  /\ n.waited = W /\ n.consumed = m.consumed \cup T

LEMMA CoreShape ==
  ASSUME NEW m \in Managers, Good(m), NEW n \in Managers, NEW T, NEW W,
         SameCore(m, n), m.due => n.due, n.waited = W, n.consumed = m.consumed \cup T
  PROVE  CoreStep(m, n, T, W)
  BY CoreKept DEF CoreStep, SameCore, SameSetups

LEMMA WaitedShape ==
  ASSUME NEW m \in Managers, Good(m), NEW W \in SUBSET Task
  PROVE  CoreStep(m, [m EXCEPT !.waited = W], {}, W)
<1> DEFINE n == [m EXCEPT !.waited = W]
<1>1. n \in Managers /\ SameCore(m, n) /\ n.waited = W /\ n.consumed = m.consumed \cup {}
  BY DEF Managers, SameCore, SameSetups
<1>2. n.due = m.due
  BY DEF Managers
<1> HIDE DEF n
<1>3. CoreStep(m, n, {}, W)
  BY <1>1, <1>2, CoreShape
<1> QED BY <1>3 DEF n

LEMMA ReturnShape ==
  ASSUME NEW m \in Managers, Good(m), NEW T \in SUBSET Task
  PROVE  CoreStep(m, [Consume(m, T) EXCEPT !.waited = {}], T, {})
<1> DEFINE c == Consume(m, T)
           n == [c EXCEPT !.waited = {}]
<1>1. /\ c \in Managers /\ SameCore(m, c) /\ c.due = m.due /\ c.consumed = m.consumed \cup T
  BY ConsumeShape
<1> HIDE DEF c
<1>2. n \in Managers /\ SameCore(m, n) /\ n.waited = {} /\ n.consumed = m.consumed \cup T
  BY <1>1 DEF Managers, SameCore, SameSetups
<1>3. n.due = m.due
  BY <1>1 DEF Managers
<1> HIDE DEF n
<1>4. CoreStep(m, n, T, {})
  BY <1>2, <1>3, CoreShape
<1> QED BY <1>4 DEF n, c

LEMMA DueShape ==
  ASSUME NEW m \in Managers, Good(m)
  PROVE  CoreStep(m, [m EXCEPT !.due = TRUE], {}, m.waited)
<1> DEFINE n == [m EXCEPT !.due = TRUE]
<1>1. n \in Managers /\ SameCore(m, n) /\ n.waited = m.waited /\ n.consumed = m.consumed \cup {}
  BY DEF Managers, SameCore, SameSetups
<1>2. n.due
  BY DEF Managers
<1> HIDE DEF n
<1>3. CoreStep(m, n, {}, m.waited)
  BY <1>1, <1>2, CoreShape
<1> QED BY <1>3 DEF n

LEMMA ConsumeDueShape ==
  ASSUME NEW m \in Managers, Good(m), NEW T \in SUBSET Task
  PROVE  CoreStep(m, [Consume(m, T) EXCEPT !.due = TRUE], T, m.waited)
<1> DEFINE c == Consume(m, T)
           n == [c EXCEPT !.due = TRUE]
<1>1. /\ c \in Managers /\ SameCore(m, c) /\ c.waited = m.waited /\ c.consumed = m.consumed \cup T
  BY ConsumeShape
<1> HIDE DEF c
<1>2. n \in Managers /\ SameCore(m, n) /\ n.waited = m.waited /\ n.consumed = m.consumed \cup T
  BY <1>1 DEF Managers, SameCore, SameSetups
<1>3. n.due
  BY <1>1 DEF Managers
<1> HIDE DEF n
<1>4. CoreStep(m, n, T, m.waited)
  BY <1>2, <1>3, CoreShape
<1> QED BY <1>4 DEF n, c

Calls6 == {"none", "spawn", "command", "wait", "cancel", "close"}

LEMMA WaitStep ==
  ASSUME IInv, NEW T \in SUBSET Task, Wait(T)
  PROVE  StepInv
<1>1. /\ \A t \in Task : TaskCall(t) /\ TaskResult(t)
      /\ mgr \in Managers /\ Good(mgr) /\ call \in [Task -> Calls6]
      /\ busy \in BOOLEAN /\ session \in {"on", "off", "ended"}
      /\ sessions \in 0..MaxSessions /\ result \in [Task -> Ends4]
      /\ told \subseteq Task /\ void \subseteq Task /\ aborted \subseteq Task
      /\ mgr.waited \in SUBSET Task
  BY ToolFacts DEF Calls6
<1>2. /\ UNCHANGED <<busy, session, sessions, void, result, told, aborted>>
      /\ \A t \in Task : call[t] # "wait"
      /\ \A t \in T : mgr.snap[t] # "none" /\ call[t] = "none"
  BY DEF Wait, Asked, Open, Known, sessionVars
<1>3. /\ \A t \in Task : call'[t] = IF t \in T THEN "wait" ELSE call[t]
      /\ call' \in [Task -> Calls6]
  BY <1>1 DEF Wait, Calls6
<1>4. CoreStep(mgr, mgr', {}, T)
  BY <1>1, WaitedShape DEF Wait
<1>5. /\ mgr' \in Managers /\ Good(mgr') /\ Onward(mgr, mgr')
      /\ mgr'.snap = mgr.snap /\ mgr'.setup = mgr.setup /\ mgr'.child = mgr.child
      /\ mgr'.waited = T /\ mgr'.consumed = mgr.consumed
  BY <1>4 DEF CoreStep
<1>6. TypeOK'
  BY <1>1, <1>2, <1>3, <1>5, NextTypes DEF Calls6
<1>7. ASSUME NEW t \in Task PROVE TaskCall(t)' /\ TaskResult(t)'
  <2>1. TaskCall(t) /\ TaskResult(t)
    BY <1>1
  <2>2. TaskCall(t)'
    BY <2>1, <1>2, <1>3, <1>5 DEF TaskCall
  <2>3. TaskResult(t)'
    BY <2>1, <1>2, <1>3, <1>5 DEF TaskResult, Settled
  <2> QED BY <2>2, <2>3
<1>8. ReportsOnce
  BY <1>2 DEF ReportsOnce
<1> QED BY <1>2, <1>5, <1>6, <1>7, <1>8, ToolKeeps

LEMMA WaitReturnsStep ==
  ASSUME IInv, WaitReturns
  PROVE  StepInv
<1>1. /\ \A t \in Task : TaskCall(t) /\ TaskResult(t)
      /\ mgr \in Managers /\ Good(mgr) /\ call \in [Task -> Calls6]
      /\ busy \in BOOLEAN /\ session \in {"on", "off", "ended"}
      /\ sessions \in 0..MaxSessions /\ result \in [Task -> Ends4]
      /\ told \subseteq Task /\ void \subseteq Task /\ aborted \subseteq Task
      /\ mgr.waited \in SUBSET Task
  BY ToolFacts DEF Calls6
<1> DEFINE W == mgr.waited
<1>2. /\ UNCHANGED <<busy, session, sessions, void, aborted>> /\ told' = told \cup W
      /\ \A t \in W : Settled(mgr, t)
  BY DEF WaitReturns, WaitIsOver, Waited, sessionVars
<1>3. /\ \A t \in Task : call'[t] = IF t \in W THEN "none" ELSE call[t]
      /\ call' \in [Task -> Calls6]
  BY <1>1 DEF WaitReturns, Unwaited, Waited, Calls6
<1>4. CoreStep(mgr, mgr', W, {})
  BY <1>1, ReturnShape DEF WaitReturns, Waited
<1>5. /\ mgr' \in Managers /\ Good(mgr') /\ Onward(mgr, mgr')
      /\ mgr'.snap = mgr.snap /\ mgr'.setup = mgr.setup /\ mgr'.child = mgr.child
      /\ mgr'.waited = {} /\ mgr'.consumed = mgr.consumed \cup W
  BY <1>4 DEF CoreStep
<1>6. /\ result' \in [Task -> Ends4]
      /\ \A t \in Task : result'[t] = IF t \in W /\ result[t] \in {"unseen", "pending"}
                                      THEN "dropped" ELSE result[t]
  BY <1>1, DroppedShape DEF WaitReturns, Waited
<1>7. TypeOK'
  BY <1>1, <1>2, <1>3, <1>5, <1>6, NextTypes DEF Calls6
<1>8. ASSUME NEW t \in Task PROVE TaskCall(t)' /\ TaskResult(t)'
  <2>1. TaskCall(t) /\ TaskResult(t) /\ result[t] \in Ends4
    BY <1>1
  <2>2. TaskCall(t)'
    BY <2>1, <1>3, <1>5 DEF TaskCall
  <2>3. TaskResult(t)'
    <3>1. CASE t \in W
      BY <2>1, <3>1, <1>2, <1>3, <1>5, <1>6 DEF TaskResult, Settled, Ends4
    <3>2. CASE t \notin W
      BY <2>1, <3>2, <1>2, <1>3, <1>5, <1>6 DEF TaskResult, Settled
    <3> QED BY <3>1, <3>2
  <2> QED BY <2>2, <2>3
<1>9. ReportsOnce
  BY <1>6 DEF ReportsOnce
<1> QED BY <1>2, <1>5, <1>7, <1>8, <1>9, ToolKeeps

\* A wait that is aborted loses the ends it consumed.
LEMMA WaitAbortsStep ==
  ASSUME IInv, WaitAborts
  PROVE  StepInv
<1>1. /\ \A t \in Task : TaskCall(t) /\ TaskResult(t)
      /\ mgr \in Managers /\ Good(mgr) /\ call \in [Task -> Calls6]
      /\ busy \in BOOLEAN /\ session \in {"on", "off", "ended"}
      /\ sessions \in 0..MaxSessions /\ result \in [Task -> Ends4]
      /\ told \subseteq Task /\ void \subseteq Task /\ aborted \subseteq Task
      /\ mgr.waited \in SUBSET Task
  BY ToolFacts DEF Calls6
<1> DEFINE W == mgr.waited
<1>2. /\ UNCHANGED <<busy, session, sessions, void, result, told>>
      /\ aborted' = aborted \cup {t \in W : Settled(mgr, t)}
  BY DEF WaitAborts, Waited
<1>3. /\ \A t \in Task : call'[t] = IF t \in W THEN "none" ELSE call[t]
      /\ call' \in [Task -> Calls6]
  BY <1>1 DEF WaitAborts, Unwaited, Waited, Calls6
<1>4. CoreStep(mgr, mgr', {}, {})
  <2>1. {} \in SUBSET Task
    OBVIOUS
  <2> QED BY <1>1, <2>1, WaitedShape DEF WaitAborts
<1>5. /\ mgr' \in Managers /\ Good(mgr') /\ Onward(mgr, mgr')
      /\ mgr'.snap = mgr.snap /\ mgr'.setup = mgr.setup /\ mgr'.child = mgr.child
      /\ mgr'.waited = {} /\ mgr'.consumed = mgr.consumed
  BY <1>4 DEF CoreStep
<1>6. TypeOK'
  BY <1>1, <1>2, <1>3, <1>5, NextTypes DEF Calls6
<1>7. ASSUME NEW t \in Task PROVE TaskCall(t)' /\ TaskResult(t)'
  <2>1. TaskCall(t) /\ TaskResult(t)
    BY <1>1
  <2>2. TaskCall(t)'
    BY <2>1, <1>3, <1>5 DEF TaskCall
  <2>3. TaskResult(t)'
    <3>1. CASE t \in W
      BY <2>1, <3>1, <1>2, <1>3, <1>5 DEF TaskCall, TaskResult, Settled
    <3>2. CASE t \notin W
      BY <2>1, <3>2, <1>2, <1>3, <1>5 DEF TaskResult, Settled
    <3> QED BY <3>1, <3>2
  <2> QED BY <2>2, <2>3
<1>8. ReportsOnce
  BY <1>2 DEF ReportsOnce
<1> QED BY <1>2, <1>5, <1>6, <1>7, <1>8, ToolKeeps

\* A cancel or a close that finds its task settled, and one whose time is over.
LEMMA ReturnsStep ==
  ASSUME IInv, NEW t \in Task, CancelReturns(t) \/ CloseReturns(t)
  PROVE  StepInv
<1>1. /\ \A u \in Task : TaskCall(u) /\ TaskResult(u)
      /\ mgr \in Managers /\ Good(mgr) /\ call \in [Task -> Calls6]
      /\ busy \in BOOLEAN /\ session \in {"on", "off", "ended"}
      /\ sessions \in 0..MaxSessions /\ result \in [Task -> Ends4]
      /\ told \subseteq Task /\ void \subseteq Task /\ aborted \subseteq Task
      /\ mgr.waited \in SUBSET Task
  BY ToolFacts DEF Calls6
<1>2. /\ UNCHANGED <<busy, session, sessions, void, aborted>> /\ told' = told \cup {t}
      /\ Settled(mgr, t) /\ call[t] \in {"cancel", "close"}
      /\ call' = [call EXCEPT ![t] = "none"] /\ result' = Dropped(result, {t})
  BY DEF CancelReturns, CloseReturns, CallIsOver, sessionVars
<1>3. /\ \A u \in Task : call'[u] = IF u = t THEN "none" ELSE call[u]
      /\ call' \in [Task -> Calls6]
  BY <1>1, <1>2 DEF Calls6
<1>4. PICK T \in SUBSET {t} : CoreStep(mgr, mgr', T, mgr.waited)
  <2>1. CASE CancelReturns(t)
    <3>1. CoreStep(mgr, mgr', {}, mgr.waited)
      BY <2>1, <1>1, DueShape DEF CancelReturns
    <3> QED BY <3>1
  <2>2. CASE CloseReturns(t)
    <3>1. CoreStep(mgr, mgr', {t}, mgr.waited)
      BY <2>2, <1>1, ConsumeDueShape DEF CloseReturns
    <3> QED BY <3>1
  <2> QED BY <2>1, <2>2
<1>5. /\ mgr' \in Managers /\ Good(mgr') /\ Onward(mgr, mgr')
      /\ mgr'.snap = mgr.snap /\ mgr'.setup = mgr.setup /\ mgr'.child = mgr.child
      /\ mgr'.waited = mgr.waited /\ mgr'.consumed = mgr.consumed \cup T
  BY <1>4 DEF CoreStep
<1>6. /\ result' \in [Task -> Ends4]
      /\ \A u \in Task : result'[u] = IF u \in {t} /\ result[u] \in {"unseen", "pending"}
                                      THEN "dropped" ELSE result[u]
  BY <1>1, <1>2, DroppedShape
<1>7. TypeOK'
  BY <1>1, <1>2, <1>3, <1>5, <1>6, NextTypes DEF Calls6
<1>8. ASSUME NEW u \in Task PROVE TaskCall(u)' /\ TaskResult(u)'
  <2>1. TaskCall(u) /\ TaskResult(u) /\ result[u] \in Ends4
    BY <1>1
  <2>2. TaskCall(u)'
    BY <2>1, <1>2, <1>3, <1>5 DEF TaskCall
  <2>3. TaskResult(u)'
    <3>1. CASE u = t
      BY <2>1, <3>1, <1>2, <1>3, <1>5, <1>6 DEF TaskResult, Settled, Ends4
    <3>2. CASE u # t
      BY <2>1, <3>2, <1>2, <1>3, <1>5, <1>6 DEF TaskResult, Settled
    <3> QED BY <3>1, <3>2
  <2> QED BY <2>2, <2>3
<1>9. ReportsOnce
  BY <1>6 DEF ReportsOnce
<1> QED BY <1>2, <1>5, <1>7, <1>8, <1>9, ToolKeeps

LEMMA CloseTimerStep ==
  ASSUME IInv, NEW t \in Task, CloseTimer(t)
  PROVE  StepInv
<1>1. /\ \A u \in Task : TaskCall(u) /\ TaskResult(u)
      /\ mgr \in Managers /\ Good(mgr) /\ call \in [Task -> Calls6]
      /\ busy \in BOOLEAN /\ session \in {"on", "off", "ended"}
      /\ sessions \in 0..MaxSessions /\ result \in [Task -> Ends4]
      /\ told \subseteq Task /\ void \subseteq Task /\ aborted \subseteq Task
      /\ mgr.waited \in SUBSET Task
  BY ToolFacts DEF Calls6
<1>2. /\ UNCHANGED <<busy, session, sessions, void, result, told, aborted>>
      /\ call[t] = "close" /\ ~Settled(mgr, t)
      /\ call' = [call EXCEPT ![t] = "none"]
  BY DEF CloseTimer, Quiet, CallIsOver, sessionVars
<1>3. /\ \A u \in Task : call'[u] = IF u = t THEN "none" ELSE call[u]
      /\ call' \in [Task -> Calls6]
  BY <1>1, <1>2 DEF Calls6
<1>4. CoreStep(mgr, mgr', {}, mgr.waited)
  BY <1>1, DueShape DEF CloseTimer
<1>5. /\ mgr' \in Managers /\ Good(mgr') /\ Onward(mgr, mgr')
      /\ mgr'.snap = mgr.snap /\ mgr'.setup = mgr.setup /\ mgr'.child = mgr.child
      /\ mgr'.waited = mgr.waited /\ mgr'.consumed = mgr.consumed
  BY <1>4 DEF CoreStep
<1>6. TypeOK'
  BY <1>1, <1>2, <1>3, <1>5, NextTypes DEF Calls6
<1>7. ASSUME NEW u \in Task PROVE TaskCall(u)' /\ TaskResult(u)'
  <2>1. TaskCall(u) /\ TaskResult(u)
    BY <1>1
  <2>2. TaskCall(u)'
    BY <2>1, <1>2, <1>3, <1>5 DEF TaskCall
  <2>3. TaskResult(u)'
    BY <2>1, <1>2, <1>3, <1>5 DEF TaskResult, Settled
  <2> QED BY <2>2, <2>3
<1>8. ReportsOnce
  BY <1>2 DEF ReportsOnce
<1> QED BY <1>2, <1>5, <1>6, <1>7, <1>8, ToolKeeps

LEMMA CancelTimerInv ==
  ASSUME IInv, NEW t \in Task, CancelTimer(t)
  PROVE  StepInv
<1>1. /\ \A u \in Task : TaskCall(u) /\ TaskResult(u)
      /\ mgr \in Managers /\ Good(mgr) /\ call \in [Task -> Calls6]
      /\ busy \in BOOLEAN /\ session \in {"on", "off", "ended"}
      /\ sessions \in 0..MaxSessions /\ result \in [Task -> Ends4]
      /\ told \subseteq Task /\ void \subseteq Task /\ aborted \subseteq Task
  BY ToolFacts DEF Calls6
<1>2. UNCHANGED <<busy, session, sessions, void, result, told, aborted, call>>
  BY DEF CancelTimer, sessionVars
<1>3. /\ t \notin mgr.settling /\ mgr.snap[t] \in {"running", "settled"}
      /\ mgr.child[t] \notin {"starting", "up"}
  BY <1>1 DEF CancelTimer, TaskCall
<1>4. /\ mgr' \in Managers /\ Good(mgr') /\ Onward(mgr, mgr')
      /\ mgr'.snap = mgr.snap /\ mgr'.child = mgr.child /\ mgr'.setup = mgr.setup
      /\ mgr'.waited = mgr.waited /\ mgr'.consumed = mgr.consumed
  BY <1>1, <1>3, CancelTimerStep DEF CancelTimer
<1>5. TypeOK'
  BY <1>1, <1>2, <1>4, NextTypes DEF Calls6
<1>6. ASSUME NEW u \in Task PROVE TaskCall(u)' /\ TaskResult(u)'
  BY <1>1, <1>2, <1>4 DEF TaskCall, TaskResult, Settled
<1>7. ReportsOnce
  BY <1>2 DEF ReportsOnce
<1> QED BY <1>2, <1>4, <1>5, <1>6, <1>7, ToolKeeps

\* A cancel reports at once what has settled or settles; otherwise its call opens.
LEMMA CancelStep ==
  ASSUME IInv, NEW t \in Task, Cancel(t)
  PROVE  StepInv
<1>1. /\ \A u \in Task : TaskCall(u) /\ TaskResult(u)
      /\ mgr \in Managers /\ Good(mgr) /\ call \in [Task -> Calls6]
      /\ busy \in BOOLEAN /\ session \in {"on", "off", "ended"}
      /\ sessions \in 0..MaxSessions /\ result \in [Task -> Ends4]
      /\ told \subseteq Task /\ void \subseteq Task /\ aborted \subseteq Task
  BY ToolFacts DEF Calls6
<1>2. /\ UNCHANGED <<busy, session, sessions, void, aborted>>
      /\ busy /\ session = "on" /\ mgr.snap[t] # "none" /\ call[t] = "none" /\ t \notin void
      /\ t \notin told /\ result[t] # "sent"
  BY DEF Cancel, Asked, Open, Known, sessionVars
<1> DEFINE r == Changed(result, mgr')
           over == Settled(mgr, t) \/ t \in mgr.settling
<1>3. /\ over => result' = Dropped(r, {t}) /\ told' = told \cup {t} /\ call' = call
      /\ ~over => result' = r /\ call' = [call EXCEPT ![t] = "cancel"] /\ told' = told
  BY DEF Cancel
<1>4. r \in [Task -> Ends4] /\ \A u \in Task : r[u] = Seen(mgr', u)
  BY <1>1, ChangedShape DEF TaskResult
<1> HIDE DEF r
<1>5. /\ mgr' \in Managers /\ Good(mgr') /\ Onward(mgr, mgr')
      /\ mgr'.waited = mgr.waited /\ mgr'.setup = mgr.setup
      /\ mgr'.consumed \subseteq mgr.consumed \cup {t}
      /\ \A u \in Task \ {t} : mgr'.snap[u] = mgr.snap[u]
      /\ over => mgr'.snap[t] = mgr.snap[t]
      /\ ~over => mgr'.snap[t] \in {"running", "settled"} /\ mgr'.child[t] \notin {"starting", "up"}
  <2>1. mgr' = CancelTask(mgr, t)
    BY DEF Cancel
  <2> QED BY <2>1, <1>1, <1>2, CancelTaskStep
<1> HIDE DEF over
<1>6. /\ call' \in [Task -> Calls6] /\ told' \subseteq Task
      /\ \A u \in Task : call'[u] = IF u = t /\ ~over THEN "cancel" ELSE call[u]
      /\ told' = IF over THEN told \cup {t} ELSE told
  BY <1>1, <1>3 DEF Calls6
<1>7. /\ result' \in [Task -> Ends4]
      /\ \A u \in Task : result'[u] = IF over /\ u = t /\ Seen(mgr', u) \in {"unseen", "pending"}
                                      THEN "dropped" ELSE Seen(mgr', u)
  <2>1. CASE over
    <3>1. /\ result' \in [Task -> Ends4]
          /\ \A u \in Task : result'[u] = IF u \in {t} /\ r[u] \in {"unseen", "pending"}
                                          THEN "dropped" ELSE r[u]
      BY <2>1, <1>3, <1>4, DroppedShape
    <3> QED BY <2>1, <3>1, <1>4
  <2>2. CASE ~over
    BY <2>2, <1>3, <1>4
  <2> QED BY <2>1, <2>2
<1>8. TypeOK'
  BY <1>1, <1>2, <1>5, <1>6, <1>7, NextTypes DEF Calls6
<1>9. ASSUME NEW u \in Task PROVE TaskCall(u)' /\ TaskResult(u)'
  <2>1. /\ TaskCall(u) /\ TaskResult(u) /\ result[u] \in Ends4
        /\ TaskForward(mgr, mgr', u) /\ TaskInv(mgr, u)
    BY <1>1, <1>5 DEF Onward, Good
  <2>2. TaskCall(u)'
    <3>1. (call[u] = "wait" <=> u \in mgr.waited)'
      BY <2>1, <1>2, <1>5, <1>6 DEF TaskCall
    <3>2. (mgr.snap[u] = "none" /\ mgr.setup[u] # "none" => call[u] \in {"spawn", "command"})'
      BY <2>1, <1>2, <1>5, <1>6 DEF TaskCall, TaskForward
    <3>3. (call[u] = "cancel" =>
              mgr.snap[u] \in {"running", "settled"} /\ mgr.child[u] \notin {"starting", "up"})'
      <4>1. CASE u = t
        BY <4>1, <1>2, <1>5, <1>6
      <4>2. CASE u # t
        BY <4>2, <2>1, <1>5, <1>6 DEF TaskCall, TaskForward, TaskInv, Settled
      <4> QED BY <4>1, <4>2
    <3> QED BY <3>1, <3>2, <3>3 DEF TaskCall
  <2>3. TaskResult(u)'
    <3>1. CASE u = t /\ over
      <4>1. result'[u] \in {"dropped", "sent"} /\ u \in told'
        BY <3>1, <2>1, <1>6, <1>7 DEF Seen, Ends4
      <4>2. u \in aborted => Settled(mgr', u)
        BY <2>1 DEF TaskResult, TaskForward
      <4> QED BY <4>1, <4>2, <1>2 DEF TaskResult
    <3>2. CASE u = t /\ ~over
      <4>1. call'[u] = "cancel" /\ u \notin told'
        BY <3>2, <1>2, <1>6
      <4>2. result[u] = "unseen"
        BY <3>2, <2>1, <1>2 DEF TaskResult, over
      <4>3. result'[u] \in {"unseen", "dropped", "pending"} /\ (result'[u] # "unseen" <=> Settled(mgr', u))
        BY <3>2, <4>2, <1>2, <1>7 DEF Seen
      <4>4. u \in aborted => Settled(mgr', u)
        BY <2>1 DEF TaskResult, TaskForward
      <4> QED BY <4>1, <4>3, <4>4, <1>2 DEF TaskResult
    <3>3. CASE u # t
      <4>1. /\ call'[u] = call[u] /\ (u \in told' <=> u \in told) /\ result'[u] = Seen(mgr', u)
            /\ (Settled(mgr', u) <=> Settled(mgr, u))
            /\ u \in mgr'.consumed => u \in mgr.consumed
        BY <3>3, <1>5, <1>6, <1>7 DEF Settled
      <4>2. u \notin void => result'[u] = result[u]
        BY <4>1, <2>1 DEF TaskResult, Seen
      <4>3. u \in void => result'[u] = result[u] \/ (result'[u] \in {"dropped", "pending"} /\ result[u] = "unseen" /\ Settled(mgr', u))
        BY <4>1, <1>2 DEF Seen
      <4> QED BY <2>1, <4>1, <4>2, <4>3, <1>2 DEF TaskResult
    <3> QED BY <3>1, <3>2, <3>3
  <2> QED BY <2>2, <2>3
<1>10. ReportsOnce
  <2>1. ASSUME NEW u \in Task, result'[u] \in {"sent", "resent"}, result[u] # result'[u] PROVE FALSE
    BY <2>1, <1>1, <1>2, <1>7 DEF Seen, Ends4
  <2> QED BY <2>1 DEF ReportsOnce
<1> QED BY <1>2, <1>5, <1>8, <1>9, <1>10, ToolKeeps

LEMMA CloseStep ==
  ASSUME IInv, NEW t \in Task, Close(t)
  PROVE  StepInv
<1>1. /\ \A u \in Task : TaskCall(u) /\ TaskResult(u)
      /\ mgr \in Managers /\ Good(mgr) /\ call \in [Task -> Calls6]
      /\ busy \in BOOLEAN /\ session \in {"on", "off", "ended"}
      /\ sessions \in 0..MaxSessions /\ result \in [Task -> Ends4]
      /\ told \subseteq Task /\ void \subseteq Task /\ aborted \subseteq Task
  BY ToolFacts DEF Calls6
<1>2. /\ UNCHANGED <<busy, session, sessions, void, aborted, told>>
      /\ busy /\ session = "on" /\ mgr.snap[t] # "none" /\ call[t] = "none" /\ t \notin void
      /\ t \notin told /\ result[t] # "sent"
      /\ call' = [call EXCEPT ![t] = "close"] /\ result' = Changed(result, mgr')
  BY DEF Close, Asked, Open, Known, sessionVars
<1>3. result' \in [Task -> Ends4] /\ \A u \in Task : result'[u] = Seen(mgr', u)
  BY <1>1, <1>2, ChangedShape DEF TaskResult
<1>4. /\ mgr' \in Managers /\ Good(mgr') /\ Onward(mgr, mgr')
      /\ mgr'.waited = mgr.waited /\ mgr'.setup = mgr.setup
      /\ mgr'.consumed \subseteq mgr.consumed \cup {u \in {t} : Settled(mgr', t)}
      /\ \A u \in Task \ {t} : mgr'.snap[u] = mgr.snap[u]
  <2>1. mgr' = CloseTask(mgr, t)
    BY DEF Close
  <2> QED BY <2>1, <1>1, <1>2, CloseTaskStep
<1>5. /\ call' \in [Task -> Calls6]
      /\ \A u \in Task : call'[u] = IF u = t THEN "close" ELSE call[u]
  BY <1>1, <1>2 DEF Calls6
<1>6. TypeOK'
  BY <1>1, <1>2, <1>3, <1>4, <1>5, NextTypes DEF Calls6
<1>7. ASSUME NEW u \in Task PROVE TaskCall(u)' /\ TaskResult(u)'
  <2>1. /\ TaskCall(u) /\ TaskResult(u) /\ result[u] \in Ends4
        /\ TaskForward(mgr, mgr', u) /\ TaskInv(mgr, u)
    BY <1>1, <1>4 DEF Onward, Good
  <2>2. TaskCall(u)'
    <3>1. (call[u] = "wait" <=> u \in mgr.waited)'
      BY <2>1, <1>2, <1>4, <1>5 DEF TaskCall
    <3>2. (mgr.snap[u] = "none" /\ mgr.setup[u] # "none" => call[u] \in {"spawn", "command"})'
      BY <2>1, <1>2, <1>4, <1>5 DEF TaskCall, TaskForward
    <3>3. (call[u] = "cancel" =>
              mgr.snap[u] \in {"running", "settled"} /\ mgr.child[u] \notin {"starting", "up"})'
      BY <2>1, <1>5 DEF TaskCall, TaskForward, TaskInv, Settled
    <3> QED BY <3>1, <3>2, <3>3 DEF TaskCall
  <2>3. TaskResult(u)'
    <3>1. CASE u = t
      <4>1. call'[u] = "close" /\ u \notin told
        BY <3>1, <1>2, <1>5
      <4>2. /\ result[u] # "unseen" => Settled(mgr', u)
            /\ u \in aborted => Settled(mgr', u)
            /\ u \in mgr.consumed => u \in aborted
        BY <3>1, <2>1, <1>2 DEF TaskResult, TaskForward
      <4>3. result'[u] = Seen(mgr', u)
        BY <1>3
      <4>4. (result[u] # "unseen" => Settled(mgr, u))'
        BY <4>2, <4>3 DEF Seen
      <4>5. (session = "on" /\ Settled(mgr, u) => result[u] # "unseen")'
        BY <4>3, <1>2 DEF Seen
      <4>6. u \in mgr'.consumed => u \in aborted \/ Settled(mgr', u)
        BY <3>1, <4>2, <1>4
      <4> QED BY <4>1, <4>2, <4>4, <4>5, <4>6, <1>2 DEF TaskResult
    <3>2. CASE u # t
      <4>1. /\ call'[u] = call[u] /\ result'[u] = Seen(mgr', u)
            /\ (Settled(mgr', u) <=> Settled(mgr, u))
            /\ u \in mgr'.consumed => u \in mgr.consumed
        BY <3>2, <1>3, <1>4, <1>5 DEF Settled
      <4>2. u \notin void => result'[u] = result[u]
        BY <4>1, <2>1 DEF TaskResult, Seen
      <4>3. u \in void => result'[u] = result[u] \/ (result'[u] \in {"dropped", "pending"} /\ result[u] = "unseen" /\ Settled(mgr', u))
        BY <4>1, <1>2 DEF Seen
      <4> QED BY <2>1, <4>1, <4>2, <4>3, <1>2 DEF TaskResult
    <3> QED BY <3>1, <3>2
  <2> QED BY <2>2, <2>3
<1>8. ReportsOnce
  <2>1. ASSUME NEW u \in Task, result'[u] \in {"sent", "resent"}, result[u] # result'[u] PROVE FALSE
    BY <2>1, <1>1, <1>2, <1>3 DEF Seen, Ends4
  <2> QED BY <2>1 DEF ReportsOnce
<1> QED BY <1>2, <1>4, <1>6, <1>7, <1>8, ToolKeeps

\* A spawn or a reply: f is the session file, nobody else writes it.
LEMMA SpawnInv ==
  ASSUME IInv, NEW t \in Task, NEW f \in Task, NEW by \in {"spawn", "command"}, Calls(t, by, f),
         UNCHANGED <<result, told, sessionVars>>,
         f = t \/ mgr.snap[f] # "none",
         \A u \in Task \ {t} : mgr.file[u] = f => ~Continues(u)
  PROVE  StepInv
<1>1. /\ \A u \in Task : TaskCall(u) /\ TaskResult(u)
      /\ mgr \in Managers /\ Good(mgr) /\ call \in [Task -> Calls6]
      /\ busy \in BOOLEAN /\ session \in {"on", "off", "ended"}
      /\ sessions \in 0..MaxSessions /\ result \in [Task -> Ends4]
      /\ told \subseteq Task /\ void \subseteq Task /\ aborted \subseteq Task
  BY ToolFacts DEF Calls6
<1>2. /\ UNCHANGED <<busy, session, sessions, void, aborted, result, told>>
      /\ session = "on" /\ mgr.snap[t] = "none" /\ call[t] = "none" /\ t \notin void
      /\ ~Refuses(mgr) /\ mgr' = Spawned(mgr, t, f)
      /\ call' = [call EXCEPT ![t] = IF Queues(mgr) THEN "none" ELSE by]
  BY DEF Calls, Fresh, Known, sessionVars
<1>3. mgr.setup[t] = "none"
  BY <1>1, <1>2 DEF TaskCall
<1>4. /\ mgr' \in Managers /\ Good(mgr')
      /\ mgr'.file = [mgr.file EXCEPT ![t] = f] /\ mgr'.stale = mgr.stale /\ mgr'.child = mgr.child
      /\ mgr'.waited = mgr.waited /\ mgr'.consumed = mgr.consumed
      /\ \A u \in Task \ {t} : mgr'.snap[u] = mgr.snap[u] /\ mgr'.setup[u] = mgr.setup[u]
      /\ mgr'.snap[t] \in {"none", "queued"}
      /\ mgr'.snap[t] = "none" <=> ~Queues(mgr)
      /\ ToSet(mgr'.queue) \subseteq ToSet(mgr.queue) \cup {t}
      /\ (mgr.queue # <<>> => Awake(mgr)) => (mgr'.queue # <<>> => Awake(mgr'))
  <2> DEFINE n == Spawned(mgr, t, f)
  <2>1. /\ n \in Managers /\ Good(n)
        /\ n.file = [mgr.file EXCEPT ![t] = f] /\ n.stale = mgr.stale /\ n.child = mgr.child
        /\ n.waited = mgr.waited /\ n.consumed = mgr.consumed
        /\ \A u \in Task \ {t} : n.snap[u] = mgr.snap[u] /\ n.setup[u] = mgr.setup[u]
        /\ n.snap[t] \in {"none", "queued"}
        /\ n.snap[t] = "none" <=> ~Queues(mgr)
        /\ ToSet(n.queue) \subseteq ToSet(mgr.queue) \cup {t}
        /\ (mgr.queue # <<>> => Awake(mgr)) => (n.queue # <<>> => Awake(n))
    BY <1>1, <1>2, <1>3, SpawnedStep
  <2>2. mgr' = n
    BY <1>2
  <2> HIDE DEF n
  <2> QED BY <2>1, <2>2
<1>5. /\ call' \in [Task -> Calls6]
      /\ \A u \in Task : call'[u] = IF u # t THEN call[u] ELSE IF Queues(mgr) THEN "none" ELSE by
  BY <1>1, <1>2 DEF Calls6
<1>6. TypeOK'
  BY <1>1, <1>2, <1>4, <1>5, NextTypes DEF Calls6
<1>7. /\ \A u \in Task : mgr'.file[u] = IF u = t THEN f ELSE mgr.file[u]
      /\ \A u \in Task : mgr.file[u] \in Task
  BY <1>1, <1>4 DEF Managers
<1>8. \A u \in Task : Settled(mgr', u) <=> Settled(mgr, u)
  BY <1>2, <1>4 DEF Settled
<1>9. ASSUME NEW u \in Task PROVE TaskCall(u)' /\ TaskResult(u)'
  <2>1. TaskCall(u) /\ TaskResult(u)
    BY <1>1
  <2>2. TaskCall(u)'
    BY <2>1, <1>2, <1>4, <1>5 DEF TaskCall
  <2>3. TaskResult(u)'
    BY <2>1, <1>2, <1>4, <1>5, <1>8 DEF TaskResult
  <2> QED BY <2>2, <2>3
<1>10. CallInv' /\ ResultInv'
  BY <1>2, <1>9 DEF CallInv, ResultInv, IInv
<1>11. SessionInv
  BY DEF IInv
<1>12. SessionInv'
  <2>1. (\A u \in void : u \notin ToSet(mgr.queue))'
    BY <1>2, <1>4, <1>11 DEF SessionInv
  <2>2. (\A u \in void : mgr.setup[u] # "none" => u \in mgr.stale)'
    <3>1. \A u \in void : u \in Task \ {t}
      BY <1>1, <1>2
    <3> QED BY <3>1, <1>2, <1>4, <1>11 DEF SessionInv
  <2>3. (\A u \in Task : mgr.file[u] = u \/ mgr.snap[mgr.file[u]] # "none")'
    <3>1. ASSUME NEW u \in Task PROVE mgr'.file[u] = u \/ mgr'.snap[mgr'.file[u]] # "none"
      <4>1. CASE u = t
        BY <4>1, <1>2, <1>4, <1>7
      <4>2. CASE u # t
        <5>1. mgr.file[u] = u \/ mgr.snap[mgr.file[u]] # "none"
          BY <1>11 DEF SessionInv
        <5> QED BY <4>2, <5>1, <1>2, <1>4, <1>7
      <4> QED BY <4>1, <4>2
    <3> QED BY <3>1
  <2> QED BY <2>1, <2>2, <2>3, <1>2, <1>4, <1>11 DEF SessionInv
<1>13. NothingOrphaned'
  BY <1>2, <1>4 DEF IInv, NothingOrphaned
<1>14. OneContinuation'
  <2>1. ASSUME NEW u \in Task, NEW w \in Task, u # w, mgr'.file[u] = mgr'.file[w],
               Continues(u)', Continues(w)'
        PROVE  FALSE
    <3>1. \A x \in Task \ {t} : Continues(x)' => Continues(x)
      BY <1>4, <1>8 DEF Continues
    <3>2. CASE u # t /\ w # t
      BY <2>1, <3>1, <3>2, <1>7 DEF IInv, OneContinuation
    <3>3. CASE u = t \/ w = t
      BY <2>1, <3>1, <3>3, <1>7
    <3> QED BY <3>2, <3>3
  <2> QED BY <2>1 DEF OneContinuation
<1>15. NothingParked'
  <2>1. sessions = 0 => (mgr.queue # <<>> => Awake(mgr))
    BY <1>1 DEF IInv, NothingParked, Awake, Good, QueueInv
  <2>2. mgr'.settling \subseteq Task
    BY <1>4 DEF Managers
  <2> QED BY <1>2, <1>4, <2>1, <2>2 DEF NothingParked, Awake
<1>16. ReportsOnce /\ Sticks
  <2>1. ReportsOnce
    BY <1>2 DEF ReportsOnce
  <2>2. ASSUME NEW u \in Task, Settled(mgr, u)
        PROVE  mgr'.snap[u] = mgr.snap[u] /\ u \notin mgr'.settling
    <3>1. Settled(mgr', u) /\ TaskInv(mgr', u)
      BY <2>2, <1>4, <1>8 DEF Good
    <3> QED BY <2>2, <3>1 DEF TaskInv, Settled
  <2> QED BY <2>1, <2>2 DEF Sticks
<1> QED BY <1>4, <1>6, <1>10, <1>12, <1>13, <1>14, <1>15, <1>16 DEF StepInv, IInv, ManagerInv

LEMMA SpawnStep ==
  ASSUME IInv, NEW t \in Task, Spawn(t)
  PROVE  StepInv
<1>1. mgr.snap[t] = "none" /\ SessionInv
  BY DEF Spawn, Calls, Fresh, Known, IInv
<1>2. ASSUME NEW u \in Task \ {t}, mgr.file[u] = t PROVE FALSE
  BY <1>1, <1>2 DEF SessionInv
<1>3. PICK by \in {"spawn", "command"} : Calls(t, by, t)
  BY DEF Spawn
<1>4. UNCHANGED <<result, told, sessionVars>>
  BY DEF Spawn
<1> QED BY <1>2, <1>3, <1>4, SpawnInv

LEMMA ReplyStep ==
  ASSUME IInv, NEW o \in Task, NEW t \in Task, Reply(o, t)
  PROVE  StepInv
<1>1. /\ Settled(mgr, o) /\ Free(mgr.file[o]) /\ Calls(t, "spawn", mgr.file[o])
      /\ UNCHANGED <<result, told, sessionVars>>
  BY DEF Reply
<1>2. mgr.file[o] \in Task
  BY ToolFacts DEF Managers
<1>3. mgr.snap[mgr.file[o]] # "none"
  <2>1. mgr.file[o] = o \/ mgr.snap[mgr.file[o]] # "none"
    BY DEF IInv, SessionInv
  <2> QED BY <2>1, <1>1 DEF Settled
<1>4. \A u \in Task \ {t} : mgr.file[u] = mgr.file[o] => ~Continues(u)
  BY <1>1 DEF Free
<1> QED BY <1>1, <1>2, <1>3, <1>4, SpawnInv

LEMMA ToolStep ==
  ASSUME IInv, Tool
  PROVE  StepInv
  BY WaitReturnsStep, WaitAbortsStep, SpawnStep, CancelStep, CancelTimerInv, ReturnsStep,
     CloseStep, CloseTimerStep, ReplyStep, WaitStep DEF Tool

(***************************************************************************)
(* Turns and sessions.                                                     *)
(***************************************************************************)
LEMMA TurnStep ==
  ASSUME IInv, AgentStart \/ AgentEnd
  PROVE  StepInv
<1>1. /\ \A u \in Task : TaskCall(u) /\ TaskResult(u)
      /\ mgr \in Managers /\ Good(mgr) /\ call \in [Task -> Calls6]
      /\ busy \in BOOLEAN /\ session \in {"on", "off", "ended"}
      /\ sessions \in 0..MaxSessions /\ result \in [Task -> Ends4]
      /\ told \subseteq Task /\ void \subseteq Task /\ aborted \subseteq Task
  BY ToolFacts DEF Calls6
<1>2. /\ UNCHANGED <<mgr, call, told, session, sessions, void, aborted>>
      /\ session = "on" /\ busy' \in BOOLEAN /\ (~busy' \/ result' = result)
      /\ result' \in [Task -> Ends4]
      /\ \A u \in Task : result'[u] = IF result[u] = "pending" /\ ~busy' THEN "sent" ELSE result[u]
  <2>1. CASE AgentStart
    BY <2>1, <1>1 DEF AgentStart
  <2>2. CASE AgentEnd
    <3>1. result' = Flushed(result) /\ busy' = FALSE
      BY <2>2 DEF AgentEnd
    <3>2. /\ Flushed(result) \in [Task -> Ends4]
          /\ \A u \in Task : Flushed(result)[u] = IF result[u] = "pending" THEN "sent" ELSE result[u]
      BY <1>1, FlushedShape
    <3> QED BY <2>2, <3>1, <3>2 DEF AgentEnd
  <2> QED BY <2>1, <2>2
<1>3. TypeOK'
  BY <1>1, <1>2, NextTypes DEF Calls6
<1>4. ASSUME NEW u \in Task PROVE TaskCall(u)' /\ TaskResult(u)'
  <2>1. TaskCall(u) /\ TaskResult(u)
    BY <1>1
  <2> QED BY <2>1, <1>2 DEF TaskCall, TaskResult, Settled
<1>5. CallInv' /\ ResultInv'
  BY <1>2, <1>4 DEF CallInv, ResultInv
<1>6. SessionInv' /\ NothingOrphaned' /\ OneContinuation' /\ NothingParked' /\ ManagerInv'
  BY <1>2 DEF IInv, SessionInv, NothingOrphaned, OneContinuation, Continues, NothingParked, ManagerInv
<1>7. ReportsOnce
  <2>1. ASSUME NEW u \in Task, result'[u] \in {"sent", "resent"}, result[u] # result'[u]
        PROVE  result'[u] = "sent" /\ u \notin told
    BY <2>1, <1>1, <1>2 DEF TaskResult
  <2> QED BY <2>1 DEF ReportsOnce
<1>8. Sticks
  BY <1>1, <1>2 DEF Sticks, Good, TaskInv, Settled
<1> QED BY <1>3, <1>5, <1>6, <1>7, <1>8 DEF StepInv, IInv

LEMMA ShutdownStep ==
  ASSUME IInv, NEW next \in {"off", "ended"}, Shutdown(next)
  PROVE  StepInv
<1>1. /\ \A u \in Task : TaskCall(u) /\ TaskResult(u)
      /\ mgr \in Managers /\ Good(mgr) /\ call \in [Task -> Calls6]
      /\ busy \in BOOLEAN /\ session \in {"on", "off", "ended"}
      /\ sessions \in 0..MaxSessions /\ result \in [Task -> Ends4]
      /\ told \subseteq Task /\ void \subseteq Task /\ aborted \subseteq Task
  BY ToolFacts DEF Calls6
<1>2. /\ session' = next /\ busy' = FALSE /\ void' = void \cup Begun
      /\ UNCHANGED <<call, told, sessions, aborted>>
      /\ next = "off" => sessions < MaxSessions
      /\ \A u \in Task : result'[u] = IF result[u] = "pending" THEN "dropped" ELSE result[u]
  BY DEF Shutdown
<1>3. result' \in [Task -> Ends4]
  <2>1. result' = [u \in Task |-> IF result[u] = "pending" THEN "dropped" ELSE result[u]]
    BY DEF Shutdown
  <2>2. \A u \in Task : (IF result[u] = "pending" THEN "dropped" ELSE result[u]) \in Ends4
    BY <1>1 DEF Ends4
  <2> QED BY <2>1, <2>2
<1>4. \A u \in Task : u \in Begun <=> mgr.snap[u] # "none" \/ mgr.setup[u] # "none"
  BY DEF Begun, Known
<1> DEFINE d == Disposed(mgr)
<1>5. /\ d \in Managers /\ Good(d) /\ d.queue = <<>>
      /\ d.file = mgr.file /\ d.setup = mgr.setup /\ d.waited = mgr.waited
      /\ d.stale = {u \in Task : mgr.setup[u] # "none"}
      /\ d.consumed = mgr.consumed \cup (ToSet(mgr.queue) \cap mgr.waited)
      /\ \A u \in Task : TaskForward(mgr, d, u)
      /\ \A u \in Task : d.child[u] \notin {"starting", "up"}
  BY <1>1, DisposedStep
<1> HIDE DEF d
<1>6. /\ mgr' \in Managers /\ Good(mgr') /\ SameCore(d, mgr')
      /\ mgr'.waited = mgr.waited
      /\ \A u \in mgr'.consumed : u \in mgr.consumed \/ (u \in Task /\ mgr.snap[u] # "none")
  <2>1. \A u \in ToSet(mgr.queue) : u \in Task /\ mgr.snap[u] = "queued"
    BY <1>1, Places DEF Managers, Good, QueueInv
  <2>2. \A u \in d.consumed : u \in mgr.consumed \/ (u \in Task /\ mgr.snap[u] # "none")
    BY <2>1, <1>5
  <2>3. CASE mgr' = d
    BY <2>2, <2>3, <1>5 DEF SameCore, SameSetups
  <2>4. CASE mgr' = Replaced(mgr)
    <3> DEFINE K == {u \in Task : mgr.snap[u] # "none"}
    <3>1. mgr' = Consume(d, K) /\ K \in SUBSET Task
      BY <2>4 DEF Replaced, d
    <3>2. \A u \in K : u \in Task /\ mgr.snap[u] # "none"
      OBVIOUS
    <3> HIDE DEF K
    <3>3. /\ mgr' \in Managers /\ SameCore(d, mgr') /\ mgr'.due = d.due
          /\ mgr'.waited = d.waited /\ mgr'.consumed = d.consumed \cup K
      BY <3>1, <1>5, ConsumeShape
    <3>4. Good(mgr')
      <4>1. d.due => mgr'.due
        BY <3>3
      <4> QED BY <3>3, <4>1, <1>5, CoreKept
    <3> QED BY <3>2, <3>3, <3>4, <2>2, <1>5
  <2> QED BY <2>3, <2>4 DEF Shutdown, d
<1>7. /\ mgr'.queue = <<>> /\ mgr'.file = mgr.file /\ mgr'.setup = mgr.setup
      /\ mgr'.stale = {u \in Task : mgr.setup[u] # "none"}
      /\ \A u \in Task : mgr'.child[u] \notin {"starting", "up"}
  BY <1>5, <1>6 DEF SameCore, SameSetups
<1>8. \A u \in Task : TaskForward(mgr, mgr', u)
  BY <1>5, <1>6 DEF SameCore, SameSetups, TaskForward, Settled, Continuing
<1>9. TypeOK'
  <2>1. Begun \subseteq Task
    BY DEF Begun
  <2> QED BY <2>1, <1>1, <1>2, <1>3, <1>6, NextTypes DEF Calls6
<1>10. ASSUME NEW u \in Task PROVE TaskCall(u)' /\ TaskResult(u)'
  <2>1. TaskCall(u) /\ TaskResult(u) /\ TaskForward(mgr, mgr', u) /\ TaskInv(mgr, u)
    BY <1>1, <1>8 DEF Good
  <2>2. TaskCall(u)'
    <3>1. (mgr.snap[u] = "none" /\ mgr.setup[u] # "none" => call[u] \in {"spawn", "command"})'
      BY <2>1, <1>2 DEF TaskCall, TaskForward
    <3>2. (call[u] = "cancel" =>
              mgr.snap[u] \in {"running", "settled"} /\ mgr.child[u] \notin {"starting", "up"})'
      BY <2>1, <1>2, <1>7 DEF TaskCall, TaskForward, Settled
    <3> QED BY <2>1, <3>1, <3>2, <1>2, <1>6 DEF TaskCall
  <2>3. u \notin void' => u \notin void /\ mgr.snap[u] = "none"
    BY <1>2, <1>4
  <2>4. Settled(mgr, u) => Settled(mgr', u) /\ mgr.snap[u] # "none"
    BY <2>1 DEF TaskForward, Settled
  <2>5. u \in mgr'.consumed /\ u \notin void' => u \in mgr.consumed
    BY <2>3, <1>6
  <2>6. result[u] = "pending" => u \in void'
    BY <2>1, <2>3, <2>4 DEF TaskResult
  <2>7. TaskResult(u)'
    <3>1. (u \in told => result[u] \in {"dropped", "sent"})'
      BY <2>1, <1>2 DEF TaskResult
    <3>2. (result[u] # "unseen" => Settled(mgr, u) \/ u \in told)'
      BY <2>1, <2>4, <1>2 DEF TaskResult
    <3>3. (result[u] = "pending" => busy)'
      BY <1>2
    <3>4. (u \in aborted => Settled(mgr, u))'
      BY <2>1, <2>4, <1>2 DEF TaskResult
    <3>5. (u \in mgr.consumed \ void =>
             \/ u \in told \cup aborted
             \/ call[u] = "cancel"
             \/ call[u] \in {"wait", "close"} /\ Settled(mgr, u))'
      BY <2>1, <2>3, <2>4, <2>5, <1>2 DEF TaskResult
    <3>6. (result[u] = "dropped" /\ u \notin void =>
             u \in told \cup aborted \/ call[u] \in {"wait", "cancel", "close"})'
      BY <2>1, <2>3, <2>6, <1>2 DEF TaskResult
    <3>7. (session = "on" /\ Settled(mgr, u) /\ u \notin void => result[u] # "unseen")'
      BY <1>2
    <3> QED BY <3>1, <3>2, <3>3, <3>4, <3>5, <3>6, <3>7 DEF TaskResult
  <2> QED BY <2>2, <2>7
<1>11. CallInv' /\ ResultInv'
  BY <1>2, <1>10 DEF CallInv, ResultInv
<1>12. SessionInv'
  <2>1. (session # "on" => \A u \in Task \ void : mgr.snap[u] = "none" /\ mgr.setup[u] = "none")'
    BY <1>2, <1>4, <1>8 DEF TaskForward
  <2>2. (\A u \in void : u \notin ToSet(mgr.queue))'
    BY <1>7, Emptied
  <2>3. (\A u \in void : mgr.setup[u] # "none" => u \in mgr.stale)'
    <3>1. void' \subseteq Task
      BY <1>1, <1>2 DEF Begun
    <3> QED BY <3>1, <1>7
  <2>4. (\A u \in Task : mgr.file[u] = u \/ mgr.snap[mgr.file[u]] # "none")'
    <3>1. \A u \in Task : mgr.file[u] \in Task
      BY <1>1 DEF Managers
    <3> QED BY <3>1, <1>7, <1>8 DEF IInv, SessionInv, TaskForward
  <2> QED BY <2>1, <2>2, <2>3, <2>4, <1>2, <1>7 DEF SessionInv
<1>13. NothingOrphaned'
  <2>1. void' \subseteq Task
    BY <1>1, <1>2 DEF Begun
  <2> QED BY <2>1, <1>7 DEF NothingOrphaned
<1>14. OneContinuation'
  <2>1. \A u \in Task : Continues(u)' => Continues(u)
    BY <1>8 DEF TaskForward, Continues, Continuing, Settled
  <2> QED BY <2>1, <1>7 DEF IInv, OneContinuation
<1>15. NothingParked'
  BY <1>7 DEF NothingParked
<1>16. ReportsOnce
  BY <1>2 DEF ReportsOnce
<1>17. Sticks
  BY <1>8 DEF Sticks, TaskForward, Settled
<1> QED BY <1>6, <1>9, <1>11, <1>12, <1>13, <1>14, <1>15, <1>16, <1>17 DEF StepInv, IInv, ManagerInv

LEMMA RebindStep ==
  ASSUME IInv, Rebind
  PROVE  StepInv
<1>1. /\ \A u \in Task : TaskCall(u) /\ TaskResult(u)
      /\ mgr \in Managers /\ Good(mgr) /\ call \in [Task -> Calls6]
      /\ busy \in BOOLEAN /\ session \in {"on", "off", "ended"}
      /\ sessions \in 0..MaxSessions /\ result \in [Task -> Ends4]
      /\ told \subseteq Task /\ void \subseteq Task /\ aborted \subseteq Task
  BY ToolFacts DEF Calls6
<1>2. /\ session = "off" /\ session' = "on" /\ sessions' = sessions + 1
      /\ UNCHANGED <<mgr, call, told, busy, void, aborted>>
  BY DEF Rebind
<1>3. /\ result' \in [Task -> Ends4]
      /\ \A u \in Task : result'[u] =
           IF Settled(mgr, u) /\ result[u] \in {"unseen", "pending"} THEN "dropped" ELSE result[u]
  BY <1>1, DroppedShape DEF Rebind
<1>4. /\ sessions' \in 0..MaxSessions /\ sessions' # 0
      /\ \A u \in Task \ void : mgr.snap[u] = "none" /\ mgr.setup[u] = "none"
  <2>1. sessions < MaxSessions /\ \A u \in Task \ void : mgr.snap[u] = "none" /\ mgr.setup[u] = "none"
    BY <1>2 DEF IInv, SessionInv
  <2> QED BY <2>1, <1>1, <1>2, SessionsAssumption
<1>5. TypeOK'
  BY <1>1, <1>2, <1>3, <1>4, NextTypes DEF Calls6
<1>6. ASSUME NEW u \in Task PROVE TaskCall(u)' /\ TaskResult(u)'
  <2>1. TaskCall(u) /\ TaskResult(u)
    BY <1>1
  <2>2. u \notin void => ~Settled(mgr, u)
    BY <1>4 DEF Settled
  <2> QED BY <2>1, <2>2, <1>2, <1>3 DEF TaskCall, TaskResult, Settled
<1>7. CallInv' /\ ResultInv'
  BY <1>2, <1>6 DEF CallInv, ResultInv
<1>8. SessionInv' /\ NothingOrphaned' /\ OneContinuation' /\ NothingParked' /\ ManagerInv'
  <2>1. SessionInv' /\ ManagerInv'
    BY <1>2, <1>4 DEF IInv, SessionInv, ManagerInv
  <2>2. NothingOrphaned' /\ OneContinuation' /\ NothingParked'
    BY <1>2, <1>4 DEF IInv, NothingOrphaned, OneContinuation, Continues, NothingParked
  <2> QED BY <2>1, <2>2
<1>9. ReportsOnce
  BY <1>3 DEF ReportsOnce
<1>10. Sticks
  BY <1>1, <1>2 DEF Sticks, Good, TaskInv, Settled
<1> QED BY <1>5, <1>7, <1>8, <1>9, <1>10 DEF StepInv, IInv

(***************************************************************************)
(* The theorems.                                                           *)
(***************************************************************************)
LEMMA Starts ==
  ASSUME Init
  PROVE  IInv
<1>1. <<>> \in Seq(Task)
  BY EmptySeq
<1>2. /\ mgr \in Managers /\ mgr.queue = <<>> /\ mgr.gate = <<>> /\ mgr.waiters = <<>>
      /\ mgr.slot = None /\ mgr.drained = None /\ mgr.settling = {} /\ mgr.stale = {}
      /\ mgr.consumed = {} /\ mgr.waited = {} /\ mgr.due = FALSE
      /\ \A t \in Task : /\ mgr.snap[t] = "none" /\ mgr.setup[t] = "none"
                         /\ mgr.child[t] = "none" /\ mgr.file[t] = t
  BY <1>1 DEF Init, NewManager, Managers, Endings
<1>3. /\ told = {} /\ busy = FALSE /\ session = "on" /\ sessions = 0 /\ void = {} /\ aborted = {}
      /\ \A t \in Task : call[t] = "none" /\ result[t] = "unseen"
  BY DEF Init
<1>4. TypeOK
  <2>1. /\ call \in [Task -> Calls6] /\ result \in [Task -> Ends4]
    BY DEF Init, Calls6, Ends4
  <2>2. sessions \in 0..MaxSessions
    BY <1>3, SessionsAssumption
  <2> QED BY <1>2, <1>3, <2>1, <2>2, Types DEF Calls6
<1>5. ManagerInv
  <2>1. \A t \in Task : TaskInv(mgr, t)
    BY <1>2 DEF TaskInv, Settings
  <2>2. QueueInv(mgr) /\ GateInv(mgr) /\ SlotInv(mgr)
    BY <1>2, Emptied, ManagerAssumption DEF QueueInv, GateInv, SlotInv
  <2>3. Occupied(mgr) = {}
    BY <1>2 DEF Occupied, Pending, Children, Settings
  <2>4. Cardinality(Occupied(mgr)) <= MaxRunning
    BY <2>3, FS_EmptySet, ManagerAssumption
  <2> QED BY <2>1, <2>2, <2>4 DEF ManagerInv, Good
<1>6. CallInv /\ ResultInv
  BY <1>2, <1>3 DEF CallInv, TaskCall, ResultInv, TaskResult, Settled
<1>7. SessionInv
  BY <1>2, <1>3, Emptied DEF SessionInv
<1>8. NothingOrphaned /\ OneContinuation /\ NothingParked
  BY <1>2, <1>3 DEF NothingOrphaned, OneContinuation, NothingParked
<1> QED BY <1>4, <1>5, <1>6, <1>7, <1>8 DEF IInv

LEMMA Steps ==
  ASSUME IInv, [Next]_vars
  PROVE  StepInv
<1>1. CASE Resume \/ ManagerEvent
  <2>1. /\ Drain \/ \E t \in Task : Resumes(t) \/ Awaited(t) \/ ChildStep(t)
        /\ Notified /\ UNCHANGED sessionVars
    BY <1>1 DEF Resume, ManagerEvent
  <2>2. Steady(mgr, mgr')
    BY <2>1, ToolFacts, ManagerSteps
  <2> QED BY <2>1, <2>2, ManagerStepInv
<1>2. CASE UNCHANGED vars
  <2>1. UNCHANGED <<mgr, call, result, told, busy, session, sessions, void, aborted>>
    BY <1>2 DEF vars, sessionVars
  <2>2. IInv'
    BY <2>1 DEF IInv, TypeOK, ManagerTypeOK, ManagerInv, CallInv, TaskCall, ResultInv, TaskResult,
                SessionInv, NothingOrphaned, OneContinuation, Continues, NothingParked
  <2>3. ReportsOnce /\ Sticks
    BY <2>1, ToolFacts DEF ReportsOnce, Sticks, TaskInv, Settled
  <2> QED BY <2>2, <2>3 DEF StepInv
<1> QED BY <1>1, <1>2, ToolStep, TurnStep, RebindStep, ShutdownStep DEF Next

LEMMA Inductive == Spec => []IInv
<1>1. Init => IInv
  BY Starts
<1>2. IInv /\ [Next]_vars => IInv'
  BY Steps DEF StepInv
<1> QED BY <1>1, <1>2, PTL DEF Spec

(***************************************************************************)
(* The outcome that is recorded of an end.                                 *)
(***************************************************************************)
Taken(m, t) == Settled(m, t) \/ t \in m.settling

\* An outcome stays once the settlement began.
KeepsEnds(m, n) == \A u \in Task : Taken(m, u) => n.outcome[u] = m.outcome[u]

OutcomesKept ==
  \A t \in Task : Ending(t) => mgr'.outcome[t] = mgr.outcome[t] \/ Refused(t)

LEMMA ReturnedOutcome ==
  ASSUME NEW m \in Managers, NEW t \in Task, NEW k \in Nat
  PROVE  Returned(m, t, k).outcome = m.outcome
<1> DEFINE r == Released(m, t, k)
<1>1. r \in Managers
  BY ReleasedShape
<1>3. r.outcome = m.outcome
  BY DEF Released, Managers
<1>2. Returned(m, t, k) =
        [r EXCEPT !.setup[t] = "none", !.cancelled = @ \ {t}, !.stale = @ \ {t},
                  !.drained = IF @ = t THEN None ELSE @,
                  !.due = @ \/ (m.snap[t] # "running" /\ t \notin m.stale)]
  BY DEF Returned
<1> HIDE DEF r
<1> QED BY <1>1, <1>2, <1>3 DEF Managers

LEMMA FailedOutcome ==
  ASSUME NEW m \in Managers, NEW t \in Task, NEW k \in Nat
  PROVE  /\ Failed(m, t, k).outcome = [m.outcome EXCEPT ![t] = "refused"]
         /\ Failed(m, t, k).setup[t] = "none"
         /\ GivesUp(m, t, k).outcome =
              IF Settled(m, t) THEN m.outcome ELSE [m.outcome EXCEPT ![t] = "refused"]
<1> DEFINE f == [m EXCEPT !.snap[t] = "settled", !.outcome[t] = "refused"]
<1>1. f \in Managers /\ f.outcome = [m.outcome EXCEPT ![t] = "refused"]
  BY DEF Managers, Endings
<1>2. Failed(m, t, k) = Returned(f, t, k)
  BY DEF Failed
<1> HIDE DEF f
<1>3. Returned(f, t, k).outcome = f.outcome /\ Returned(m, t, k).outcome = m.outcome
  BY <1>1, ReturnedOutcome
<1> DEFINE n == Failed(m, t, k)
<1>4. n.setup[t] = "none"
  <2>1. SetupOver(m, n, t, k)
    BY FailedShape
  <2> HIDE DEF n
  <2> QED BY <2>1 DEF SetupOver, Managers
<1> QED BY <1>1, <1>2, <1>3, <1>4 DEF GivesUp

LEMMA SettleOutcome ==
  ASSUME NEW m \in Managers, NEW t \in Task
  PROVE  Settle(m, t).outcome = m.outcome
  BY DEF Settle, Managers

LEMMA StartSettleOutcome ==
  ASSUME NEW m \in Managers, NEW t \in Task, NEW outcome
  PROVE  LET n == StartSettle(m, t, outcome)
         IN KeepsEnds(m, n) /\ \A u \in Task \ {t} : n.outcome[u] = m.outcome[u]
<1> DEFINE o == IF m.snap[t] # "queued" /\ outcome # "interrupted" THEN "own" ELSE "interrupted"
           c == [m EXCEPT !.outcome[t] = o]
           n == StartSettle(m, t, outcome)
<1>1. o \in Endings
  BY DEF Endings
<1>2. Collect(m, t, outcome) =
        IF AtOnce(m, t, outcome) THEN Settle(c, t) ELSE [c EXCEPT !.settling = @ \cup {t}]
  BY DEF Collect
<1> HIDE DEF o
<1>3. c \in Managers /\ c.outcome = [m.outcome EXCEPT ![t] = o]
  BY <1>1 DEF Managers
<1> HIDE DEF c
<1>4. Collect(m, t, outcome).outcome = c.outcome
  <2>1. Settle(c, t).outcome = c.outcome
    BY <1>3, SettleOutcome
  <2>2. [c EXCEPT !.settling = @ \cup {t}].outcome = c.outcome
    BY <1>3 DEF Managers
  <2> QED BY <1>2, <2>1, <2>2
<1>5. n = IF Taken(m, t) THEN m ELSE Collect(m, t, outcome)
  BY DEF StartSettle, Taken
<1> HIDE DEF n
<1>6. \A u \in Task \ {t} : n.outcome[u] = m.outcome[u]
  BY <1>3, <1>4, <1>5 DEF Managers
<1>7. Taken(m, t) => n.outcome[t] = m.outcome[t]
  BY <1>5
<1> QED BY <1>6, <1>7 DEF KeepsEnds, n

LEMMA PreparedOutcome ==
  ASSUME NEW m \in Managers, NEW t \in Task, NEW n \in Prepared(m, t), ~Taken(m, t)
  PROVE  KeepsEnds(m, n)
<1>1. CASE n = Reserve(m, t)
  BY <1>1 DEF Reserve, Managers, KeepsEnds
<1> DEFINE l == Launched(m, t)
           r == [l EXCEPT !.child[t] = "up"]
           s == StartSettle(l, t, "failed")
<1>2. l \in Managers /\ l.outcome = m.outcome
  BY DEF Launched, Managers
<1>3. Headless(m, t) = {Returned(r, t, 0), Returned(s, t, 0)}
  BY DEF Headless
<1> HIDE DEF l
<1>4. CASE n = Returned(r, t, 0)
  <2>1. r \in Managers /\ r.outcome = l.outcome
    BY <1>2 DEF Managers
  <2> HIDE DEF r
  <2> QED BY <1>2, <1>4, <2>1, ReturnedOutcome DEF KeepsEnds
<1>5. CASE n = Returned(s, t, 0)
  <2>1. s \in Managers /\ \A u \in Task \ {t} : s.outcome[u] = l.outcome[u]
    BY <1>2, StartSettleShape, StartSettleOutcome
  <2> HIDE DEF s
  <2> QED BY <1>2, <1>5, <2>1, ReturnedOutcome DEF KeepsEnds
<1> QED BY <1>1, <1>3, <1>4, <1>5 DEF Prepared

\* A setup that is under way was not settled, but for an interruption.
LEMMA SetupUntaken ==
  ASSUME mgr \in Managers, Good(mgr), NEW t \in Task, mgr.setup[t] \in Settings
  PROVE  t \notin mgr.settling /\ (Settled(mgr, t) => Interrupted(mgr, t))
  BY DEF Good, TaskInv

LEMMA GaveUpOutcome ==
  ASSUME mgr \in Managers, Good(mgr), NEW t \in Task, mgr.setup[t] \in Settings,
         NEW m \in Managers, m.outcome = mgr.outcome, m.snap = mgr.snap,
         NEW k \in Nat, mgr' = GivesUp(m, t, k)
  PROVE  OutcomesKept
<1>1. t \notin mgr.settling /\ (Settled(m, t) <=> Settled(mgr, t))
  BY SetupUntaken DEF Settled
<1>2. mgr'.outcome =
        IF Settled(m, t) THEN mgr.outcome ELSE [mgr.outcome EXCEPT ![t] = "refused"]
  BY FailedOutcome
<1> QED BY <1>1, <1>2 DEF OutcomesKept, Ending, Managers

LEMMA RefusedOutcome ==
  ASSUME mgr \in Managers, Good(mgr), NEW t \in Task,
         mgr.setup[t] \in {"worktree", "base", "pane"},
         NEW m \in Managers, m.outcome = mgr.outcome, NEW k \in Nat, mgr' = Failed(m, t, k)
  PROVE  OutcomesKept
<1>1. mgr'.outcome = [mgr.outcome EXCEPT ![t] = "refused"] /\ mgr'.setup[t] = "none"
  BY FailedOutcome
<1> QED BY <1>1 DEF OutcomesKept, Refused, Managers

LEMMA KeptOutcomes ==
  ASSUME KeepsEnds(mgr, mgr')
  PROVE  OutcomesKept
  BY DEF KeepsEnds, OutcomesKept, Taken, Ending

\* Git and the gate ask whether the setup was interrupted before they record a failure;
\* the steps after them record it first.
LEMMA SetupOutcomes ==
  ASSUME mgr \in Managers, Good(mgr), NEW t \in Task, Resumes(t) \/ Awaited(t)
  PROVE  OutcomesKept
<1>1. ToSet(mgr.gate) \subseteq Task /\ mgr.gate \in Seq(Task) /\ mgr.waiters \in Seq(Task)
      /\ Len(mgr.waiters) \in Nat
  BY Places, LenProperties DEF Managers
<1> DEFINE g == [mgr EXCEPT !.gate = RemoveFirst(@, t)]
           w == [mgr EXCEPT !.waiters = RemoveFirst(@, t)]
<1>2. CASE GitRead(t)
  <2>1. mgr.setup[t] \in Settings
    BY <1>2 DEF GitRead, Settings
  <2>2. CASE mgr' = GivesUp(mgr, t, 0)
    BY <2>1, <2>2, GaveUpOutcome
  <2>3. CASE ~Interrupted(mgr, t)
    <3>1. ~Taken(mgr, t)
      BY <2>1, <2>3, SetupUntaken DEF Taken
    <3>2. CASE mgr' = Failed(mgr, t, 0)
      <4>1. mgr'.outcome = [mgr.outcome EXCEPT ![t] = "refused"]
        BY <3>2, FailedOutcome
      <4>2. KeepsEnds(mgr, mgr')
        BY <3>1, <4>1 DEF KeepsEnds, Managers
      <4> QED BY <4>2, KeptOutcomes
    <3>3. CASE mgr' = [mgr EXCEPT !.setup[t] = "gate", !.gate = Append(@, t)]
      BY <3>3, KeptOutcomes DEF KeepsEnds, Managers
    <3>4. CASE mgr' \in Prepared(mgr, t)
      BY <3>1, <3>4, PreparedOutcome, KeptOutcomes
    <3> QED BY <1>2, <2>2, <3>2, <3>3, <3>4 DEF GitRead
  <2> QED BY <1>2, <2>2, <2>3 DEF GitRead
<1>3. mgr.setup[t] \in {"gate", "worktree"} /\ Opened(mgr, t) =>
        g \in Managers /\ g.outcome = mgr.outcome /\ g.snap = mgr.snap
  <2>1. mgr.setup[t] \in {"gate", "worktree"} /\ Opened(mgr, t) =>
          RemoveFirst(mgr.gate, t) \in Seq(Task)
    BY Removed DEF Managers, Good, GateInv
  <2> QED BY <2>1 DEF Managers
<1>4. t \in ToSet(mgr.waiters) => w \in Managers /\ w.outcome = mgr.outcome
  <2>1. t \in ToSet(mgr.waiters) => RemoveFirst(mgr.waiters, t) \in Seq(Task)
    BY Removed DEF Managers, Good, SlotInv
  <2> QED BY <2>1 DEF Managers
<1>5. CASE GateTurn(t)
  <2>1. mgr.setup[t] = "gate" /\ Opened(mgr, t) /\ mgr.setup[t] \in Settings
    BY <1>5 DEF GateTurn, Settings
  <2>2. CASE mgr' = GivesUp(g, t, 0)
    <3> HIDE DEF g
    <3> QED BY <1>3, <2>1, <2>2, GaveUpOutcome
  <2>3. CASE mgr' = [mgr EXCEPT !.setup[t] = "worktree"]
    BY <2>3, KeptOutcomes DEF KeepsEnds, Managers
  <2> QED BY <1>5, <2>2, <2>3 DEF GateTurn
<1>6. CASE WorktreeMade(t)
  <2>1. mgr.setup[t] = "worktree" /\ Opened(mgr, t)
    BY <1>6 DEF WorktreeMade, Good, GateInv
  <2>2. mgr' = Failed(g, t, 0) \/ mgr' = [g EXCEPT !.setup[t] = "base"]
    BY <1>6 DEF WorktreeMade
  <2> HIDE DEF g
  <2>3. CASE mgr' = Failed(g, t, 0)
    BY <1>3, <2>1, <2>3, RefusedOutcome
  <2>4. CASE mgr' = [g EXCEPT !.setup[t] = "base"]
    BY <1>3, <2>1, <2>4, KeptOutcomes DEF KeepsEnds, Managers
  <2> QED BY <2>2, <2>3, <2>4
<1>7. CASE BaseResolved(t)
  <2>1. mgr.setup[t] = "base" /\ mgr.setup[t] \in Settings
    BY <1>7 DEF BaseResolved, Settings
  <2>2. CASE mgr' = Failed(mgr, t, 0)
    BY <2>1, <2>2, RefusedOutcome
  <2>3. CASE mgr' = GivesUp(mgr, t, 0)
    BY <2>1, <2>3, GaveUpOutcome
  <2>4. CASE ~Interrupted(mgr, t) /\ mgr' \in Prepared(mgr, t)
    <3>1. ~Taken(mgr, t)
      BY <2>1, <2>4, SetupUntaken DEF Taken
    <3> QED BY <2>4, <3>1, PreparedOutcome, KeptOutcomes
  <2> QED BY <1>7, <2>2, <2>3, <2>4 DEF BaseResolved
<1>8. CASE PaneRefused(t)
  BY <1>8, RefusedOutcome DEF PaneRefused
<1>9. CASE PaneTimesOut(t)
  <2>1. t \in ToSet(mgr.waiters) /\ mgr.setup[t] = "pane" /\ mgr' = Failed(w, t, 0)
    BY <1>9 DEF PaneTimesOut, Good, SlotInv
  <2> HIDE DEF w
  <2> QED BY <1>4, <2>1, RefusedOutcome
<1>10. CASE PaneGranted(t)
  <2>1. mgr.setup[t] = "pane" /\ mgr.setup[t] \in Settings
    BY <1>10 DEF PaneGranted, Settings
  <2>2. PICK k \in Nat : mgr' = GivesUp(mgr, t, k) \/ mgr' = Failed(mgr, t, k) \/ mgr' = Pane(mgr, t)
    BY <1>1, <1>10 DEF PaneGranted, Expiring
  <2>3. CASE mgr' = GivesUp(mgr, t, k)
    BY <2>1, <2>3, GaveUpOutcome
  <2>4. CASE mgr' = Failed(mgr, t, k)
    BY <2>1, <2>4, RefusedOutcome
  <2>5. CASE mgr' = Pane(mgr, t)
    BY <2>5, KeptOutcomes DEF Pane, Launched, KeepsEnds, Managers
  <2> QED BY <2>2, <2>3, <2>4, <2>5
<1>11. CASE LaunchReturns(t)
  <2>1. PICK k \in Nat : mgr' = Returned(mgr, t, k)
    BY <1>1, <1>11 DEF LaunchReturns, Expiring
  <2> QED BY <2>1, ReturnedOutcome, KeptOutcomes DEF KeepsEnds
<1> QED BY <1>2, <1>5, <1>6, <1>7, <1>8, <1>9, <1>10, <1>11 DEF Resumes, Awaited

LEMMA ChildOutcomes ==
  ASSUME mgr \in Managers, NEW t \in Task, ChildStep(t)
  PROVE  OutcomesKept
<1> DEFINE g == [mgr EXCEPT !.child[t] = "gone"]
<1>1. /\ g \in Managers /\ g.outcome = mgr.outcome
      /\ g.snap = mgr.snap /\ g.settling = mgr.settling
  BY DEF Managers
<1>2. ASSUME NEW outcome, mgr' = Ends(mgr, t, outcome) PROVE OutcomesKept
  <2>1. mgr' = StartSettle(g, t, outcome)
    BY <1>2 DEF Ends
  <2> HIDE DEF g
  <2>2. KeepsEnds(g, mgr')
    BY <1>1, <2>1, StartSettleOutcome
  <2>3. KeepsEnds(mgr, mgr')
    BY <1>1, <2>2 DEF KeepsEnds, Taken, Settled
  <2> QED BY <2>3, KeptOutcomes
<1>3. CASE PaneStarts(t)
  <2> DEFINE s == StartSettle(mgr, t, "failed")
  <2>1. CASE mgr' = [mgr EXCEPT !.child[t] = "up"]
    BY <2>1, KeptOutcomes DEF KeepsEnds, Managers
  <2>2. CASE mgr' = [s EXCEPT !.child[t] = "gone"]
    <3>1. s \in Managers /\ KeepsEnds(mgr, s)
      BY StartSettleShape, StartSettleOutcome
    <3> HIDE DEF s
    <3>2. mgr'.outcome = s.outcome
      BY <2>2, <3>1 DEF Managers
    <3> QED BY <3>1, <3>2, KeptOutcomes DEF KeepsEnds
  <2> QED BY <1>2, <1>3, <2>1, <2>2 DEF PaneStarts
<1>4. CASE ManifestReady(t)
  BY <1>4, SettleOutcome, KeptOutcomes DEF ManifestReady, KeepsEnds
<1> QED BY <1>2, <1>3, <1>4 DEF ChildStep, ChildEnds, ChildStops

\* cancel and close settle what is queued with their own outcome, and only that.
LEMMA StopOutcomes ==
  ASSUME mgr \in Managers, Good(mgr), NEW t \in Task,
         mgr' = CancelTask(mgr, t) \/ mgr' = CloseTask(mgr, t)
  PROVE  OutcomesKept
<1> DEFINE c == Consume(mgr, {t})
<1>1. /\ c \in Managers /\ Good(c) /\ c.outcome = mgr.outcome
      /\ c.snap = mgr.snap /\ c.settling = mgr.settling
  <2>1. c \in Managers /\ SameCore(mgr, c) /\ c.due = mgr.due
    BY ConsumeShape
  <2>2. c.outcome = mgr.outcome
    BY DEF Consume, Managers
  <2> HIDE DEF c
  <2> QED BY <2>1, <2>2, CoreKept DEF SameCore, SameSetups
<1> HIDE DEF c
<1>2. ASSUME NEW m \in {mgr, c}, mgr' = StartSettle(Dequeued(m, t), t, "interrupted")
      PROVE  OutcomesKept
  <2> DEFINE d == Dequeued(m, t)
  <2>1. /\ m \in Managers /\ Good(m) /\ m.outcome = mgr.outcome
        /\ m.snap = mgr.snap /\ m.settling = mgr.settling
    BY <1>1, <1>2
  <2>2. d \in Managers /\ d.snap = m.snap /\ d.settling = m.settling
    BY <2>1, DequeuedShape
  <2>3. d.outcome = m.outcome
    BY <2>1 DEF Dequeued, Managers
  <2>4. mgr' = StartSettle(d, t, "interrupted")
    BY <1>2
  <2> HIDE DEF d
  <2>5. KeepsEnds(d, mgr')
    BY <2>2, <2>4, StartSettleOutcome
  <2>6. KeepsEnds(mgr, mgr')
    BY <2>1, <2>2, <2>3, <2>5 DEF KeepsEnds, Taken, Settled
  <2> QED BY <2>6, KeptOutcomes
<1>3. CASE mgr' \in {mgr, c}
  BY <1>1, <1>3, KeptOutcomes DEF KeepsEnds
<1>4. CASE mgr' = Interrupt(c, t)
  <2>1. mgr'.outcome = c.outcome
    BY <1>1, <1>4 DEF Interrupt, Managers
  <2> QED BY <1>1, <2>1, KeptOutcomes DEF KeepsEnds
<1>5. CASE mgr' = CancelTask(mgr, t)
  BY <1>2, <1>3, <1>4, <1>5 DEF CancelTask, c
<1>6. CASE mgr' = CloseTask(mgr, t)
  BY <1>2, <1>3, <1>6 DEF CloseTask, c
<1> QED BY <1>5, <1>6

\* Only the queue settles when a session ends.
LEMMA DisposedOutcome ==
  ASSUME NEW m \in Managers, Good(m)
  PROVE  KeepsEnds(m, Disposed(m)) /\ KeepsEnds(m, Replaced(m))
<1> DEFINE n == Disposed(m)
<1>1. n \in Managers
  BY DisposedStep
<1>2. \A u \in Task : n.outcome[u] = IF u \in ToSet(m.queue) THEN "interrupted" ELSE m.outcome[u]
  BY DEF Disposed, Managers
<1>3. \A u \in Task : Taken(m, u) => u \notin ToSet(m.queue)
  BY DEF Good, QueueInv, TaskInv, Taken, Settled
<1> HIDE DEF n
<1>4. KeepsEnds(m, n)
  BY <1>2, <1>3 DEF KeepsEnds
<1>5. \A T : Consume(n, T).outcome = n.outcome
  BY <1>1 DEF Consume, Managers
<1> QED BY <1>4, <1>5 DEF KeepsEnds, Replaced, n

LEMMA ToolOutcomes ==
  ASSUME mgr \in Managers, Good(mgr), Tool
  PROVE  OutcomesKept
<1>1. CASE mgr'.outcome = mgr.outcome
  BY <1>1 DEF OutcomesKept
<1>2. ASSUME NEW t \in Task, NEW f, mgr' = Spawned(mgr, t, f) PROVE mgr'.outcome = mgr.outcome
  BY <1>2 DEF Spawned, Start, Managers
<1>3. ASSUME NEW T PROVE /\ Consume(mgr, T).outcome = mgr.outcome
                         /\ [Consume(mgr, T) EXCEPT !.waited = {}].outcome = mgr.outcome
                         /\ [Consume(mgr, T) EXCEPT !.due = TRUE].outcome = mgr.outcome
                         /\ [mgr EXCEPT !.due = TRUE].outcome = mgr.outcome
                         /\ [mgr EXCEPT !.waited = T].outcome = mgr.outcome
  BY DEF Consume, Managers
<1>4. CASE WaitReturns \/ WaitAborts
  <2>1. \/ mgr' = [Consume(mgr, Waited) EXCEPT !.waited = {}]
        \/ mgr' = [mgr EXCEPT !.waited = {}]
    BY <1>4 DEF WaitReturns, WaitAborts
  <2>2. CASE mgr' = [Consume(mgr, Waited) EXCEPT !.waited = {}]
    BY <1>1, <2>2 DEF Consume, Managers
  <2>3. CASE mgr' = [mgr EXCEPT !.waited = {}]
    BY <1>1, <2>3 DEF Managers
  <2> QED BY <2>1, <2>2, <2>3
<1>5. CASE \E t \in Task : Spawn(t) \/ \E o \in Task : Reply(o, t)
  BY <1>1, <1>2, <1>5 DEF Spawn, Reply, Calls
<1>6. CASE \E t \in Task : CancelReturns(t) \/ CloseReturns(t) \/ CloseTimer(t)
  BY <1>1, <1>3, <1>6 DEF CancelReturns, CloseReturns, CloseTimer
<1>7. CASE \E T \in SUBSET Task : Wait(T)
  BY <1>1, <1>3, <1>7 DEF Wait
<1>8. CASE \E t \in Task : Cancel(t) \/ Close(t)
  BY <1>8, StopOutcomes DEF Cancel, Close
<1>9. CASE \E t \in Task : CancelTimer(t)
  BY <1>9, StartSettleOutcome, KeptOutcomes DEF CancelTimer
<1> QED BY <1>4, <1>5, <1>6, <1>7, <1>8, <1>9 DEF Tool

LEMMA OutcomeSteps ==
  ASSUME IInv, [Next]_vars
  PROVE  OutcomesKept
<1>1. mgr \in Managers /\ Good(mgr)
  BY ToolFacts
<1>2. CASE Drain
  <2>1. mgr'.outcome = mgr.outcome
    BY <1>1, <1>2 DEF Drain, Drained, Start, Managers
  <2> QED BY <2>1 DEF OutcomesKept
<1>3. CASE Resume \/ ManagerEvent
  BY <1>1, <1>2, <1>3, SetupOutcomes, ChildOutcomes DEF Resume, ManagerEvent
<1>4. CASE \E next \in {"off", "ended"} : Shutdown(next)
  BY <1>1, <1>4, DisposedOutcome, KeptOutcomes DEF Shutdown
<1>5. CASE AgentStart \/ AgentEnd \/ Rebind \/ UNCHANGED vars
  BY <1>5 DEF AgentStart, AgentEnd, Rebind, vars, OutcomesKept
<1> QED BY <1>1, <1>3, <1>4, <1>5, ToolOutcomes DEF Next

\* Every state is well-typed, for any tasks, limits and number of sessions.
THEOREM TypesHold == Spec => []TypeOK
<1>1. IInv => TypeOK
  BY DEF IInv
<1> QED BY <1>1, Inductive, PTL

LEMMA AtMostOne ==
  ASSUME NEW S, NEW e, S \subseteq {e}
  PROVE  Cardinality(S) <= 1
<1>1. IsFiniteSet({e}) /\ Cardinality({e}) = 1
  BY FS_Singleton
<1> QED BY <1>1, FS_Subset

\* SUBAGENT_MAX_RUNNING and SUBAGENT_MAX_QUEUED hold, the worktree gate and the
\* pane's slot admit one task, and who waits for the slot waits for a live setup.
THEOREM BoundsHold == Spec => []SlotsBounded
<1>1. IInv => SlotsBounded
  <2> SUFFICES ASSUME IInv PROVE SlotsBounded
    OBVIOUS
  <2>1. Good(mgr)
    BY DEF IInv, ManagerInv
  <2>2. {t \in Task : mgr.setup[t] = "worktree"} \subseteq {Head(mgr.gate)}
    BY <2>1 DEF Good, GateInv, Opened
  <2>3. {t \in Task : mgr.child[t] = "starting" /\ mgr.setup[t] = "ready"} \subseteq {mgr.slot}
    BY <2>1 DEF Good, SlotInv
  <2> QED BY <2>1, <2>2, <2>3, AtMostOne DEF SlotsBounded, Good, QueueInv, SlotInv
<1> QED BY <1>1, Inductive, PTL

\* The end of no task is lost: it was told or sent, it will be at the end of the
\* turn, a call is open about it, or the wait for it was aborted.
THEOREM ResultsKept == Spec => []NoResultLost
<1>1. IInv => NoResultLost
  <2> SUFFICES ASSUME IInv, session = "on",
                      NEW t \in Task \ void, Settled(mgr, t), ~Delivered(t), t \notin told,
                      call[t] = "none"
               PROVE  t \in aborted
    BY DEF NoResultLost, Unreported
  <2>1. TaskResult(t) /\ result[t] \in Ends4
    BY ToolFacts
  <2> QED BY <2>1 DEF TaskResult, Delivered, Ends4
<1> QED BY <1>1, Inductive, PTL

\* No queued task is parked beside a free slot in the first session.
THEOREM NeverParked == Spec => []NothingParked
<1>1. IInv => NothingParked
  BY DEF IInv
<1> QED BY <1>1, Inductive, PTL

\* A session that is over leaves no running child to itself.
THEOREM NeverOrphaned == Spec => []NothingOrphaned
<1>1. IInv => NothingOrphaned
  BY DEF IInv
<1> QED BY <1>1, Inductive, PTL

\* No two tasks continue one session file at the same time.
THEOREM SingleContinuation == Spec => []OneContinuation
<1>1. IInv => OneContinuation
  BY DEF IInv
<1> QED BY <1>1, Inductive, PTL

\* A result is sent at most once, and never after a tool call reported it.
THEOREM SentOnce == Spec => ReportedOnce
<1> DEFINE A == \A t \in Task : result'[t] \in {"sent", "resent"} /\ result[t] # result'[t]
                  => result'[t] = "sent" /\ t \notin told
<1>1. IInv /\ [Next]_vars => [A]_vars
  BY Steps DEF StepInv, ReportsOnce
<1>2. Spec => [][A]_vars
  BY <1>1, Inductive, PTL DEF Spec
<1> QED BY <1>2 DEF ReportedOnce

\* A task settles once and for all, with the outcome that came first; only the
\* failure of a setup after git and the gate writes over an interruption.
THEOREM SettlesOnce == Spec => SettledIsSticky
<1> DEFINE A == \A t \in Task :
                  /\ Settled(mgr, t) => mgr'.snap[t] = mgr.snap[t] /\ t \notin mgr'.settling
                  /\ Ending(t) => mgr'.outcome[t] = mgr.outcome[t] \/ Refused(t)
<1>1. IInv /\ [Next]_vars => [A]_vars
  BY Steps, OutcomeSteps DEF StepInv, Sticks, OutcomesKept
<1>2. Spec => [][A]_vars
  BY <1>1, Inductive, PTL DEF Spec
<1> QED BY <1>2 DEF SettledIsSticky
==============================================================================
