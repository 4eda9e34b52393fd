----------------------- MODULE TerminalLifecycleProofs -----------------------
(***************************************************************************)
(* For any number of managers, stops and crashes and any combination of    *)
(* faults, in three parts, each on the invariant of the one before, after  *)
(* what the update closures preserve (part 0):                             *)
(*   1. types, parsing and the first settlement (LifecycleInv);            *)
(*   2. the launch gate and the process group (SafetyInv);                 *)
(*   3. natural evidence, strangers and lost terminals (EvidenceInv).      *)
(***************************************************************************)
EXTENDS TerminalLifecycle, TLAPS

(***************************************************************************)
(* Part 0.                                                                 *)
(*                                                                         *)
(* What every update closure of a terminal record preserves, whatever      *)
(* record it is applied to: the record stays well formed (typed and        *)
(* accepted by the store's parser), a persisted identity stays, and a      *)
(* settlement is never undone.  The other parts cite these facts instead   *)
(* of the closures.                                                        *)
(***************************************************************************)
\* What s must keep of r: its identity, and its settlement for good.
Keeps(r, s) ==
  /\ r.identity => s.identity
  /\ IsSettled(r) =>
       /\ s.status = r.status /\ s.exit = r.exit /\ s.completion
       /\ r.delivery = "suppressed" => s.delivery = "suppressed"

Preserves(r, s) == WellFormed(s) /\ Keeps(r, s)

-----------------------------------------------------------------------------
\* A record that does not change is preserved.
LEMMA SamePreserves ==
  ASSUME NEW r, WellFormed(r) PROVE Preserves(r, r)
<1>1. IsSettled(r) => r.completion
  BY DEF WellFormed, Parses, LifecycleParses, IsSettled, SettledStatus
<1>2. QED BY <1>1 DEF Preserves, Keeps

\* "No record" and the record terminal_start creates are well formed.
LEMMA InitialWellFormed == WellFormed(NoRecord) /\ WellFormed(Initial)
<1>1. NoRecord \in TaskRecord /\ Initial \in TaskRecord
  BY DEF NoRecord, Initial, TaskRecord, Status, ActiveStatus, Delivery,
         ExitCode, Anchors, NoToken
<1>2. /\ Initial.status = "starting" /\ Initial.delivery = "none"
      /\ Initial.exit = "unset" /\ Initial.anchors = "none"
      /\ Initial.identity = FALSE /\ Initial.completion = FALSE
      /\ Initial.observed = FALSE /\ Initial.consumed = FALSE
      /\ Initial.token = NoToken
  BY DEF Initial, NoRecord
<1>3. Parses(Initial)
  BY <1>2 DEF Parses, IdentityParses, LifecycleParses, DeliveryParses,
              IsSettled, ActiveStatus, SettledStatus, NoToken
<1>4. NoRecord.status = "absent" /\ Initial.status = "starting"
  BY <1>2 DEF NoRecord
<1>5. QED BY <1>1, <1>3, <1>4 DEF WellFormed, Parses

\* The Boolean fields of a record are Booleans, and an active record has an
\* untouched settlement.
LEMMA RecordFields ==
  ASSUME NEW r, WellFormed(r)
  PROVE  /\ r \in TaskRecord
         /\ r.identity \in BOOLEAN /\ r.completion \in BOOLEAN
         /\ r.observed \in BOOLEAN /\ r.consumed \in BOOLEAN
         /\ r.identity => r.status # "absent"
         /\ IsSettled(r) => r.completion
         /\ ~IsSettled(r) =>
              /\ r.token = NoToken /\ r.delivery = "none" /\ r.exit = "unset"
              /\ ~r.observed /\ ~r.consumed /\ ~r.completion
              /\ r.anchors # "none" => r.identity
<1>1. /\ r \in TaskRecord
      /\ r.identity \in BOOLEAN /\ r.completion \in BOOLEAN
      /\ r.observed \in BOOLEAN /\ r.consumed \in BOOLEAN
      /\ r.status \in Status
  BY DEF WellFormed, TaskRecord
<1>2. CASE r.status = "absent"
  <2>1. r = NoRecord BY <1>2 DEF WellFormed
  <2>2. ~NoRecord.identity /\ NoRecord.token = NoToken /\ NoRecord.delivery = "none"
        /\ NoRecord.exit = "unset" /\ ~NoRecord.observed /\ ~NoRecord.consumed
        /\ ~NoRecord.completion /\ NoRecord.status = "absent"
        /\ NoRecord.anchors = "none"
    BY DEF NoRecord
  <2>3. QED BY <1>1, <2>1, <2>2 DEF IsSettled, SettledStatus
<1>3. CASE r.status \in ActiveStatus
  <2>1. IdentityParses(r) /\ LifecycleParses(r) /\ DeliveryParses(r)
    BY <1>3 DEF WellFormed, Parses, ActiveStatus
  <2>2. r.delivery = "none" /\ r.exit = "unset" /\ ~r.observed /\ ~r.consumed /\ ~r.completion
    BY <1>3, <2>1 DEF LifecycleParses
  <2>3. r.token = NoToken BY <2>1, <2>2 DEF DeliveryParses
  <2>4. r.anchors # "none" => r.identity BY <2>1 DEF IdentityParses
  <2>5. r.status # "absent" /\ ~IsSettled(r)
    BY <1>3 DEF ActiveStatus, IsSettled, SettledStatus
  <2>6. QED BY <1>1, <2>2, <2>3, <2>4, <2>5
<1>4. CASE IsSettled(r)
  <2>1. r.status # "absent" BY <1>4 DEF IsSettled, SettledStatus
  <2>2. r.completion
    BY <1>4, <2>1 DEF WellFormed, Parses, LifecycleParses
  <2>3. QED BY <1>1, <1>4, <2>1, <2>2
<1>5. QED BY <1>1, <1>2, <1>3, <1>4 DEF Status, IsSettled

\* terminal_start persists the spawn identity of a starting record.
LEMMA RunsPreserves ==
  ASSUME NEW r, WellFormed(r), r.status = "starting"
  PROVE  Preserves(r, ToRunning(r))
<1> DEFINE s == ToRunning(r)
<1>1. s = [r EXCEPT !.status = "running", !.identity = TRUE]
  BY DEF ToRunning
<1> HIDE DEF s
<1>2. r \in TaskRecord BY RecordFields
<1>3. /\ s.status = "running" /\ s.delivery = r.delivery /\ s.exit = r.exit
      /\ s.anchors = r.anchors /\ s.identity = TRUE /\ s.completion = r.completion
      /\ s.observed = r.observed /\ s.consumed = r.consumed /\ s.token = r.token
  BY <1>1, <1>2 DEF TaskRecord
<1>4. s \in TaskRecord
  BY <1>1, <1>2 DEF TaskRecord, Status, ActiveStatus, SettledStatus, Delivery,
                    ExitCode, Anchors, NoToken
<1>5. Parses(s)
  <2>1. r.status # "absent" => IdentityParses(r) /\ LifecycleParses(r) /\ DeliveryParses(r)
    BY DEF WellFormed, Parses
  <2>2. IdentityParses(s)
    BY <1>3, <2>1, RecordFields DEF IdentityParses, IsSettled, SettledStatus, ActiveStatus
  <2>3. LifecycleParses(s)
    BY <1>3, <2>1, RecordFields DEF LifecycleParses, IsSettled, SettledStatus, ActiveStatus
  <2>4. DeliveryParses(s)
    BY <1>3, <2>1, RecordFields
       DEF DeliveryParses, LifecycleParses, IsSettled, SettledStatus, NoToken
  <2>5. QED BY <2>2, <2>3, <2>4 DEF Parses
<1>6. s.status # "absent"
  BY <1>3, RecordFields DEF IsSettled, SettledStatus
<1>7. Keeps(r, s)
  BY <1>3, RecordFields DEF Keeps, IsSettled, SettledStatus
<1>8. WellFormed(s) BY <1>4, <1>5, <1>6 DEF WellFormed
<1>9. Preserves(r, s) BY <1>7, <1>8 DEF Preserves
<1>10. QED BY <1>9 DEF s

\* The poll persists anchors of a running record.
LEMMA RunningAnchorsPreserves ==
  ASSUME NEW r, WellFormed(r), NEW v \in Anchors, r.status = "running"
  PROVE  Preserves(r, RunningAnchors(r, v))
<1> DEFINE s == RunningAnchors(r, v)
<1>1. s = [r EXCEPT !.anchors = v]
  BY DEF RunningAnchors
<1> HIDE DEF s
<1>2. r \in TaskRecord BY RecordFields
<1>3. /\ s.status = r.status /\ s.delivery = r.delivery /\ s.exit = r.exit
      /\ s.anchors = v /\ s.identity = r.identity /\ s.completion = r.completion
      /\ s.observed = r.observed /\ s.consumed = r.consumed /\ s.token = r.token
  BY <1>1, <1>2 DEF TaskRecord
<1>4. s \in TaskRecord
  BY <1>1, <1>2 DEF TaskRecord, Status, ActiveStatus, SettledStatus, Delivery,
                    ExitCode, Anchors, NoToken
<1>5. Parses(s)
  <2>1. r.status # "absent" => IdentityParses(r) /\ LifecycleParses(r) /\ DeliveryParses(r)
    BY DEF WellFormed, Parses
  <2>2. IdentityParses(s)
    BY <1>3, <2>1, RecordFields DEF IdentityParses, IsSettled, SettledStatus, ActiveStatus
  <2>3. LifecycleParses(s)
    BY <1>3, <2>1, RecordFields DEF LifecycleParses, IsSettled, SettledStatus, ActiveStatus
  <2>4. DeliveryParses(s)
    BY <1>3, <2>1, RecordFields
       DEF DeliveryParses, LifecycleParses, IsSettled, SettledStatus, NoToken
  <2>5. QED BY <2>2, <2>3, <2>4 DEF Parses
<1>6. s.status # "absent"
  BY <1>3, RecordFields DEF IsSettled, SettledStatus
<1>7. Keeps(r, s)
  BY <1>3, RecordFields DEF Keeps, IsSettled, SettledStatus
<1>8. WellFormed(s) BY <1>4, <1>5, <1>6 DEF WellFormed
<1>9. Preserves(r, s) BY <1>7, <1>8 DEF Preserves
<1>10. QED BY <1>9 DEF s

\* Recovery persists the anchors a stopping record lacks.
LEMMA StoppingAnchorsPreserves ==
  ASSUME NEW r, WellFormed(r), NEW v \in Anchors,
         r.status = "stopping", r.anchors = "none"
  PROVE  Preserves(r, StoppingAnchors(r, v))
<1> DEFINE s == StoppingAnchors(r, v)
<1>1. s = [r EXCEPT !.anchors = v]
  BY DEF StoppingAnchors
<1> HIDE DEF s
<1>2. r \in TaskRecord BY RecordFields
<1>3. /\ s.status = r.status /\ s.delivery = r.delivery /\ s.exit = r.exit
      /\ s.anchors = v /\ s.identity = r.identity /\ s.completion = r.completion
      /\ s.observed = r.observed /\ s.consumed = r.consumed /\ s.token = r.token
  BY <1>1, <1>2 DEF TaskRecord
<1>4. s \in TaskRecord
  BY <1>1, <1>2 DEF TaskRecord, Status, ActiveStatus, SettledStatus, Delivery,
                    ExitCode, Anchors, NoToken
<1>5. Parses(s)
  <2>1. r.status # "absent" => IdentityParses(r) /\ LifecycleParses(r) /\ DeliveryParses(r)
    BY DEF WellFormed, Parses
  <2>2. IdentityParses(s)
    BY <1>3, <2>1, RecordFields DEF IdentityParses, IsSettled, SettledStatus, ActiveStatus
  <2>3. LifecycleParses(s)
    BY <1>3, <2>1, RecordFields DEF LifecycleParses, IsSettled, SettledStatus, ActiveStatus
  <2>4. DeliveryParses(s)
    BY <1>3, <2>1, RecordFields
       DEF DeliveryParses, LifecycleParses, IsSettled, SettledStatus, NoToken
  <2>5. QED BY <2>2, <2>3, <2>4 DEF Parses
<1>6. s.status # "absent"
  BY <1>3, RecordFields DEF IsSettled, SettledStatus
<1>7. Keeps(r, s)
  BY <1>3, RecordFields DEF Keeps, IsSettled, SettledStatus
<1>8. WellFormed(s) BY <1>4, <1>5, <1>6 DEF WellFormed
<1>9. Preserves(r, s) BY <1>7, <1>8 DEF Preserves
<1>10. QED BY <1>9 DEF s

\* terminal_stop persists anchors of an active record that has an identity.
LEMMA ActiveAnchorsPreserves ==
  ASSUME NEW r, WellFormed(r), NEW v \in Anchors,
         ~IsSettled(r), r.identity
  PROVE  Preserves(r, ActiveAnchors(r, v))
<1> DEFINE s == ActiveAnchors(r, v)
<1>1. s = [r EXCEPT !.anchors = v]
  BY DEF ActiveAnchors
<1> HIDE DEF s
<1>2. r \in TaskRecord BY RecordFields
<1>3. /\ s.status = r.status /\ s.delivery = r.delivery /\ s.exit = r.exit
      /\ s.anchors = v /\ s.identity = r.identity /\ s.completion = r.completion
      /\ s.observed = r.observed /\ s.consumed = r.consumed /\ s.token = r.token
  BY <1>1, <1>2 DEF TaskRecord
<1>4. s \in TaskRecord
  BY <1>1, <1>2 DEF TaskRecord, Status, ActiveStatus, SettledStatus, Delivery,
                    ExitCode, Anchors, NoToken
<1>5. Parses(s)
  <2>1. r.status # "absent" => IdentityParses(r) /\ LifecycleParses(r) /\ DeliveryParses(r)
    BY DEF WellFormed, Parses
  <2>2. IdentityParses(s)
    BY <1>3, <2>1, RecordFields DEF IdentityParses, IsSettled, SettledStatus, ActiveStatus
  <2>3. LifecycleParses(s)
    BY <1>3, <2>1, RecordFields DEF LifecycleParses, IsSettled, SettledStatus, ActiveStatus
  <2>4. DeliveryParses(s)
    BY <1>3, <2>1, RecordFields
       DEF DeliveryParses, LifecycleParses, IsSettled, SettledStatus, NoToken
  <2>5. QED BY <2>2, <2>3, <2>4 DEF Parses
<1>6. s.status # "absent"
  BY <1>3, RecordFields DEF IsSettled, SettledStatus
<1>7. Keeps(r, s)
  BY <1>3, RecordFields DEF Keeps, IsSettled, SettledStatus
<1>8. WellFormed(s) BY <1>4, <1>5, <1>6 DEF WellFormed
<1>9. Preserves(r, s) BY <1>7, <1>8 DEF Preserves
<1>10. QED BY <1>9 DEF s

\* terminal_stop persists its intent in an active record that has an identity.
LEMMA ToStoppingPreserves ==
  ASSUME NEW r, WellFormed(r), NEW v \in Anchors,
         ~IsSettled(r), r.identity
  PROVE  Preserves(r, ToStopping(r, v))
<1> DEFINE s == ToStopping(r, v)
<1>1. s = [r EXCEPT !.status = "stopping", !.anchors = (IF v # "none" THEN v ELSE r.anchors)]
  BY DEF ToStopping
<1> HIDE DEF s
<1>2. r \in TaskRecord BY RecordFields
<1>3. /\ s.status = "stopping" /\ s.delivery = r.delivery /\ s.exit = r.exit
      /\ s.anchors = (IF v # "none" THEN v ELSE r.anchors) /\ s.identity = r.identity
      /\ s.completion = r.completion
      /\ s.observed = r.observed /\ s.consumed = r.consumed /\ s.token = r.token
  BY <1>1, <1>2 DEF TaskRecord
<1>4. s \in TaskRecord
  BY <1>1, <1>2 DEF TaskRecord, Status, ActiveStatus, SettledStatus, Delivery,
                    ExitCode, Anchors, NoToken
<1>5. Parses(s)
  <2>1. r.status # "absent" => IdentityParses(r) /\ LifecycleParses(r) /\ DeliveryParses(r)
    BY DEF WellFormed, Parses
  <2>2. IdentityParses(s)
    BY <1>3, <2>1, RecordFields DEF IdentityParses, IsSettled, SettledStatus, ActiveStatus
  <2>3. LifecycleParses(s)
    BY <1>3, <2>1, RecordFields DEF LifecycleParses, IsSettled, SettledStatus, ActiveStatus
  <2>4. DeliveryParses(s)
    BY <1>3, <2>1, RecordFields
       DEF DeliveryParses, LifecycleParses, IsSettled, SettledStatus, NoToken
  <2>5. QED BY <2>2, <2>3, <2>4 DEF Parses
<1>6. s.status # "absent"
  BY <1>3, RecordFields DEF IsSettled, SettledStatus
<1>7. Keeps(r, s)
  BY <1>3, RecordFields DEF Keeps, IsSettled, SettledStatus
<1>8. WellFormed(s) BY <1>4, <1>5, <1>6 DEF WellFormed
<1>9. Preserves(r, s) BY <1>7, <1>8 DEF Preserves
<1>10. QED BY <1>9 DEF s

\* A stop whose TERM could not be sent is undone.
LEMMA RestoreRunningPreserves ==
  ASSUME NEW r, WellFormed(r), r.status = "stopping"
  PROVE  Preserves(r, RestoreRunning(r))
<1> DEFINE s == RestoreRunning(r)
<1>1. s = [r EXCEPT !.status = "running"]
  BY DEF RestoreRunning
<1> HIDE DEF s
<1>2. r \in TaskRecord BY RecordFields
<1>3. /\ s.status = "running" /\ s.delivery = r.delivery /\ s.exit = r.exit
      /\ s.anchors = r.anchors /\ s.identity = r.identity /\ s.completion = r.completion
      /\ s.observed = r.observed /\ s.consumed = r.consumed /\ s.token = r.token
  BY <1>1, <1>2 DEF TaskRecord
<1>4. s \in TaskRecord
  BY <1>1, <1>2 DEF TaskRecord, Status, ActiveStatus, SettledStatus, Delivery,
                    ExitCode, Anchors, NoToken
<1>5. Parses(s)
  <2>1. r.status # "absent" => IdentityParses(r) /\ LifecycleParses(r) /\ DeliveryParses(r)
    BY DEF WellFormed, Parses
  <2>2. IdentityParses(s)
    BY <1>3, <2>1, RecordFields DEF IdentityParses, IsSettled, SettledStatus, ActiveStatus
  <2>3. LifecycleParses(s)
    BY <1>3, <2>1, RecordFields DEF LifecycleParses, IsSettled, SettledStatus, ActiveStatus
  <2>4. DeliveryParses(s)
    BY <1>3, <2>1, RecordFields
       DEF DeliveryParses, LifecycleParses, IsSettled, SettledStatus, NoToken
  <2>5. QED BY <2>2, <2>3, <2>4 DEF Parses
<1>6. s.status # "absent"
  BY <1>3, RecordFields DEF IsSettled, SettledStatus
<1>7. Keeps(r, s)
  BY <1>3, RecordFields DEF Keeps, IsSettled, SettledStatus
<1>8. WellFormed(s) BY <1>4, <1>5, <1>6 DEF WellFormed
<1>9. Preserves(r, s) BY <1>7, <1>8 DEF Preserves
<1>10. QED BY <1>9 DEF s

\* A natural settlement of an active record, with the code the command wrote.
LEMMA NaturalPreserves ==
  ASSUME NEW r, WellFormed(r), NEW exit,
         ~IsSettled(r), exit \in {"zero", "nonzero"}
  PROVE  Preserves(r, SettleNatural(r, exit))
<1> DEFINE s == SettleNatural(r, exit)
<1>1. s = [r EXCEPT !.status = (IF exit = "zero" THEN "completed" ELSE "failed"),
                    !.exit = exit, !.completion = TRUE, !.observed = FALSE,
                    !.consumed = FALSE, !.delivery = "pending"]
  BY DEF SettleNatural, Settle
<1> HIDE DEF s
<1>2. r \in TaskRecord BY RecordFields
<1>3. /\ s.status = (IF exit = "zero" THEN "completed" ELSE "failed")
      /\ s.delivery = "pending" /\ s.exit = exit
      /\ s.anchors = r.anchors /\ s.identity = r.identity /\ s.completion = TRUE
      /\ s.observed = FALSE /\ s.consumed = FALSE /\ s.token = r.token
  BY <1>1, <1>2 DEF TaskRecord
<1>4. s \in TaskRecord
  BY <1>1, <1>2 DEF TaskRecord, Status, ActiveStatus, SettledStatus, Delivery,
                    ExitCode, Anchors, NoToken
<1>5. Parses(s)
  <2>1. r.status # "absent" => IdentityParses(r) /\ LifecycleParses(r) /\ DeliveryParses(r)
    BY DEF WellFormed, Parses
  <2>2. IdentityParses(s)
    BY <1>3, <2>1, RecordFields DEF IdentityParses, IsSettled, SettledStatus, ActiveStatus
  <2>3. LifecycleParses(s)
    BY <1>3, <2>1, RecordFields DEF LifecycleParses, IsSettled, SettledStatus, ActiveStatus
  <2>4. DeliveryParses(s)
    BY <1>3, <2>1, RecordFields
       DEF DeliveryParses, LifecycleParses, IsSettled, SettledStatus, NoToken
  <2>5. QED BY <2>2, <2>3, <2>4 DEF Parses
<1>6. s.status # "absent"
  BY <1>3, RecordFields DEF IsSettled, SettledStatus
<1>7. Keeps(r, s)
  BY <1>3, RecordFields DEF Keeps, IsSettled, SettledStatus
<1>8. WellFormed(s) BY <1>4, <1>5, <1>6 DEF WellFormed
<1>9. Preserves(r, s) BY <1>7, <1>8 DEF Preserves
<1>10. QED BY <1>9 DEF s

\* A lost settlement of an active record.
LEMMA LostPreserves ==
  ASSUME NEW r, WellFormed(r), NEW exit \in ExitCode, NEW b \in BOOLEAN,
         ~IsSettled(r), exit # "unset"
  PROVE  Preserves(r, SettleLost(r, exit, b))
<1> DEFINE s == SettleLost(r, exit, b)
<1>1. s = [r EXCEPT !.status = "lost", !.exit = exit, !.completion = TRUE, !.observed = b,
                    !.consumed = b, !.delivery = (IF b THEN "suppressed" ELSE "pending")]
  BY DEF SettleLost, Settle
<1> HIDE DEF s
<1>2. r \in TaskRecord BY RecordFields
<1>3. /\ s.status = "lost" /\ s.delivery = (IF b THEN "suppressed" ELSE "pending")
      /\ s.exit = exit
      /\ s.anchors = r.anchors /\ s.identity = r.identity /\ s.completion = TRUE
      /\ s.observed = b /\ s.consumed = b /\ s.token = r.token
  BY <1>1, <1>2 DEF TaskRecord
<1>4. s \in TaskRecord
  BY <1>1, <1>2 DEF TaskRecord, Status, ActiveStatus, SettledStatus, Delivery,
                    ExitCode, Anchors, NoToken
<1>5. Parses(s)
  <2>1. r.status # "absent" => IdentityParses(r) /\ LifecycleParses(r) /\ DeliveryParses(r)
    BY DEF WellFormed, Parses
  <2>2. IdentityParses(s)
    BY <1>3, <2>1, RecordFields DEF IdentityParses, IsSettled, SettledStatus, ActiveStatus
  <2>3. LifecycleParses(s)
    BY <1>3, <2>1, RecordFields DEF LifecycleParses, IsSettled, SettledStatus, ActiveStatus
  <2>4. DeliveryParses(s)
    BY <1>3, <2>1, RecordFields
       DEF DeliveryParses, LifecycleParses, IsSettled, SettledStatus, NoToken
  <2>5. QED BY <2>2, <2>3, <2>4 DEF Parses
<1>6. s.status # "absent"
  BY <1>3, RecordFields DEF IsSettled, SettledStatus
<1>7. Keeps(r, s)
  BY <1>3, RecordFields DEF Keeps, IsSettled, SettledStatus
<1>8. WellFormed(s) BY <1>4, <1>5, <1>6 DEF WellFormed
<1>9. Preserves(r, s) BY <1>7, <1>8 DEF Preserves
<1>10. QED BY <1>9 DEF s

\* A stop settles an active record.
LEMMA CancelPreserves ==
  ASSUME NEW r, WellFormed(r), ~IsSettled(r)
  PROVE  Preserves(r, SettleCancelled(r))
<1> DEFINE s == SettleCancelled(r)
<1>1. s = [r EXCEPT !.status = "cancelled", !.exit = "null", !.completion = TRUE,
                    !.observed = TRUE, !.consumed = TRUE, !.delivery = "suppressed"]
  BY DEF SettleCancelled
<1> HIDE DEF s
<1>2. r \in TaskRecord BY RecordFields
<1>3. /\ s.status = "cancelled" /\ s.delivery = "suppressed" /\ s.exit = "null"
      /\ s.anchors = r.anchors /\ s.identity = r.identity /\ s.completion = TRUE
      /\ s.observed = TRUE /\ s.consumed = TRUE /\ s.token = r.token
  BY <1>1, <1>2 DEF TaskRecord
<1>4. s \in TaskRecord
  BY <1>1, <1>2 DEF TaskRecord, Status, ActiveStatus, SettledStatus, Delivery,
                    ExitCode, Anchors, NoToken
<1>5. Parses(s)
  <2>1. r.status # "absent" => IdentityParses(r) /\ LifecycleParses(r) /\ DeliveryParses(r)
    BY DEF WellFormed, Parses
  <2>2. IdentityParses(s)
    BY <1>3, <2>1, RecordFields DEF IdentityParses, IsSettled, SettledStatus, ActiveStatus
  <2>3. LifecycleParses(s)
    BY <1>3, <2>1, RecordFields DEF LifecycleParses, IsSettled, SettledStatus, ActiveStatus
  <2>4. DeliveryParses(s)
    BY <1>3, <2>1, RecordFields
       DEF DeliveryParses, LifecycleParses, IsSettled, SettledStatus, NoToken
  <2>5. QED BY <2>2, <2>3, <2>4 DEF Parses
<1>6. s.status # "absent"
  BY <1>3, RecordFields DEF IsSettled, SettledStatus
<1>7. Keeps(r, s)
  BY <1>3, RecordFields DEF Keeps, IsSettled, SettledStatus
<1>8. WellFormed(s) BY <1>4, <1>5, <1>6 DEF WellFormed
<1>9. Preserves(r, s) BY <1>7, <1>8 DEF Preserves
<1>10. QED BY <1>9 DEF s

\* A failed launch settles an active record.
LEMMA FailedLaunchPreserves ==
  ASSUME NEW r, WellFormed(r), ~IsSettled(r)
  PROVE  Preserves(r, SettleFailedLaunch(r))
<1> DEFINE s == SettleFailedLaunch(r)
<1>1. s = [r EXCEPT !.status = "failed", !.exit = "null", !.completion = TRUE,
                    !.observed = TRUE, !.consumed = TRUE, !.delivery = "suppressed"]
  BY DEF SettleFailedLaunch
<1> HIDE DEF s
<1>2. r \in TaskRecord BY RecordFields
<1>3. /\ s.status = "failed" /\ s.delivery = "suppressed" /\ s.exit = "null"
      /\ s.anchors = r.anchors /\ s.identity = r.identity /\ s.completion = TRUE
      /\ s.observed = TRUE /\ s.consumed = TRUE /\ s.token = r.token
  BY <1>1, <1>2 DEF TaskRecord
<1>4. s \in TaskRecord
  BY <1>1, <1>2 DEF TaskRecord, Status, ActiveStatus, SettledStatus, Delivery,
                    ExitCode, Anchors, NoToken
<1>5. Parses(s)
  <2>1. r.status # "absent" => IdentityParses(r) /\ LifecycleParses(r) /\ DeliveryParses(r)
    BY DEF WellFormed, Parses
  <2>2. IdentityParses(s)
    BY <1>3, <2>1, RecordFields DEF IdentityParses, IsSettled, SettledStatus, ActiveStatus
  <2>3. LifecycleParses(s)
    BY <1>3, <2>1, RecordFields DEF LifecycleParses, IsSettled, SettledStatus, ActiveStatus
  <2>4. DeliveryParses(s)
    BY <1>3, <2>1, RecordFields
       DEF DeliveryParses, LifecycleParses, IsSettled, SettledStatus, NoToken
  <2>5. QED BY <2>2, <2>3, <2>4 DEF Parses
<1>6. s.status # "absent"
  BY <1>3, RecordFields DEF IsSettled, SettledStatus
<1>7. Keeps(r, s)
  BY <1>3, RecordFields DEF Keeps, IsSettled, SettledStatus
<1>8. WellFormed(s) BY <1>4, <1>5, <1>6 DEF WellFormed
<1>9. Preserves(r, s) BY <1>7, <1>8 DEF Preserves
<1>10. QED BY <1>9 DEF s

\* A result the agent reads observes a settled record.
LEMMA ObserveSettledPreserves ==
  ASSUME NEW r, WellFormed(r), NEW b \in BOOLEAN,
         IsSettled(r), Observe(r, b) # r
  PROVE  Preserves(r, Observe(r, b))
<1> DEFINE s == Observe(r, b)
<1>1. s = [r EXCEPT !.observed = TRUE, !.consumed = (b \/ r.consumed),
                    !.delivery = (IF r.delivery \in {"pending", "claimed"} THEN "suppressed" ELSE r.delivery),
                    !.token = NoToken]
  BY DEF Observe
<1> HIDE DEF s
<1>2. r \in TaskRecord BY RecordFields
<1>3. /\ s.status = r.status
      /\ s.delivery = (IF r.delivery \in {"pending", "claimed"} THEN "suppressed" ELSE r.delivery)
      /\ s.exit = r.exit
      /\ s.anchors = r.anchors /\ s.identity = r.identity /\ s.completion = r.completion
      /\ s.observed = TRUE /\ s.consumed = (b \/ r.consumed) /\ s.token = NoToken
  BY <1>1, <1>2 DEF TaskRecord
<1>4. s \in TaskRecord
  BY <1>1, <1>2 DEF TaskRecord, Status, ActiveStatus, SettledStatus, Delivery,
                    ExitCode, Anchors, NoToken
<1>5. Parses(s)
  <2>1. r.status # "absent" => IdentityParses(r) /\ LifecycleParses(r) /\ DeliveryParses(r)
    BY DEF WellFormed, Parses
  <2>2. IdentityParses(s)
    BY <1>3, <2>1, RecordFields DEF IdentityParses, IsSettled, SettledStatus, ActiveStatus
  <2>3. LifecycleParses(s)
    BY <1>3, <2>1, RecordFields DEF LifecycleParses, IsSettled, SettledStatus, ActiveStatus
  <2>4. DeliveryParses(s)
    BY <1>3, <2>1, RecordFields
       DEF DeliveryParses, LifecycleParses, IsSettled, SettledStatus, NoToken
  <2>5. QED BY <2>2, <2>3, <2>4 DEF Parses
<1>6. s.status # "absent"
  BY <1>3, RecordFields DEF IsSettled, SettledStatus
<1>7. Keeps(r, s)
  BY <1>3, RecordFields DEF Keeps, IsSettled, SettledStatus
<1>8. WellFormed(s) BY <1>4, <1>5, <1>6 DEF WellFormed
<1>9. Preserves(r, s) BY <1>7, <1>8 DEF Preserves
<1>10. QED BY <1>9 DEF s

-----------------------------------------------------------------------------
\* Every closure, applied to whatever record the lock reveals.
LEMMA ClosuresPreserve ==
  ASSUME NEW r, WellFormed(r)
  PROVE  /\ Preserves(r, ToRunning(r))
         /\ Preserves(r, RestoreRunning(r))
         /\ Preserves(r, SettleCancelled(r))
         /\ Preserves(r, SettleFailedLaunch(r))
         /\ \A v \in Anchors :
              /\ Preserves(r, RunningAnchors(r, v))
              /\ Preserves(r, StoppingAnchors(r, v))
              /\ r.identity => /\ Preserves(r, ActiveAnchors(r, v))
                              /\ Preserves(r, ToStopping(r, v))
         /\ \A exit \in {"zero", "nonzero"} : Preserves(r, SettleNatural(r, exit))
         /\ \A exit \in ExitCode \ {"unset"}, b \in BOOLEAN :
              Preserves(r, SettleLost(r, exit, b))
         /\ \A b \in BOOLEAN : Preserves(r, Observe(r, b))
<1>1. Preserves(r, ToRunning(r))
  BY RunsPreserves, SamePreserves DEF ToRunning
<1>2. Preserves(r, RestoreRunning(r))
  BY RestoreRunningPreserves, SamePreserves DEF RestoreRunning
<1>3. Preserves(r, SettleCancelled(r))
  BY CancelPreserves, SamePreserves DEF SettleCancelled
<1>4. Preserves(r, SettleFailedLaunch(r))
  BY FailedLaunchPreserves, SamePreserves DEF SettleFailedLaunch
<1>5. ASSUME NEW v \in Anchors
      PROVE  /\ Preserves(r, RunningAnchors(r, v))
             /\ Preserves(r, StoppingAnchors(r, v))
             /\ r.identity => /\ Preserves(r, ActiveAnchors(r, v))
                             /\ Preserves(r, ToStopping(r, v))
  <2>1. Preserves(r, RunningAnchors(r, v))
    BY RunningAnchorsPreserves, SamePreserves DEF RunningAnchors
  <2>2. Preserves(r, StoppingAnchors(r, v))
    BY StoppingAnchorsPreserves, SamePreserves DEF StoppingAnchors
  <2>3. r.identity => Preserves(r, ActiveAnchors(r, v))
    BY ActiveAnchorsPreserves, SamePreserves DEF ActiveAnchors
  <2>4. r.identity => Preserves(r, ToStopping(r, v))
    BY ToStoppingPreserves, SamePreserves DEF ToStopping
  <2>5. QED BY <2>1, <2>2, <2>3, <2>4
<1>6. ASSUME NEW exit \in {"zero", "nonzero"} PROVE Preserves(r, SettleNatural(r, exit))
  BY NaturalPreserves, SamePreserves DEF SettleNatural, Settle
<1>7. ASSUME NEW exit \in ExitCode \ {"unset"}, NEW b \in BOOLEAN
      PROVE  Preserves(r, SettleLost(r, exit, b))
  <2>1. CASE IsSettled(r)
    BY <2>1, SamePreserves DEF SettleLost, Settle
  <2>2. CASE ~IsSettled(r)
    BY <2>2, LostPreserves
  <2>3. QED BY <2>1, <2>2
<1>8. ASSUME NEW b \in BOOLEAN PROVE Preserves(r, Observe(r, b))
  <2>1. CASE Observe(r, b) = r BY <2>1, SamePreserves
  <2>2. CASE Observe(r, b) # r
    BY <2>2, ObserveSettledPreserves DEF Observe
  <2>3. QED BY <2>1, <2>2
<1>9. QED BY <1>1, <1>2, <1>3, <1>4, <1>5, <1>6, <1>7, <1>8

(***************************************************************************)
(* Part 1.                                                                 *)
(*                                                                         *)
(* LifecycleInv is inductive, hence every record a manager writes is one   *)
(* the store's parser accepts (RecordParses), and a settlement is final    *)
(* (SettledIsFinal), for any number of managers, stops and crashes and for *)
(* any combination of faults.                                              *)
(*                                                                         *)
(* Each action is shown to be a fitting step (StepFits): it types the      *)
(* variables it writes, puts a record that preserves the old one, keeps    *)
(* the retained snapshots no better informed than the record, and leaves   *)
(* the continuation it runs with locals that fit its program counter.      *)
(***************************************************************************)

SeenFollows ==
  \/ seen' = seen
  \/ \E m \in Manager, r \in {rec', NoRecord} : seen' = [seen EXCEPT ![m] = r]

SlotFollows ==
  \/ slot' = slot
  \/ \E w \in Worker, s \in Slot : SlotFits(s, rec') /\ Enter(w, s)

OthersTyped ==
  /\ tree' \in Tree
  /\ launched' \in BOOLEAN
  /\ exitFile' \in {"unset", "zero", "nonzero"}
  /\ armed' \in [Manager -> BOOLEAN]
  /\ anchor' \in [Manager -> Anchors]
  /\ indexed' \in [Manager -> BOOLEAN]
  /\ detached' \in [Manager -> BOOLEAN]
  /\ start' \in StartPc
  /\ child' \in BOOLEAN
  /\ stops' \in 0..MaxStops
  /\ replaced' \in 0..MaxReplaced

StepFits ==
  OthersTyped /\ Preserves(rec, rec') /\ SeenFollows /\ SlotFollows

-----------------------------------------------------------------------------
\* A retained snapshot that follows the record knows an identity only if the
\* record has one.
LEMMA SeenKept ==
  ASSUME LifecycleInv, Preserves(rec, rec'), SeenFollows
  PROVE  /\ seen' \in [Manager -> TaskRecord]
         /\ \A m \in Manager : seen'[m].identity => rec'.identity
<1>1. seen \in [Manager -> TaskRecord] BY DEF LifecycleInv, TypeOK
<1>2. rec' \in TaskRecord /\ NoRecord \in TaskRecord /\ NoRecord.identity = FALSE
  BY InitialWellFormed DEF Preserves, WellFormed, NoRecord
<1>3. rec.identity => rec'.identity BY DEF Preserves, Keeps
<1>4. \A m \in Manager : seen[m].identity => rec.identity BY DEF LifecycleInv
<1>5. CASE seen' = seen BY <1>1, <1>3, <1>4, <1>5
<1>6. ASSUME NEW m \in Manager, NEW r \in {rec', NoRecord},
             seen' = [seen EXCEPT ![m] = r]
      PROVE  /\ seen' \in [Manager -> TaskRecord]
             /\ \A n \in Manager : seen'[n].identity => rec'.identity
  <2>1. r \in TaskRecord /\ (r.identity => rec'.identity) BY <1>2
  <2>2. seen' \in [Manager -> TaskRecord] BY <1>1, <1>6, <2>1
  <2>3. ASSUME NEW n \in Manager PROVE seen'[n].identity => rec'.identity
    BY <1>1, <1>3, <1>4, <1>6, <2>1
  <2>4. QED BY <2>2, <2>3
<1>7. QED BY <1>5, <1>6 DEF SeenFollows

\* Continuations that fitted the record fit its successor.
LEMMA SlotKept ==
  ASSUME LifecycleInv, Preserves(rec, rec'), SlotFollows
  PROVE  /\ slot' \in [Worker -> Slot]
         /\ \A w \in Worker : SlotFits(slot'[w], rec')
<1>1. slot \in [Worker -> Slot] BY DEF LifecycleInv, TypeOK
<1>2. rec.identity => rec'.identity BY DEF Preserves, Keeps
<1>3. \A w \in Worker : SlotFits(slot[w], rec') BY <1>2 DEF LifecycleInv, SlotFits
<1>4. CASE slot' = slot BY <1>1, <1>3, <1>4
<1>5. ASSUME NEW w \in Worker, NEW s \in Slot, SlotFits(s, rec'), Enter(w, s)
      PROVE  /\ slot' \in [Worker -> Slot]
             /\ \A v \in Worker : SlotFits(slot'[v], rec')
  <2>1. slot' = [slot EXCEPT ![w] = s] BY <1>5 DEF Enter
  <2>2. slot' \in [Worker -> Slot] BY <1>1, <2>1
  <2>3. \A v \in Worker : slot'[v] = slot[v] \/ slot'[v] = s BY <1>1, <2>1
  <2>4. QED BY <1>3, <1>5, <2>2, <2>3
<1>6. QED BY <1>4, <1>5 DEF SlotFollows

\* A fitting step preserves the invariant and the settlement.
LEMMA FittingStep ==
  ASSUME LifecycleInv, StepFits
  PROVE  LifecycleInv' /\ Keeps(rec, rec')
<1>1. WellFormed(rec') /\ Keeps(rec, rec') BY DEF StepFits, Preserves
<1>2. rec' \in TaskRecord BY <1>1 DEF WellFormed
<1>3. QED BY <1>1, <1>2, SeenKept, SlotKept
          DEF StepFits, OthersTyped, LifecycleInv, TypeOK, WellFormed

-----------------------------------------------------------------------------
\* The types a step starts from.
LEMMA Typed ==
  ASSUME LifecycleInv
  PROVE  /\ TypeOK /\ WellFormed(rec)
         /\ \A w \in Worker : slot[w] \in Slot /\ SlotFits(slot[w], rec)
         /\ Preserves(rec, rec)
<1>1. TypeOK /\ WellFormed(rec) BY DEF LifecycleInv
<1>2. QED BY <1>1, SamePreserves DEF LifecycleInv, TypeOK

\* A mutation whose closure preserves the record.
LEMMA MutateRecordFits ==
  ASSUME LifecycleInv, NEW m \in Manager, NEW r, Preserves(rec, r), MutateRecord(m, r)
  PROVE  Preserves(rec, rec') /\ SeenFollows /\ launched' \in BOOLEAN /\ rec' = r
<1>1. launched \in BOOLEAN BY Typed DEF TypeOK
<1>2. rec' = r /\ seen' = [seen EXCEPT ![m] = r] BY DEF MutateRecord
<1>3. launched' \in BOOLEAN BY <1>1 DEF MutateRecord
<1>4. SeenFollows BY <1>2 DEF SeenFollows
<1>5. QED BY <1>2, <1>3, <1>4

LEMMA MutateFits ==
  ASSUME LifecycleInv, NEW m \in Manager, NEW r, Preserves(rec, r), Mutate(m, r)
  PROVE  /\ Preserves(rec, rec') /\ SeenFollows /\ rec' = r
         /\ launched' \in BOOLEAN /\ armed' \in [Manager -> BOOLEAN]
<1>1. /\ armed \in [Manager -> BOOLEAN] /\ detached \in [Manager -> BOOLEAN]
  BY Typed DEF TypeOK
<1>2. MutateRecord(m, r) BY DEF Mutate
<1>3. ClearPoll(m) \in [Manager -> BOOLEAN] /\ Arm(m) \in [Manager -> BOOLEAN]
  BY <1>1 DEF ClearPoll, Arm
<1>4. armed' \in [Manager -> BOOLEAN] BY <1>1, <1>3 DEF Mutate
<1>5. QED BY <1>2, <1>4, MutateRecordFits

\* Moving a continuation to another program counter.
LEMMA PcUpdate ==
  ASSUME NEW s \in Slot, NEW pc \in SyncPc \cup AwaitPc
  PROVE  /\ [s EXCEPT !.pc = pc] \in Slot
         /\ [s EXCEPT !.pc = pc].pc = pc
         /\ [s EXCEPT !.pc = pc].exit = s.exit
BY DEF Slot

LEMMA DoneFits ==
  ASSUME NEW w \in Worker, Done(w) PROVE SlotFollows
<1>1. IdleSlot \in Slot /\ IdleSlot.pc = "idle"
  BY DEF IdleSlot, Slot, AwaitPc, ExitCode, Anchors, Signal
<1>2. SlotFits(IdleSlot, rec') BY <1>1 DEF SlotFits
<1>3. QED BY <1>1, <1>2 DEF Done, SlotFollows

LEMMA GotoFits ==
  ASSUME NEW w \in Worker, slot[w] \in Slot, NEW pc \in SyncPc \cup AwaitPc,
         Goto(w, pc), pc # "stopProbe",
         pc \in {"natural", "killNat", "waitNat", "settle", "killStop", "waitStop"}
           => slot[w].exit \in {"zero", "nonzero"},
         pc = "lost" => slot[w].exit # "unset"
  PROVE  SlotFollows
<1>1. /\ [slot[w] EXCEPT !.pc = pc] \in Slot
      /\ SlotFits([slot[w] EXCEPT !.pc = pc], rec')
  BY PcUpdate DEF SlotFits
<1>2. QED BY <1>1 DEF Goto, SlotFollows

-----------------------------------------------------------------------------
\* The process group's own life writes neither the record nor a slot.
LEMMA WorldFits ==
  ASSUME LifecycleInv, World PROVE StepFits
<1>1. OthersTyped
  BY Typed DEF World, GateOpens, GateTimesOut, CommandExits, MembersDie,
     NumberReused, disk, local, life, OthersTyped, TypeOK, Tree, Alive, LeaderAlive
<1>2. rec' = rec /\ seen' = seen /\ slot' = slot
  BY DEF World, GateOpens, GateTimesOut, CommandExits, MembersDie,
         NumberReused, disk, local
<1>3. QED BY <1>1, <1>2, Typed DEF StepFits, SeenFollows, SlotFollows

\* The steps of terminal_start that leave the record alone.
LEMMA StartQuietFits ==
  ASSUME LifecycleInv,
         \/ StartSpawn \/ StartIdentify \/ StartFreshTerm \/ StartFreshKill
         \/ StartRelease \/ StartUnlaunch
  PROVE  StepFits
<1>1. rec' = rec /\ seen' = seen /\ slot' = slot
  BY DEF StartSpawn, StartIdentify, StartFreshTerm, StartFreshKill, StartRelease,
         StartUnlaunch, disk, local
<1>2. StartSpawn => OthersTyped
  BY Typed DEF StartSpawn, disk, local, OthersTyped, TypeOK, Tree, StartPc, StartSync
<1>3. StartIdentify => OthersTyped
  BY Typed DEF StartIdentify, disk, local, life, OthersTyped, TypeOK, StartPc, StartSync
<1>4. StartFreshTerm \/ StartFreshKill => OthersTyped
  BY Typed DEF StartFreshTerm, StartFreshKill, AfterTerm, AfterKill, disk, local, life,
     OthersTyped, TypeOK, Tree, StartPc, StartSync
<1>5. StartUnlaunch => OthersTyped
  BY Typed DEF StartUnlaunch, disk, local, life, OthersTyped, TypeOK,
     Tree, StartPc, StartSync
<1>6. StartRelease => OthersTyped
  BY Typed DEF StartRelease, disk, local, life, OthersTyped, TypeOK,
     StartPc, StartSync, CaptureAnswers, Anchors, Arm
<1>7. QED
  BY <1>1, <1>2, <1>3, <1>4, <1>5, <1>6, Typed DEF StepFits, SeenFollows, SlotFollows

\* The steps of terminal_start that write the record.
LEMMA StartWritesFits ==
  ASSUME LifecycleInv, StartCreate \/ StartPersist \/ StartFailLaunch
  PROVE  StepFits
<1>0. Starter \in Manager BY LifecycleAssumption
<1>1. CASE StartCreate
  <2>1. rec = NoRecord BY <1>1, Typed DEF StartCreate, WellFormed
  <2>2. ~rec.identity /\ ~IsSettled(rec)
    BY <2>1 DEF NoRecord, IsSettled, SettledStatus
  <2>3. Preserves(rec, rec')
    BY <1>1, <2>2, InitialWellFormed DEF StartCreate, Preserves, Keeps
  <2>4. SeenFollows BY <1>0, <1>1 DEF StartCreate, SeenFollows
  <2>5. SlotFollows BY <1>1 DEF StartCreate, SlotFollows
  <2>6. OthersTyped
    BY <1>1, Typed DEF StartCreate, OthersTyped, TypeOK, StartPc, StartSync
  <2>7. QED BY <2>3, <2>4, <2>5, <2>6 DEF StepFits
<1>2. CASE StartPersist /\ Mutate(Starter, ToRunning(rec))
  <2>1. Preserves(rec, ToRunning(rec)) BY ClosuresPreserve, Typed
  <2>2. /\ Preserves(rec, rec') /\ SeenFollows
        /\ launched' \in BOOLEAN /\ armed' \in [Manager -> BOOLEAN]
    BY <1>0, <1>2, <2>1, MutateFits
  <2>3. SlotFollows BY <1>2 DEF StartPersist, SlotFollows
  <2>4. OthersTyped
    BY <1>2, <2>2, Typed DEF StartPersist, life, OthersTyped, TypeOK, StartPc, StartSync
  <2>5. QED BY <2>2, <2>3, <2>4 DEF StepFits
<1>3. CASE StartPersist /\ ~Mutate(Starter, ToRunning(rec))
  <2>1. rec' = rec /\ seen' = seen /\ slot' = slot BY <1>3 DEF StartPersist
  <2>2. OthersTyped
    BY <1>3, Typed DEF StartPersist, life, OthersTyped, TypeOK, StartPc, StartSync
  <2>3. QED BY <2>1, <2>2, Typed DEF StepFits, SeenFollows, SlotFollows
<1>4. CASE StartFailLaunch
  <2>1. Preserves(rec, SettleFailedLaunch(rec)) BY ClosuresPreserve, Typed
  <2>2. /\ Preserves(rec, rec') /\ SeenFollows
        /\ launched' \in BOOLEAN /\ armed' \in [Manager -> BOOLEAN]
    BY <1>0, <1>4, <2>1, MutateFits DEF StartFailLaunch
  <2>3. SlotFollows BY <1>4 DEF StartFailLaunch, SlotFollows
  <2>4. OthersTyped
    BY <1>4, <2>2, Typed DEF StartFailLaunch, life, OthersTyped, TypeOK, StartPc, StartSync
  <2>5. QED BY <2>2, <2>3, <2>4 DEF StepFits
<1>5. QED BY <1>1, <1>2, <1>3, <1>4

\* The index scan and the refresh adopt the record as it is.
LEMMA ScanFits ==
  ASSUME LifecycleInv, NEW m \in Manager, InitScan(m) \/ Refresh(m)
  PROVE  StepFits
<1>1. rec' = rec /\ slot' = slot BY DEF InitScan, Refresh
<1>2. SeenFollows BY <1>1 DEF InitScan, Refresh, Recover, SeenFollows
<1>3. OthersTyped
  BY Typed DEF InitScan, Refresh, Recover, Arm, ClearPoll, life, OthersTyped, TypeOK
<1>4. QED BY <1>1, <1>2, <1>3, Typed DEF StepFits, SlotFollows

\* Crash and detach only forget.
LEMMA ReplaceFits ==
  ASSUME LifecycleInv, NEW m \in Manager, Crash(m) \/ Detach(m)
  PROVE  LifecycleInv' /\ Keeps(rec, rec')
<1>1. rec' = rec BY DEF Crash, Detach, disk
<1>2. Preserves(rec, rec') BY <1>1, Typed
<1>3. SeenFollows BY DEF Crash, Detach, SeenFollows
<1>4. OthersTyped
  <2>1. replaced' \in 0..MaxReplaced
    BY Typed, LifecycleAssumption DEF Crash, Detach, TypeOK
  <2>2. QED
    BY <2>1, Typed DEF Crash, Detach, disk, ClearPoll, OthersTyped, TypeOK, Anchors,
       StartPc, StartSync
<1>5. CASE Detach(m)
  <2>1. SlotFollows BY <1>5 DEF Detach, SlotFollows
  <2>2. QED BY <1>2, <1>3, <1>4, <2>1, FittingStep DEF StepFits
<1>6. CASE Crash(m)
  <2>1. IdleSlot \in Slot /\ SlotFits(IdleSlot, rec')
    BY DEF IdleSlot, Slot, AwaitPc, ExitCode, Anchors, Signal, SlotFits
  <2>2. \A w \in Worker : slot'[w] = IdleSlot \/ slot'[w] = slot[w]
    BY <1>6 DEF Crash
  <2>3. slot' \in [Worker -> Slot] /\ \A w \in Worker : SlotFits(slot'[w], rec')
    BY <1>1, <1>6, <2>1, <2>2, Typed DEF Crash
  <2>4. WellFormed(rec') /\ Keeps(rec, rec') BY <1>2 DEF Preserves
  <2>5. QED
    BY <1>2, <1>3, <1>4, <2>3, <2>4, SeenKept
       DEF OthersTyped, LifecycleInv, TypeOK, WellFormed
<1>7. QED BY <1>5, <1>6

-----------------------------------------------------------------------------
\* A worker belongs to a manager.
LEMMA WorkerManager == ASSUME NEW w \in Worker PROVE Mgr(w) \in Manager
BY DEF Worker, Mgr

\* What the locals of a fresh continuation may be.
LEMMA FreshSlot ==
  /\ IdleSlot \in Slot /\ IdleSlot.pc = "idle" /\ IdleSlot.exit = "unset"
  /\ \A b \in BOOLEAN :
       LET s == [IdleSlot EXCEPT !.pc = "lost", !.exit = "null", !.suppress = b]
       IN  s \in Slot /\ s.pc = "lost" /\ s.exit = "null"
  /\ LET s == [IdleSlot EXCEPT !.pc = "lost", !.exit = "null"]
     IN  s \in Slot /\ s.pc = "lost" /\ s.exit = "null"
  /\ \A a \in Anchors :
       LET s == [IdleSlot EXCEPT !.pc = "term", !.anchors = a]
       IN  s \in Slot /\ s.pc = "term"
  /\ \A e \in ExitCode :
       LET s == [IdleSlot EXCEPT !.pc = "stopProbe", !.exit = e]
       IN  s \in Slot /\ s.pc = "stopProbe" /\ s.exit = e
BY DEF IdleSlot, Slot, SyncPc, AwaitPc, ExitCode, Anchors, Signal

LEMMA FreshExit ==
  ASSUME NEW e \in ExitCode
  PROVE  LET s == [IdleSlot EXCEPT !.exit = e] IN s \in Slot /\ s.exit = e
BY DEF IdleSlot, Slot, SyncPc, AwaitPc, ExitCode, Anchors, Signal

\* One reconcile of the poll up to its first access to the process group.
LEMMA ReconcileFits ==
  ASSUME LifecycleInv, NEW w \in Worker, slot[w].pc = "idle", Reconcile(w),
         child' \in BOOLEAN
  PROVE  StepFits
<1> USE WorkerManager
<1>0. rec' = rec /\ exitFile' = exitFile BY DEF Reconcile, disk
<1>1. SeenFollows BY <1>0 DEF Reconcile, SeenFollows
<1>2. OthersTyped
  BY Typed DEF Reconcile, disk, ClearPoll, OthersTyped, TypeOK
<1>3. SlotFollows
  <2>1. CASE slot' = slot BY <2>1 DEF SlotFollows
  <2>2. CASE Enter(w, [IdleSlot EXCEPT !.pc = "lost", !.exit = "null", !.suppress = TRUE])
    <3> DEFINE s == [IdleSlot EXCEPT !.pc = "lost", !.exit = "null", !.suppress = TRUE]
    <3>1. s \in Slot /\ SlotFits(s, rec') BY FreshSlot DEF SlotFits
    <3>2. QED BY <2>2, <3>1 DEF SlotFollows
  <2>3. CASE Goto(w, "recover")
    BY <2>3, GotoFits, Typed DEF SyncPc
  <2>4. CASE \E pc \in {"natural", "probe"} :
               /\ pc = "natural" => exitFile # "unset"
               /\ Enter(w, [[IdleSlot EXCEPT !.exit = exitFile] EXCEPT !.pc = pc])
    <3>1. PICK pc \in {"natural", "probe"} :
               /\ pc = "natural" => exitFile # "unset"
               /\ Enter(w, [[IdleSlot EXCEPT !.exit = exitFile] EXCEPT !.pc = pc])
      BY <2>4
    <3> DEFINE i == [IdleSlot EXCEPT !.exit = exitFile]
               s == [i EXCEPT !.pc = pc]
    <3>2. exitFile \in {"unset", "zero", "nonzero"} BY Typed DEF TypeOK
    <3>3. i \in Slot /\ i.exit = exitFile
      <4>1. exitFile \in ExitCode BY <3>2 DEF ExitCode
      <4>2. QED BY <4>1, FreshExit
    <3>4. s \in Slot /\ s.pc = pc /\ s.exit = exitFile
      BY <3>3, PcUpdate DEF SyncPc
    <3>5. SlotFits(s, rec') BY <3>1, <3>2, <3>4 DEF SlotFits
    <3>6. QED BY <3>1, <3>4, <3>5 DEF SlotFollows
  <2>5. QED BY <2>1, <2>2, <2>3, <2>4 DEF Reconcile
<1>4. QED BY <1>0, <1>1, <1>2, <1>3, Typed DEF StepFits

LEMMA PollStartFits ==
  ASSUME LifecycleInv, NEW w \in Worker, PollStart(w) PROVE StepFits
BY ReconcileFits, Typed DEF PollStart, TypeOK

LEMMA ChildClosedFits ==
  ASSUME LifecycleInv, ChildClosed PROVE StepFits
<1>1. <<Starter, "poll">> \in Worker BY LifecycleAssumption DEF Worker
<1>2. CASE Reconcile(<<Starter, "poll">>) /\ slot[<<Starter, "poll">>].pc = "idle"
  BY <1>1, <1>2, ReconcileFits DEF ChildClosed
<1>3. CASE /\ rec' = rec /\ UNCHANGED <<disk, tree, local, indexed, detached,
                                        replaced, start, slot, stops>>
  <2>1. OthersTyped
    BY <1>3, Typed DEF ChildClosed, disk, local, OthersTyped, TypeOK
  <2>2. QED
    BY <1>3, <2>1, Typed DEF disk, local, StepFits, SeenFollows, SlotFollows
<1>4. QED BY <1>2, <1>3 DEF ChildClosed, disk

-----------------------------------------------------------------------------
\* Everything but the record, the snapshots and the slots is as it was.
OthersKept ==
  UNCHANGED <<tree, launched, exitFile, armed, anchor, life, start, stops>>

LEMMA KeptTyped == ASSUME LifecycleInv, OthersKept PROVE OthersTyped
BY Typed DEF OthersKept, life, OthersTyped, TypeOK

\* The steps that touch nothing but their own slot (and the process group).
LEMMA SignalFits ==
  ASSUME LifecycleInv, NEW w \in Worker,
         KillNat(w) \/ KillStop(w) \/ Term(w) \/ Kill(w)
  PROVE  StepFits
<1>1. PICK from \in {"killNat", "killStop", "term", "kill"},
           after \in {AfterTerm, AfterKill},
           await \in {"waitNat", "waitStop", "waitTerm", "waitKill"} :
        /\ SignalStep(w, from, after, await)
        /\ await \in {"waitNat", "waitStop"} => from \in {"killNat", "killStop"}
  BY DEF KillNat, KillStop, Term, Kill
<1>2. PICK o \in SignalOutcomes(slot[w].anchors, after) :
        /\ tree' = o[2]
        /\ Enter(w, [slot[w] EXCEPT !.pc = await, !.sig = o[1]])
  BY <1>1 DEF SignalStep
<1>3. tree \in Tree BY Typed DEF TypeOK
<1>4. o[1] \in Signal /\ o[2] \in Tree
  <2>1. after \subseteq Tree BY <1>3 DEF AfterTerm, AfterKill, Tree
  <2>2. \A v : VerifiedAnswers(v) \subseteq {"same", "different", "unknown"}
    BY DEF VerifiedAnswers, Known, IdentityAnswers, AnchorAnswers
  <2>3. PICK i \in VerifiedAnswers(slot[w].anchors) :
          o \in IF i = "same"
                THEN {<<"sent", t>> : t \in after} \cup
                     (IF "probe" \in Faults THEN {<<"failed", tree>>} ELSE {})
                ELSE {<<i, tree>>}
    BY DEF SignalOutcomes
  <2>4. CASE i = "same" BY <1>3, <2>1, <2>3, <2>4 DEF Signal
  <2>5. CASE i # "same" BY <1>3, <2>2, <2>3, <2>5 DEF Signal
  <2>6. QED BY <2>4, <2>5
<1>5. SlotFollows
  <2> DEFINE s == [slot[w] EXCEPT !.pc = await, !.sig = o[1]]
  <2>1. s \in Slot /\ s.pc = await /\ s.exit = slot[w].exit
    BY <1>4, Typed DEF Slot, AwaitPc
  <2>2. SlotFits(s, rec')
    BY <1>1, <2>1, Typed DEF SlotFits, SignalStep
  <2>3. QED BY <1>2, <2>1, <2>2 DEF SlotFollows
<1>6. OthersTyped
  BY <1>1, <1>2, <1>4, Typed DEF SignalStep, disk, local, life, OthersTyped, TypeOK
<1>7. rec' = rec /\ seen' = seen BY <1>1 DEF SignalStep, disk, local
<1>8. QED BY <1>5, <1>6, <1>7, Typed DEF StepFits, SeenFollows

\* A continuation that only moves on, or ends.
LEMMA MoveFits ==
  ASSUME LifecycleInv, NEW w \in Worker,
         \/ WaitNat(w) \/ WaitTerm(w) \/ WaitKill(w) \/ WaitStop(w)
         \/ SignalFailed(w) \/ LockTimesOut(w)
  PROVE  StepFits
<1>1. OthersKept /\ rec' = rec /\ seen' = seen
  BY DEF WaitNat, WaitTerm, WaitKill, WaitStop, SignalFailed, LockTimesOut,
         OthersKept, disk, local
<1>2. slot[w] \in Slot /\ SlotFits(slot[w], rec) BY Typed
<1>3. SlotFollows
  <2>1. CASE Done(w) BY <2>1, DoneFits
  <2>2. CASE Goto(w, "settle") /\ slot[w].pc \in {"waitNat", "waitStop"}
    BY <1>2, <2>2, GotoFits DEF SlotFits, SyncPc
  <2>3. CASE \E pc \in {"signalFailed", "disposed", "failed"} : Goto(w, pc)
    BY <1>2, <2>3, GotoFits DEF SyncPc
  <2>4. CASE Enter(w, [slot[w] EXCEPT !.pc = "kill", !.restore = FALSE, !.andThen = "nothing"])
    <3> DEFINE s == [slot[w] EXCEPT !.pc = "kill", !.restore = FALSE, !.andThen = "nothing"]
    <3>1. s \in Slot /\ s.pc = "kill" BY <1>2 DEF Slot, SyncPc
    <3>2. SlotFits(s, rec') BY <3>1 DEF SlotFits
    <3>3. QED BY <2>4, <3>1, <3>2 DEF SlotFollows
  <2>5. CASE Enter(w, [slot[w] EXCEPT !.pc = "lost", !.exit = "null"])
    <3> DEFINE s == [slot[w] EXCEPT !.pc = "lost", !.exit = "null"]
    <3>1. s \in Slot /\ s.pc = "lost" /\ s.exit = "null"
      BY <1>2 DEF Slot, SyncPc, ExitCode
    <3>2. SlotFits(s, rec') BY <3>1 DEF SlotFits
    <3>3. QED BY <2>5, <3>1, <3>2 DEF SlotFollows
  <2>6. QED
    BY <2>1, <2>2, <2>3, <2>4, <2>5
       DEF WaitNat, WaitTerm, WaitKill, WaitStop, SignalFailed, LockTimesOut
<1>4. QED BY <1>1, <1>3, KeptTyped, Typed DEF StepFits, SeenFollows

-----------------------------------------------------------------------------
\* A step that mutates the record in its manager's name and then only moves on.
MutationKept == UNCHANGED <<tree, exitFile, anchor, life, start, stops>>

LEMMA MutationFits ==
  ASSUME LifecycleInv, NEW m \in Manager, NEW r, Preserves(rec, r), Mutate(m, r),
         MutationKept, SlotFollows
  PROVE  StepFits
<1>1. /\ Preserves(rec, rec') /\ SeenFollows
      /\ launched' \in BOOLEAN /\ armed' \in [Manager -> BOOLEAN]
  BY MutateFits
<1>2. OthersTyped BY <1>1, Typed DEF MutationKept, life, OthersTyped, TypeOK
<1>3. QED BY <1>1, <1>2 DEF StepFits

\* The three settlements and the observation.
LEMMA SettleFits ==
  ASSUME LifecycleInv, NEW w \in Worker, SettleNat(w) \/ Lost(w) \/ ObserveSettled(w)
  PROVE  StepFits
<1> USE WorkerManager
<1>0. slot[w] \in Slot /\ SlotFits(slot[w], rec) BY Typed
<1>1. slot[w].exit \in ExitCode /\ slot[w].suppress \in BOOLEAN BY <1>0 DEF Slot
<1>2. PICK r : /\ Mutate(Mgr(w), r) /\ Preserves(rec, r)
  <2>1. CASE SettleNat(w)
    <3>1. slot[w].exit \in {"zero", "nonzero"}
      BY <1>0, <2>1 DEF SettleNat, SlotFits
    <3>2. QED BY <2>1, <3>1, ClosuresPreserve, Typed DEF SettleNat
  <2>2. CASE Lost(w)
    <3>1. slot[w].exit \in ExitCode \ {"unset"}
      BY <1>0, <1>1, <2>2 DEF Lost, SlotFits
    <3>2. QED BY <1>1, <2>2, <3>1, ClosuresPreserve, Typed DEF Lost
  <2>3. CASE ObserveSettled(w)
    <3>1. (slot[w].andThen = "consume") \in BOOLEAN OBVIOUS
    <3>2. Preserves(rec, Observe(rec, slot[w].andThen = "consume"))
      BY <3>1, ClosuresPreserve, Typed
    <3>3. QED BY <2>3, <3>2 DEF ObserveSettled
  <2>4. QED BY <2>1, <2>2, <2>3
<1>3. SlotFollows
  <2>1. CASE Done(w) BY <2>1, DoneFits
  <2>2. CASE Goto(w, "observe") BY <1>0, <2>2, GotoFits DEF SyncPc
  <2>3. QED BY <2>1, <2>2 DEF SettleNat, Lost, ObserveSettled
<1>4. MutationKept BY DEF SettleNat, Lost, ObserveSettled, MutationKept
<1>5. QED BY <1>2, <1>3, <1>4, MutationFits

\* settleDisposedStop.
LEMMA DisposedFits ==
  ASSUME LifecycleInv, NEW w \in Worker, Disposed(w) PROVE StepFits
<1> USE WorkerManager
<1>0. slot[w] \in Slot /\ exitFile \in {"unset", "zero", "nonzero"}
  BY Typed DEF TypeOK
<1>1. CASE exitFile # "unset"
  <2> DEFINE s == [slot[w] EXCEPT !.pc = "settle", !.exit = exitFile, !.andThen = "observe"]
  <2>1. s \in Slot /\ s.pc = "settle" /\ s.exit = exitFile
    BY <1>0 DEF Slot, SyncPc, ExitCode
  <2>2. SlotFits(s, rec') BY <1>0, <1>1, <2>1 DEF SlotFits
  <2>3. SlotFollows BY <1>1, <2>1, <2>2 DEF Disposed, SlotFollows
  <2>4. rec' = rec /\ seen' = seen /\ OthersKept
    BY <1>1 DEF Disposed, OthersKept
  <2>5. QED BY <2>3, <2>4, KeptTyped, Typed DEF StepFits, SeenFollows
<1>2. CASE exitFile = "unset"
  <2>1. Mutate(Mgr(w), SettleCancelled(rec)) /\ Done(w) /\ MutationKept
    BY <1>2 DEF Disposed, MutationKept
  <2>2. Preserves(rec, SettleCancelled(rec)) BY ClosuresPreserve, Typed
  <2>3. QED BY <2>1, <2>2, DoneFits, MutationFits
<1>3. QED BY <1>1, <1>2

\* failedStop.
LEMMA StopFailedFits ==
  ASSUME LifecycleInv, NEW w \in Worker, StopFailed(w) PROVE StepFits
<1> USE WorkerManager
<1>1. armed' \in [Manager -> BOOLEAN]
  BY Typed DEF StopFailed, ClearPoll, Arm, TypeOK
<1>2. SlotFollows BY DoneFits DEF StopFailed
<1>3. Preserves(rec, rec') /\ SeenFollows /\ launched' \in BOOLEAN
  <2>1. CASE slot[w].restore
    <3>1. Preserves(rec, RestoreRunning(rec)) BY ClosuresPreserve, Typed
    <3>2. MutateRecord(Mgr(w), RestoreRunning(rec)) BY <2>1 DEF StopFailed
    <3>3. QED BY <3>1, <3>2, MutateRecordFits
  <2>2. CASE ~slot[w].restore
    BY <2>2, Typed DEF StopFailed, SeenFollows, TypeOK
  <2>3. QED BY <2>1, <2>2
<1>4. OthersTyped
  BY <1>1, <1>3, Typed DEF StopFailed, life, OthersTyped, TypeOK
<1>5. QED BY <1>2, <1>3, <1>4 DEF StepFits

\* terminal_stop decides on the retained snapshot.
LEMMA StopCallFits ==
  ASSUME LifecycleInv, NEW w \in Worker, StopCall(w) PROVE StepFits
<1> USE WorkerManager
<1>0. slot[w] \in Slot /\ exitFile \in {"unset", "zero", "nonzero"}
  BY Typed DEF TypeOK
<1>1. rec' = rec /\ seen' = seen BY DEF StopCall, disk
<1>2. stops' \in 0..MaxStops
  BY Typed, LifecycleAssumption DEF StopCall, TypeOK
<1>3. OthersTyped
  BY <1>2, Typed DEF StopCall, disk, life, Arm, OthersTyped, TypeOK
<1>4. SlotFollows
  <2>1. CASE slot' = slot BY <2>1 DEF SlotFollows
  <2>2. CASE Goto(w, "observe") BY <1>0, <2>2, GotoFits DEF SyncPc
  <2>3. CASE /\ seen[Mgr(w)].identity
             /\ Enter(w, [IdleSlot EXCEPT !.pc = "stopProbe", !.exit = exitFile])
    <3> DEFINE s == [IdleSlot EXCEPT !.pc = "stopProbe", !.exit = exitFile]
    <3>1. s \in Slot /\ s.pc = "stopProbe" /\ s.exit = exitFile
      BY <1>0, FreshSlot DEF ExitCode
    <3>2. rec.identity BY <2>3 DEF LifecycleInv
    <3>3. SlotFits(s, rec') BY <1>0, <1>1, <3>1, <3>2 DEF SlotFits
    <3>4. QED BY <2>3, <3>1, <3>3 DEF SlotFollows
  <2>4. QED BY <2>1, <2>2, <2>3 DEF StopCall
<1>5. QED BY <1>1, <1>3, <1>4, Typed DEF StepFits, SeenFollows

-----------------------------------------------------------------------------
\* A continuation that decides without writing.
QuietDecision == rec' = rec /\ seen' = seen /\ OthersKept

LEMMA QuietFits ==
  ASSUME LifecycleInv, QuietDecision, SlotFollows PROVE StepFits
BY KeptTyped, Typed DEF QuietDecision, StepFits, SeenFollows

\* A continuation that takes pc and anchors v, where pc needs no exit code.
LEMMA EnterFits ==
  ASSUME NEW w \in Worker, NEW s \in Slot, NEW pc \in {"term", "kill"}, NEW v \in Anchors,
         Enter(w, [s EXCEPT !.pc = pc, !.anchors = v])
  PROVE  SlotFollows
<1> DEFINE t == [s EXCEPT !.pc = pc, !.anchors = v]
<1>1. t \in Slot /\ t.pc = pc BY DEF Slot, SyncPc
<1>2. SlotFits(t, rec') BY <1>1 DEF SlotFits
<1>3. QED BY <1>1, <1>2 DEF SlotFollows

LEMMA EnterLostFits ==
  ASSUME NEW w \in Worker, Enter(w, [IdleSlot EXCEPT !.pc = "lost", !.exit = "null"])
  PROVE  SlotFollows
<1> DEFINE s == [IdleSlot EXCEPT !.pc = "lost", !.exit = "null"]
<1>1. s \in Slot /\ SlotFits(s, rec') BY FreshSlot DEF SlotFits
<1>2. QED BY <1>1 DEF SlotFollows

\* The running poll refreshes the anchors.
LEMMA ProbeFits ==
  ASSUME LifecycleInv, NEW w \in Worker, Probe(w) PROVE StepFits
<1> USE WorkerManager
<1>1. CASE \E v \in CaptureAnswers \ {"none"} :
             /\ anchor' = [anchor EXCEPT ![Mgr(w)] = v]
             /\ IF v # seen[Mgr(w)].anchors THEN Mutate(Mgr(w), RunningAnchors(rec, v))
                ELSE UNCHANGED <<rec, seen, launched, armed>>
             /\ Done(w)
  <2>1. PICK v \in CaptureAnswers \ {"none"} :
             /\ anchor' = [anchor EXCEPT ![Mgr(w)] = v]
             /\ IF v # seen[Mgr(w)].anchors THEN Mutate(Mgr(w), RunningAnchors(rec, v))
                ELSE UNCHANGED <<rec, seen, launched, armed>>
             /\ Done(w)
    BY <1>1
  <2>2. v \in Anchors BY <2>1 DEF CaptureAnswers, Anchors
  <2>3. /\ Preserves(rec, rec') /\ SeenFollows
        /\ launched' \in BOOLEAN /\ armed' \in [Manager -> BOOLEAN]
    <3>1. CASE Mutate(Mgr(w), RunningAnchors(rec, v))
      BY <2>2, <3>1, ClosuresPreserve, MutateFits, Typed
    <3>2. CASE UNCHANGED <<rec, seen, launched, armed>>
      BY <3>2, Typed DEF SeenFollows, TypeOK
    <3>3. QED BY <2>1, <3>1, <3>2
  <2>4. anchor' \in [Manager -> Anchors] BY <2>1, <2>2, Typed DEF TypeOK
  <2>5. OthersTyped
    BY <2>3, <2>4, Typed DEF Probe, life, OthersTyped, TypeOK
  <2>6. QED BY <2>1, <2>3, <2>5, DoneFits DEF StepFits
<1>2. CASE QuietDecision /\ (Done(w) \/ Enter(w, [IdleSlot EXCEPT !.pc = "lost", !.exit = "null"]))
  BY <1>2, DoneFits, EnterLostFits, QuietFits
<1>3. QED BY <1>1, <1>2 DEF Probe, QuietDecision, OthersKept

\* finishNaturalCompletion up to its signal.
LEMMA NaturalFits ==
  ASSUME LifecycleInv, NEW w \in Worker, Natural(w) PROVE StepFits
<1> USE WorkerManager
<1> DEFINE m == Mgr(w)
           retained == IF rec.anchors # "none" THEN rec.anchors ELSE anchor[m]
<1>0. /\ slot[w] \in Slot /\ SlotFits(slot[w], rec) /\ slot[w].pc = "natural"
      /\ slot[w].exit \in {"zero", "nonzero"}
  BY Typed DEF Natural, SlotFits
<1>1. retained \in Anchors
  BY Typed DEF TypeOK, WellFormed, TaskRecord
<1>2. CASE QuietDecision /\ \/ Done(w) \/ Goto(w, "settle") \/ Goto(w, "lost")
  <2>1. SlotFollows BY <1>0, <1>2, DoneFits, GotoFits DEF SyncPc
  <2>2. QED BY <1>2, <2>1, QuietFits
<1>3. CASE \E v \in Anchors :
             /\ \/ Mutate(m, RunningAnchors(rec, v))
                \/ UNCHANGED <<rec, seen, launched, armed>>
             /\ Enter(w, [slot[w] EXCEPT !.pc = "killNat", !.anchors = v])
             /\ MutationKept
  <2>1. PICK v \in Anchors :
             /\ \/ Mutate(m, RunningAnchors(rec, v))
                \/ UNCHANGED <<rec, seen, launched, armed>>
             /\ Enter(w, [slot[w] EXCEPT !.pc = "killNat", !.anchors = v])
             /\ MutationKept
    BY <1>3
  <2> DEFINE s == [slot[w] EXCEPT !.pc = "killNat", !.anchors = v]
  <2>2. s \in Slot /\ s.pc = "killNat" /\ s.exit = slot[w].exit
    BY <1>0 DEF Slot, SyncPc
  <2>3. SlotFollows BY <1>0, <2>1, <2>2 DEF SlotFits, SlotFollows
  <2>4. CASE Mutate(m, RunningAnchors(rec, v))
    BY <2>1, <2>3, <2>4, ClosuresPreserve, MutationFits, Typed
  <2>5. CASE UNCHANGED <<rec, seen, launched, armed>>
    BY <2>1, <2>3, <2>5, QuietFits DEF QuietDecision, OthersKept, MutationKept
  <2>6. QED BY <2>1, <2>4, <2>5
<1>4. CASE /\ rec.status = "running" /\ ~TreeEmpty
           /\ \E i \in IdentityAnswers, c \in CaptureAnswers : \E known \in Known(i, retained) :
                LET v == IF i = "same" /\ c # "none" THEN c ELSE retained
                IN  \/ /\ known = "different" /\ Goto(w, "lost")
                       /\ UNCHANGED <<disk, seen, armed>>
                    \/ /\ known = "unknown" \/ (known = "same" /\ v = "none")
                       /\ Done(w) /\ UNCHANGED <<disk, seen, armed>>
                    \/ /\ known = "same" /\ v # "none"
                       /\ IF v # rec.anchors THEN Mutate(m, RunningAnchors(rec, v))
                          ELSE UNCHANGED <<rec, seen, launched, armed>>
                       /\ Enter(w, [slot[w] EXCEPT !.pc = "killNat", !.anchors = v])
                       /\ UNCHANGED exitFile
  <2>1. CaptureAnswers \subseteq Anchors BY DEF CaptureAnswers, Anchors
  <2>2. UNCHANGED <<tree, anchor, life, start, stops>> BY DEF Natural
  <2> HIDE DEF retained
  <2>3. QED
    BY <1>1, <1>2, <1>3, <1>4, <2>1, <2>2
       DEF QuietDecision, OthersKept, MutationKept, disk
<1>5. CASE UNCHANGED <<disk, seen, armed>> /\ (Done(w) \/ Goto(w, "settle"))
  BY <1>2, <1>5 DEF Natural, QuietDecision, OthersKept, disk
<1>6. QED BY <1>4, <1>5 DEF Natural
\* recoverStopping up to its signal.
LEMMA RecoverStoppingFits ==
  ASSUME LifecycleInv, NEW w \in Worker, RecoverStopping(w) PROVE StepFits
<1> USE WorkerManager
<1>0. slot[w] \in Slot /\ rec.anchors \in Anchors
  BY Typed DEF WellFormed, TaskRecord
<1>1. UNCHANGED <<tree, anchor, life, start, stops>> BY DEF RecoverStopping
<1>2. CASE /\ UNCHANGED <<disk, seen, armed>>
           /\ \/ Done(w) \/ Goto(w, "disposed")
              \/ Enter(w, [IdleSlot EXCEPT !.pc = "lost", !.exit = "null"])
              \/ Enter(w, [IdleSlot EXCEPT !.pc = "term", !.anchors = rec.anchors])
  <2>1. SlotFollows
    BY <1>0, <1>2, DoneFits, GotoFits, EnterLostFits, EnterFits, FreshSlot DEF SyncPc
  <2>2. QED BY <1>1, <1>2, <2>1, QuietFits DEF QuietDecision, OthersKept, disk
<1>3. CASE \E v \in CaptureAnswers :
             /\ Mutate(Mgr(w), StoppingAnchors(rec, v))
             /\ Enter(w, [IdleSlot EXCEPT !.pc = "term", !.anchors = rec'.anchors])
             /\ UNCHANGED exitFile
  <2>1. PICK v \in CaptureAnswers :
             /\ Mutate(Mgr(w), StoppingAnchors(rec, v))
             /\ Enter(w, [IdleSlot EXCEPT !.pc = "term", !.anchors = rec'.anchors])
             /\ UNCHANGED exitFile
    BY <1>3
  <2>2. v \in Anchors BY DEF CaptureAnswers, Anchors
  <2>3. Preserves(rec, StoppingAnchors(rec, v)) BY <2>2, ClosuresPreserve, Typed
  <2>4. Preserves(rec, rec') BY <2>1, <2>3, MutateFits
  <2>5. rec'.anchors \in Anchors BY <2>4 DEF Preserves, WellFormed, TaskRecord
  <2>6. SlotFollows BY <2>1, <2>5, EnterFits, FreshSlot
  <2>7. QED BY <1>1, <2>1, <2>3, <2>6, MutationFits DEF MutationKept
<1>4. QED BY <1>2, <1>3 DEF RecoverStopping

\* What terminal_stop decides after its first probe of the process group: it
\* settles on the spot, gives up, or takes the task off the poll to signal it.
StopLoses(w, next) == [slot[w] EXCEPT !.pc = "lost", !.exit = "null", !.andThen = next]

StopSettles(w) ==
  /\ slot[w].exit # "unset" /\ TreeEmpty
  /\ Enter(w, [slot[w] EXCEPT !.pc = "settle", !.andThen = "observe"])

StopQuiet(w) ==
  /\ UNCHANGED <<rec, seen, launched, armed>>
  /\ \/ Done(w) \/ StopSettles(w)
     \/ /\ tree \notin LeaderAlive
        /\ \E next \in {"observe", "consume"} : Enter(w, StopLoses(w, next))

StopSignals(w, v) ==
  LET exited == slot[w].exit # "unset"
      m == Mgr(w)
  IN  /\ IF exited /\ v = seen[m].anchors
         THEN UNCHANGED <<rec, seen, launched>>
         ELSE MutateRecord(m, IF exited THEN ActiveAnchors(rec, v) ELSE ToStopping(rec, v))
      /\ armed' = ClearPoll(m)
      /\ Enter(w, IF IsSettled(seen'[m]) THEN [slot[w] EXCEPT !.pc = "observe"]
                  ELSE IF exited
                  THEN [slot[w] EXCEPT !.pc = "killStop", !.anchors = v,
                                       !.andThen = "observe"]
                  ELSE [slot[w] EXCEPT !.pc = "term", !.anchors = v,
                                       !.restore = TRUE, !.andThen = "observe"])

LEMMA StopProbeShape ==
  ASSUME NEW w \in Worker, StopProbe(w),
         seen[Mgr(w)].anchors \in Anchors, anchor[Mgr(w)] \in Anchors
  PROVE  StopQuiet(w) \/ \E v \in Anchors : StopSignals(w, v)
<1> DEFINE m == Mgr(w)
           exited == slot[w].exit # "unset"
           current == seen[m]
           retained == IF current.anchors # "none" THEN current.anchors ELSE anchor[m]
           byAnchors(i, known) == i = "unknown" /\ known = "same"
           fallback(i, known) == IF byAnchors(i, known) THEN retained ELSE "none"
           pick(i, c, known) ==
             IF exited
             THEN IF c # "none" THEN c
                  ELSE IF byAnchors(i, known) THEN retained ELSE current.anchors
             ELSE IF current.status = "stopping"
             THEN IF current.anchors # "none" THEN current.anchors
                  ELSE IF c # "none" THEN c ELSE retained
             ELSE IF c # "none" THEN c ELSE fallback(i, known)
<1>1. CASE TreeEmpty /\
           Enter(w, IF exited THEN [slot[w] EXCEPT !.pc = "settle", !.andThen = "observe"]
                    ELSE StopLoses(w, "consume")) /\
           UNCHANGED <<rec, seen, launched, armed>>
  BY <1>1 DEF StopQuiet, StopSettles, TreeEmpty, LeaderAlive
<1>2. CASE ~(TreeEmpty /\
             Enter(w, IF exited THEN [slot[w] EXCEPT !.pc = "settle", !.andThen = "observe"]
                      ELSE StopLoses(w, "consume")) /\
             UNCHANGED <<rec, seen, launched, armed>>)
  <2> DEFINE Decides(i, c, known) ==
          \/ /\ known = "different" /\ Enter(w, StopLoses(w, "observe"))
             /\ UNCHANGED <<rec, seen, launched, armed>>
          \/ /\ known = "unknown" \/ (known = "same" /\ pick(i, c, known) = "none")
             /\ Done(w)
             /\ UNCHANGED <<rec, seen, launched, armed>>
          \/ /\ known = "same" /\ pick(i, c, known) # "none"
             /\ IF exited /\ pick(i, c, known) = current.anchors
                THEN UNCHANGED <<rec, seen, launched>>
                ELSE MutateRecord(m, IF exited THEN ActiveAnchors(rec, pick(i, c, known))
                                     ELSE ToStopping(rec, pick(i, c, known)))
             /\ armed' = ClearPoll(m)
             /\ Enter(w, IF IsSettled(seen'[m]) THEN [slot[w] EXCEPT !.pc = "observe"]
                         ELSE IF exited
                         THEN [slot[w] EXCEPT !.pc = "killStop", !.anchors = pick(i, c, known),
                                              !.andThen = "observe"]
                         ELSE [slot[w] EXCEPT !.pc = "term", !.anchors = pick(i, c, known),
                                              !.restore = TRUE, !.andThen = "observe"])
  <2>0. PICK i \in IdentityAnswers, c \in CaptureAnswers :
          \E known \in Known(i, retained) : Decides(i, c, known)
    BY <1>2 DEF StopProbe, StopLoses
  <2>1. PICK known \in Known(i, retained) : Decides(i, c, known) BY <2>0
  <2>2. pick(i, c, known) \in Anchors
    <3>1. c \in Anchors BY DEF CaptureAnswers, Anchors
    <3>2. retained \in Anchors OBVIOUS
    <3>3. QED BY <3>1, <3>2 DEF Anchors
  <2>6. known = "different" => tree \notin LeaderAlive
    BY DEF Known, IdentityAnswers, AnchorAnswers
  <2> HIDE DEF pick
  <2>3. CASE UNCHANGED <<rec, seen, launched, armed>> /\
             (\/ tree \notin LeaderAlive /\ Enter(w, StopLoses(w, "observe"))
              \/ Done(w))
    BY <2>3 DEF StopQuiet
  <2>4. CASE StopSignals(w, pick(i, c, known)) BY <2>2, <2>4
  <2>5. QED BY <2>1, <2>3, <2>4, <2>6 DEF StopSignals
<1>3. QED BY <1>1, <1>2

LEMMA StopProbeFits ==
  ASSUME LifecycleInv, NEW w \in Worker, StopProbe(w) PROVE StepFits
<1> USE WorkerManager
<1> DEFINE m == Mgr(w)
           exited == slot[w].exit # "unset"
<1>0. /\ slot[w] \in Slot /\ slot[w].pc = "stopProbe" /\ rec.identity
      /\ exited => slot[w].exit \in {"zero", "nonzero"}
  BY Typed DEF StopProbe, SlotFits, Slot, ExitCode
<1>1. seen[m].anchors \in Anchors /\ anchor[m] \in Anchors
  BY Typed DEF TypeOK, TaskRecord
<1>2. UNCHANGED <<tree, exitFile, anchor, life, start, stops>> BY DEF StopProbe
<1>3. CASE StopQuiet(w)
  <2>1. ASSUME NEW next \in {"observe", "consume"}, Enter(w, StopLoses(w, next))
        PROVE  SlotFollows
    <3>1. /\ StopLoses(w, next) \in Slot /\ StopLoses(w, next).pc = "lost"
          /\ StopLoses(w, next).exit = "null"
      BY <1>0 DEF StopLoses, Slot, SyncPc, ExitCode
    <3>2. SlotFits(StopLoses(w, next), rec') BY <3>1 DEF SlotFits
    <3>3. QED BY <2>1, <3>1, <3>2 DEF SlotFollows
  <2>2. CASE StopSettles(w)
    <3> DEFINE s == [slot[w] EXCEPT !.pc = "settle", !.andThen = "observe"]
    <3>1. s \in Slot /\ s.pc = "settle" /\ s.exit = slot[w].exit
      BY <1>0 DEF Slot, SyncPc
    <3>2. SlotFits(s, rec') BY <1>0, <2>2, <3>1 DEF StopSettles, SlotFits
    <3>3. QED
      BY <1>2, <1>3, <2>2, <3>1, <3>2, QuietFits
         DEF StopSettles, StopQuiet, SlotFollows, QuietDecision, OthersKept
  <2>3. CASE Done(w)
    BY <1>2, <1>3, <2>3, DoneFits, QuietFits DEF StopQuiet, QuietDecision, OthersKept
  <2>4. CASE \E next \in {"observe", "consume"} : Enter(w, StopLoses(w, next))
    BY <1>2, <1>3, <2>1, <2>4, QuietFits DEF StopQuiet, QuietDecision, OthersKept
  <2>5. QED BY <1>3, <2>2, <2>3, <2>4 DEF StopQuiet
<1>4. ASSUME NEW v \in Anchors, StopSignals(w, v) PROVE StepFits
  <2>1. Preserves(rec, rec') /\ SeenFollows /\ launched' \in BOOLEAN
    <3> DEFINE r == IF exited THEN ActiveAnchors(rec, v) ELSE ToStopping(rec, v)
    <3>1. Preserves(rec, r) BY <1>0, ClosuresPreserve, Typed
    <3>2. CASE MutateRecord(m, r) BY <3>1, <3>2, MutateRecordFits
    <3>3. CASE UNCHANGED <<rec, seen, launched>>
      BY <3>3, Typed DEF SeenFollows, TypeOK
    <3>4. QED BY <1>4, <3>2, <3>3 DEF StopSignals
  <2>2. armed' \in [Manager -> BOOLEAN]
    BY <1>4, Typed DEF StopSignals, ClearPoll, TypeOK
  <2>3. OthersTyped BY <1>2, <2>1, <2>2, Typed DEF life, OthersTyped, TypeOK
  <2>4. SlotFollows
    <3>1. CASE Goto(w, "observe") BY <1>0, <3>1, GotoFits DEF SyncPc
    <3>2. CASE exited /\ Enter(w, [slot[w] EXCEPT !.pc = "killStop", !.anchors = v,
                                                  !.andThen = "observe"])
      <4> DEFINE s == [slot[w] EXCEPT !.pc = "killStop", !.anchors = v, !.andThen = "observe"]
      <4>1. s \in Slot /\ s.pc = "killStop" /\ s.exit = slot[w].exit
        BY <1>0 DEF Slot, SyncPc
      <4>2. SlotFits(s, rec') BY <1>0, <3>2, <4>1 DEF SlotFits
      <4>3. QED BY <3>2, <4>1, <4>2 DEF SlotFollows
    <3>3. CASE Enter(w, [slot[w] EXCEPT !.pc = "term", !.anchors = v,
                                        !.restore = TRUE, !.andThen = "observe"])
      <4> DEFINE s == [slot[w] EXCEPT !.pc = "term", !.anchors = v,
                                      !.restore = TRUE, !.andThen = "observe"]
      <4>1. s \in Slot /\ s.pc = "term" BY <1>0 DEF Slot, SyncPc
      <4>2. SlotFits(s, rec') BY <4>1 DEF SlotFits
      <4>3. QED BY <3>3, <4>1, <4>2 DEF SlotFollows
    <3>4. QED BY <1>4, <3>1, <3>2, <3>3 DEF StopSignals, Goto
  <2>5. QED BY <2>1, <2>3, <2>4 DEF StepFits
<1>5. QED BY <1>1, <1>3, <1>4, StopProbeShape

-----------------------------------------------------------------------------
\* Every step of the system.
LEMMA NextKeeps ==
  ASSUME LifecycleInv, [Next]_vars
  PROVE  LifecycleInv' /\ Keeps(rec, rec')
<1>1. CASE UNCHANGED vars
  <2>1. StepFits
    BY <1>1, Typed DEF vars, StepFits, SeenFollows, SlotFollows, OthersTyped, TypeOK
  <2>2. QED BY <2>1, FittingStep
<1>2. CASE Start
  BY <1>2, StartQuietFits, StartWritesFits, FittingStep DEF Start
<1>3. ASSUME NEW m \in Manager, InitScan(m) \/ Refresh(m) \/ Crash(m) \/ Detach(m)
      PROVE  LifecycleInv' /\ Keeps(rec, rec')
  BY <1>3, ScanFits, ReplaceFits, FittingStep
<1>4. ASSUME NEW w \in Worker, Poll(w)
      PROVE  LifecycleInv' /\ Keeps(rec, rec')
  BY <1>4, PollStartFits, ProbeFits, NaturalFits, SignalFits, MoveFits, SettleFits,
     RecoverStoppingFits, FittingStep DEF Poll
<1>5. ASSUME NEW w \in Worker, Finish(w)
      PROVE  LifecycleInv' /\ Keeps(rec, rec')
  BY <1>5, SignalFits, MoveFits, StopFailedFits, DisposedFits, SettleFits, FittingStep
     DEF Finish
<1>6. ASSUME NEW w \in Worker, Stop(w)
      PROVE  LifecycleInv' /\ Keeps(rec, rec')
  BY <1>6, StopCallFits, StopProbeFits, SignalFits, MoveFits, FittingStep DEF Stop
<1>7. ASSUME NEW w \in Worker, LockTimesOut(w)
      PROVE  LifecycleInv' /\ Keeps(rec, rec')
  BY <1>7, MoveFits, FittingStep
<1>8. CASE ChildClosed BY <1>8, ChildClosedFits, FittingStep
<1>9. CASE World BY <1>9, WorldFits, FittingStep
<1>10. QED
  BY <1>1, <1>2, <1>3, <1>4, <1>5, <1>6, <1>7, <1>8, <1>9 DEF Next

\* No record, no process and idle managers.
LEMMA InitFits == ASSUME Init PROVE LifecycleInv
<1>1. rec = NoRecord /\ WellFormed(rec) BY InitialWellFormed DEF Init
<1>2. rec \in TaskRecord /\ NoRecord.identity = FALSE BY <1>1 DEF WellFormed, NoRecord
<1>3. /\ slot \in [Worker -> Slot]
      /\ \A w \in Worker : SlotFits(slot[w], rec)
  BY FreshSlot DEF Init, SlotFits
<1>4. /\ seen \in [Manager -> TaskRecord]
      /\ \A m \in Manager : seen[m].identity => rec.identity
  BY <1>1, <1>2 DEF Init
<1>5. /\ tree \in Tree /\ launched \in BOOLEAN
      /\ exitFile \in {"unset", "zero", "nonzero"}
      /\ armed \in [Manager -> BOOLEAN] /\ anchor \in [Manager -> Anchors]
      /\ indexed \in [Manager -> BOOLEAN] /\ detached \in [Manager -> BOOLEAN]
      /\ start \in StartPc /\ child \in BOOLEAN
  BY DEF Init, Tree, Anchors, StartPc
<1>6. stops \in 0..MaxStops /\ replaced \in 0..MaxReplaced
  BY LifecycleAssumption DEF Init
<1>7. QED BY <1>1, <1>2, <1>3, <1>4, <1>5, <1>6 DEF LifecycleInv, TypeOK

\* The invariant holds of every behaviour.
THEOREM InvariantHolds == Spec => []LifecycleInv
BY InitFits, NextKeeps, PTL DEF Spec

\* Type correctness.
THEOREM TypesHold == Spec => []TypeOK
<1>1. LifecycleInv => TypeOK BY DEF LifecycleInv
<1>2. QED BY <1>1, InvariantHolds, PTL

\* Whatever the managers interleave, crash or leave undone, no record they
\* write is quarantined by the next scan of the store.
THEOREM RecordsParse == Spec => []RecordParses
<1>1. LifecycleInv => RecordParses BY DEF LifecycleInv, WellFormed, RecordParses
<1>2. QED BY <1>1, InvariantHolds, PTL

\* A settled terminal keeps its status, its exit code, its completion and its
\* suppression through every later poll, stop, recovery and failed launch.
THEOREM SettlementIsFinal == Spec => SettledIsFinal
<1>1. LifecycleInv /\ [Next]_vars =>
        [IsSettled(rec) =>
           /\ rec'.status = rec.status /\ rec'.exit = rec.exit /\ rec'.completion
           /\ rec.delivery = "suppressed" => rec'.delivery = "suppressed"]_vars
  BY NextKeeps DEF Keeps
<1>2. QED BY <1>1, InvariantHolds, PTL DEF Spec, SettledIsFinal

(***************************************************************************)
(* Part 2.                                                                 *)
(*                                                                         *)
(* The command never runs before its identity is durable                   *)
(* (CommandIsIdentified) and an outcome is recorded only for an empty      *)
(* process group (DisposedIsEmpty), for any number of managers, stops and  *)
(* crashes and for any combination of faults.                              *)
(*                                                                         *)
(* On top of LifecycleInv, LaunchInv and DisposalInv follow the launch     *)
(* gate, the process group and what each continuation has seen of it.      *)
(* Every action but those of terminal_start is shown to be a careful step  *)
(* (Careful).                                                              *)
(***************************************************************************)

Gone == {"empty", "reused"}
QuietPc == {"idle", "lost", "observe"}
SafetyInv == LifecycleInv /\ LaunchInv /\ DisposalInv

\* s neither gains an identity nor names an outcome that r did not.
Inert(r, s) ==
  /\ s.identity => r.identity
  /\ s.status \in Outcome => r.status \in Outcome

\* The group is neither spawned nor revived, no command is let through a closed
\* gate, and the number of a wrapper that is not reaped is not given away.
TreeCareful ==
  /\ tree' = "none" <=> tree = "none"
  /\ tree \in Gone => tree' \in Gone
  /\ tree' = "command" => tree = "command" \/ launched
  /\ tree' = "reused" => tree = "reused" \/ start \notin Unreaped

RecCareful ==
  /\ rec'.identity => rec.identity
  /\ rec'.status \in Outcome => rec.status \in Outcome \/ tree' \in Gone
  /\ launched' => launched \/ rec.identity

SlotCareful ==
  \/ slot' = slot
  \/ \E w \in Worker, s \in Slot :
       /\ Enter(w, s)
       /\ s.pc \notin QuietPc => tree # "none"
       /\ s.pc \in {"settle", "disposed"} => tree \in Gone

Careful == start' = start /\ TreeCareful /\ RecCareful /\ SlotCareful

-----------------------------------------------------------------------------
\* What a careful step establishes.
LEMMA CarefulSlots ==
  ASSUME SafetyInv, TreeCareful, SlotCareful
  PROVE  \A w \in Worker :
           /\ slot'[w].pc \notin QuietPc => tree' # "none"
           /\ slot'[w].pc \in {"settle", "disposed"} => tree' \in Gone
<1>1. \A w \in Worker :
        /\ slot[w].pc \notin QuietPc => tree # "none"
        /\ slot[w].pc \in {"settle", "disposed"} => tree \in Gone
  BY DEF SafetyInv, DisposalInv, QuietPc, Gone
<1>2. slot \in [Worker -> Slot] BY DEF SafetyInv, LifecycleInv, TypeOK
<1>3. \A w \in Worker :
        /\ slot'[w].pc \notin QuietPc => tree # "none"
        /\ slot'[w].pc \in {"settle", "disposed"} => tree \in Gone
  <2>1. CASE slot' = slot BY <1>1, <2>1
  <2>2. ASSUME NEW v \in Worker, NEW s \in Slot, Enter(v, s),
               s.pc \notin QuietPc => tree # "none",
               s.pc \in {"settle", "disposed"} => tree \in Gone
        PROVE  \A w \in Worker :
                 /\ slot'[w].pc \notin QuietPc => tree # "none"
                 /\ slot'[w].pc \in {"settle", "disposed"} => tree \in Gone
    <3>1. \A w \in Worker : slot'[w] = s \/ slot'[w] = slot[w]
      BY <1>2, <2>2 DEF Enter
    <3>2. QED BY <1>1, <2>2, <3>1
  <2>3. QED BY <2>1, <2>2 DEF SlotCareful
<1>4. QED BY <1>3 DEF TreeCareful

LEMMA CarefulKeeps ==
  ASSUME SafetyInv, [Next]_vars, Careful
  PROVE  SafetyInv'
<1>1. LifecycleInv' /\ (rec.identity => rec'.identity) /\ tree \in Tree /\ tree' \in Tree
  BY NextKeeps DEF SafetyInv, Keeps, LifecycleInv, TypeOK
<1>2. LaunchInv'
  BY <1>1 DEF SafetyInv, LaunchInv, Careful, TreeCareful, RecCareful
<1>3. \A w \in Worker :
        /\ slot'[w].pc \notin {"idle", "lost", "observe"} => tree' # "none"
        /\ slot'[w].pc \in {"settle", "disposed"} => tree' \in {"empty", "reused"}
  BY CarefulSlots DEF Careful, QuietPc, Gone
<1>4. tree \notin Alive => tree' \notin Alive
  BY <1>1 DEF Careful, TreeCareful, Gone, Tree, Alive, LeaderAlive
<1>5. rec'.status \in Outcome => tree' \notin Alive
  BY <1>4 DEF Careful, RecCareful, SafetyInv, DisposalInv, Gone, Alive, LeaderAlive
<1>6. /\ rec'.identity => tree' # "none"
      /\ start' \in {"ready", "spawn"} => tree' = "none" /\ rec'.status \notin Outcome
      /\ start' \notin {"ready", "spawn", "failLaunch", "ended"} => tree' # "none"
      /\ start' \in Unreaped => tree' # "reused"
      /\ start' = "failLaunch" => tree' \notin Alive
  BY <1>4 DEF Careful, TreeCareful, RecCareful, SafetyInv, DisposalInv, Gone
<1>7. DisposalInv' BY <1>3, <1>5, <1>6 DEF DisposalInv
<1>8. QED BY <1>1, <1>2, <1>7 DEF SafetyInv

\* A group that does not change.
LEMMA SameTree == ASSUME SafetyInv, tree' = tree PROVE TreeCareful
BY DEF TreeCareful, Gone

\* What the closures do to the identity and the status.
LEMMA ClosuresInert ==
  ASSUME NEW r \in TaskRecord
  PROVE  /\ Inert(r, RestoreRunning(r))
         /\ \A v : /\ Inert(r, RunningAnchors(r, v)) /\ Inert(r, StoppingAnchors(r, v))
                   /\ Inert(r, ActiveAnchors(r, v)) /\ Inert(r, ToStopping(r, v))
         /\ \A e, b : Inert(r, SettleLost(r, e, b))
         /\ \A b : Inert(r, Observe(r, b))
         /\ \A e : SettleNatural(r, e).identity = r.identity
         /\ SettleCancelled(r).identity = r.identity
<1>1. Inert(r, RestoreRunning(r))
  BY DEF Inert, RestoreRunning, TaskRecord, Outcome
<1>2. ASSUME NEW v
      PROVE  /\ Inert(r, RunningAnchors(r, v)) /\ Inert(r, StoppingAnchors(r, v))
             /\ Inert(r, ActiveAnchors(r, v)) /\ Inert(r, ToStopping(r, v))
  BY DEF Inert, RunningAnchors, StoppingAnchors, ActiveAnchors, ToStopping,
         TaskRecord, Outcome
<1>3. ASSUME NEW e, NEW b PROVE Inert(r, SettleLost(r, e, b))
  BY DEF Inert, SettleLost, Settle, TaskRecord, Outcome
<1>4. ASSUME NEW b PROVE Inert(r, Observe(r, b))
  BY DEF Inert, Observe, TaskRecord, Outcome
<1>5. /\ \A e : SettleNatural(r, e).identity = r.identity
      /\ SettleCancelled(r).identity = r.identity
  BY DEF SettleNatural, Settle, SettleCancelled, TaskRecord
<1>6. QED BY <1>1, <1>2, <1>3, <1>4, <1>5

\* A mutation lets a gate open only if the record already was running.
LEMMA MutateLaunches ==
  ASSUME SafetyInv, NEW m \in Manager, NEW r, MutateRecord(m, r)
  PROVE  rec' = r /\ (launched' => launched \/ rec.identity)
<1>1. rec.status = "running" => rec.identity
  BY DEF SafetyInv, LifecycleInv, WellFormed, Parses, IdentityParses
<1>2. QED BY <1>1 DEF MutateRecord, Recovers

\* A record written by an inert closure.
LEMMA InertMutation ==
  ASSUME SafetyInv, NEW m \in Manager, NEW r, Inert(rec, r), MutateRecord(m, r)
  PROVE  RecCareful
BY MutateLaunches DEF RecCareful, Inert

LEMMA SameRecord ==
  ASSUME SafetyInv, rec' = rec, launched' => launched \/ rec.identity PROVE RecCareful
BY DEF RecCareful

-----------------------------------------------------------------------------
\* Ways in which a continuation moves on.
LEMMA SlotTyped ==
  ASSUME SafetyInv, NEW w \in Worker
  PROVE  /\ slot[w] \in Slot
         /\ slot[w].pc \notin QuietPc => tree # "none"
         /\ slot[w].pc \in {"settle", "disposed"} => tree \in Gone
         /\ rec \in TaskRecord /\ Mgr(w) \in Manager
BY WorkerManager DEF SafetyInv, LifecycleInv, TypeOK, DisposalInv, QuietPc, Gone

LEMMA DoneCareful == ASSUME NEW w \in Worker, Done(w) PROVE SlotCareful
BY FreshSlot DEF Done, SlotCareful, QuietPc

LEMMA LostCareful ==
  ASSUME NEW w \in Worker, NEW s \in Slot, s.pc \in QuietPc, Enter(w, s) PROVE SlotCareful
BY DEF SlotCareful, QuietPc

LEMMA MoveCareful ==
  ASSUME NEW w \in Worker, NEW s \in Slot, Enter(w, s), tree # "none",
         s.pc \in {"settle", "disposed"} => tree \in Gone
  PROVE  SlotCareful
BY DEF SlotCareful

LEMMA GotoCareful ==
  ASSUME NEW w \in Worker, slot[w] \in Slot, NEW pc \in SyncPc \cup AwaitPc, Goto(w, pc),
         pc \notin QuietPc => tree # "none",
         pc \in {"settle", "disposed"} => tree \in Gone
  PROVE  SlotCareful
BY PcUpdate DEF Goto, SlotCareful

-----------------------------------------------------------------------------
LEMMA WorldCareful == ASSUME SafetyInv, World PROVE Careful
<1>1. TreeCareful
  BY DEF World, GateOpens, GateTimesOut, CommandExits, MembersDie, NumberReused,
         TreeCareful, Gone, Alive, LeaderAlive
<1>2. rec' = rec /\ launched' = launched /\ start' = start /\ slot' = slot
  BY DEF World, GateOpens, GateTimesOut, CommandExits, MembersDie, NumberReused, disk
<1>3. QED BY <1>1, <1>2, SameRecord DEF Careful, SlotCareful

LEMMA RecoverCareful ==
  ASSUME SafetyInv, NEW m \in Manager, InitScan(m) \/ Refresh(m) PROVE Careful
<1>1. rec.status = "running" => rec.identity
  BY DEF SafetyInv, LifecycleInv, WellFormed, Parses, IdentityParses
<1>2. rec' = rec /\ tree' = tree /\ start' = start /\ slot' = slot
  BY DEF InitScan, Refresh
<1>3. launched' => launched \/ rec.identity BY <1>1 DEF InitScan, Refresh, Recover
<1>4. QED BY <1>2, <1>3, SameTree, SameRecord DEF Careful, SlotCareful

LEMMA DetachCareful ==
  ASSUME SafetyInv, NEW m \in Manager, Detach(m) PROVE Careful
BY SameTree, SameRecord DEF Detach, disk, Careful, SlotCareful

\* A crash only ends terminal_start and idles the manager's continuations.
LEMMA CrashKeeps ==
  ASSUME SafetyInv, NEW m \in Manager, Crash(m), [Next]_vars PROVE SafetyInv'
<1>1. LifecycleInv' BY NextKeeps DEF SafetyInv
<1>2. rec' = rec /\ tree' = tree /\ launched' = launched BY DEF Crash, disk
<1>3. start' = start \/ start' = "ended" BY DEF Crash
<1>4. \A w \in Worker : slot'[w] = slot[w] \/ slot'[w] = IdleSlot BY DEF Crash
<1>5. \A w \in Worker :
        /\ slot'[w].pc \notin {"idle", "lost", "observe"} => tree' # "none"
        /\ slot'[w].pc \in {"settle", "disposed"} => tree' \in {"empty", "reused"}
  BY <1>2, <1>4, FreshSlot DEF SafetyInv, DisposalInv
<1>6. LaunchInv' BY <1>2, <1>3 DEF SafetyInv, LaunchInv
<1>7. DisposalInv' BY <1>2, <1>3, <1>5 DEF SafetyInv, DisposalInv,
                                            Unreaped, StartSync
<1>8. QED BY <1>1, <1>6, <1>7 DEF SafetyInv

LEMMA ReconcileCareful ==
  ASSUME SafetyInv, NEW w \in Worker, Reconcile(w) PROVE Careful
<1>1. rec' = rec /\ launched' = launched /\ tree' = tree /\ start' = start
  BY DEF Reconcile, disk
<1>2. slot[w] \in Slot /\ exitFile \in {"unset", "zero", "nonzero"}
  BY SlotTyped DEF SafetyInv, LifecycleInv, TypeOK
<1>3. rec.status \in {"running", "stopping"} => tree # "none"
  BY DEF SafetyInv, DisposalInv, LifecycleInv, WellFormed, Parses, IdentityParses
<1>4. SlotCareful
  <2>1. CASE slot' = slot BY <2>1 DEF SlotCareful
  <2>2. CASE Enter(w, [IdleSlot EXCEPT !.pc = "lost", !.exit = "null", !.suppress = TRUE])
    <3> DEFINE s == [IdleSlot EXCEPT !.pc = "lost", !.exit = "null", !.suppress = TRUE]
    <3>1. s \in Slot /\ s.pc = "lost" BY FreshSlot
    <3>2. QED BY <2>2, <3>1, LostCareful DEF QuietPc
  <2>3. CASE Goto(w, "recover") /\ rec.status = "stopping"
    BY <1>2, <1>3, <2>3, GotoCareful DEF SyncPc
  <2>4. CASE /\ rec.status = "running"
             /\ \E pc \in {"natural", "probe"} :
                  Enter(w, [[IdleSlot EXCEPT !.exit = exitFile] EXCEPT !.pc = pc])
    <3>1. PICK pc \in {"natural", "probe"} :
             Enter(w, [[IdleSlot EXCEPT !.exit = exitFile] EXCEPT !.pc = pc])
      BY <2>4
    <3> DEFINE i == [IdleSlot EXCEPT !.exit = exitFile]
               s == [i EXCEPT !.pc = pc]
    <3>2. i \in Slot BY <1>2, FreshExit DEF ExitCode
    <3>3. s \in Slot /\ s.pc = pc BY <3>2, PcUpdate DEF SyncPc
    <3>4. QED BY <1>3, <2>4, <3>1, <3>3, MoveCareful
  <2>5. QED BY <2>1, <2>2, <2>3, <2>4 DEF Reconcile
<1>5. QED BY <1>1, <1>4, SameTree, SameRecord DEF Careful

LEMMA PollStartCareful ==
  ASSUME SafetyInv, NEW w \in Worker, PollStart(w) PROVE Careful
BY ReconcileCareful DEF PollStart

LEMMA ChildClosedCareful == ASSUME SafetyInv, ChildClosed PROVE Careful
<1>1. <<Starter, "poll">> \in Worker BY LifecycleAssumption DEF Worker
<1>2. CASE Reconcile(<<Starter, "poll">>) BY <1>1, <1>2, ReconcileCareful
<1>3. CASE UNCHANGED <<disk, tree, local, indexed, detached, replaced, start, slot, stops>>
  BY <1>3, SameTree, SameRecord DEF disk, Careful, SlotCareful
<1>4. QED BY <1>2, <1>3 DEF ChildClosed

-----------------------------------------------------------------------------
\* A verified signal never reaches a group that is gone.
LEMMA SignalCareful ==
  ASSUME SafetyInv, NEW w \in Worker,
         KillNat(w) \/ KillStop(w) \/ Term(w) \/ Kill(w)
  PROVE  Careful
<1>1. PICK from \in {"killNat", "killStop", "term", "kill"},
           after \in {AfterTerm, AfterKill},
           await \in {"waitNat", "waitStop", "waitTerm", "waitKill"} :
        SignalStep(w, from, after, await)
  BY DEF KillNat, KillStop, Term, Kill
<1>2. PICK o \in SignalOutcomes(slot[w].anchors, after) :
        tree' = o[2] /\ Enter(w, [slot[w] EXCEPT !.pc = await, !.sig = o[1]])
  BY <1>1 DEF SignalStep
<1>3. tree # "none" /\ slot[w] \in Slot
  BY <1>1, SlotTyped DEF SignalStep, QuietPc
<1>4. \A v : VerifiedAnswers(v) \subseteq {"same", "different", "unknown"}
  BY DEF VerifiedAnswers, Known, IdentityAnswers, AnchorAnswers
<1>5. tree \in Gone => \A v : "same" \notin VerifiedAnswers(v)
  BY DEF VerifiedAnswers, Known, IdentityAnswers, AnchorAnswers, Gone, LeaderAlive
<1>6. PICK i \in VerifiedAnswers(slot[w].anchors) :
        o \in IF i = "same"
              THEN {<<"sent", t>> : t \in after} \cup
                   (IF "probe" \in Faults THEN {<<"failed", tree>>} ELSE {})
              ELSE {<<i, tree>>}
  BY DEF SignalOutcomes
<1>7. /\ o[1] \in Signal
      /\ o[2] = tree \/ (i = "same" /\ o[2] \in after)
  <2>1. CASE i = "same" BY <1>6, <2>1 DEF Signal
  <2>2. CASE i # "same" BY <1>4, <1>6, <2>2 DEF Signal
  <2>3. QED BY <2>1, <2>2
<1>8. after \subseteq {"empty", "orphans", tree} BY DEF AfterTerm, AfterKill
<1>9. TreeCareful
  BY <1>2, <1>3, <1>5, <1>6, <1>7, <1>8 DEF TreeCareful, Gone
<1>10. SlotCareful
  <2> DEFINE s == [slot[w] EXCEPT !.pc = await, !.sig = o[1]]
  <2>1. s \in Slot /\ s.pc = await BY <1>3, <1>7 DEF Slot, AwaitPc
  <2>2. QED BY <1>2, <1>3, <2>1, MoveCareful
<1>11. rec' = rec /\ launched' = launched /\ start' = start
  BY <1>1 DEF SignalStep, disk
<1>12. QED BY <1>9, <1>10, <1>11, SameRecord DEF Careful

\* A continuation that only moves on, or ends.
LEMMA WaitCareful ==
  ASSUME SafetyInv, NEW w \in Worker,
         \/ WaitNat(w) \/ WaitTerm(w) \/ WaitKill(w) \/ WaitStop(w)
         \/ SignalFailed(w) \/ LockTimesOut(w)
  PROVE  Careful
<1>1. rec' = rec /\ launched' = launched /\ tree' = tree /\ start' = start
  BY DEF WaitNat, WaitTerm, WaitKill, WaitStop, SignalFailed, LockTimesOut, disk
<1>2. slot[w] \in Slot BY SlotTyped
<1>3. SlotCareful
  <2>1. CASE LockTimesOut(w) BY <2>1, DoneCareful DEF LockTimesOut
  <2>2. CASE ~LockTimesOut(w)
    <3>1. tree # "none"
      BY <2>2, SlotTyped
         DEF WaitNat, WaitTerm, WaitKill, WaitStop, SignalFailed, QuietPc
    <3>2. TreeEmpty => tree \in Gone BY <3>1 DEF TreeEmpty, Gone
    <3>3. CASE Done(w) BY <3>3, DoneCareful
    <3>4. CASE \E pc \in {"settle", "disposed"} : Goto(w, pc) /\ TreeEmpty
      BY <1>2, <3>1, <3>2, <3>4, GotoCareful DEF SyncPc
    <3>5. CASE \E pc \in {"signalFailed", "failed"} : Goto(w, pc)
      BY <1>2, <3>1, <3>5, GotoCareful DEF SyncPc
    <3>6. CASE Enter(w, [slot[w] EXCEPT !.pc = "kill", !.restore = FALSE,
                                        !.andThen = "nothing"])
      <4> DEFINE s == [slot[w] EXCEPT !.pc = "kill", !.restore = FALSE, !.andThen = "nothing"]
      <4>1. s \in Slot /\ s.pc = "kill" BY <1>2 DEF Slot, SyncPc
      <4>2. QED BY <3>1, <3>6, <4>1, MoveCareful
    <3>7. CASE Enter(w, [slot[w] EXCEPT !.pc = "lost", !.exit = "null"])
      <4> DEFINE s == [slot[w] EXCEPT !.pc = "lost", !.exit = "null"]
      <4>1. s \in Slot /\ s.pc = "lost" BY <1>2 DEF Slot, SyncPc, ExitCode
      <4>2. QED BY <3>7, <4>1, LostCareful DEF QuietPc
    <3>8. QED
      BY <2>2, <3>3, <3>4, <3>5, <3>6, <3>7
         DEF WaitNat, WaitTerm, WaitKill, WaitStop, SignalFailed
  <2>3. QED BY <2>1, <2>2
<1>4. QED BY <1>1, <1>3, SameTree, SameRecord DEF Careful

-----------------------------------------------------------------------------
LEMMA SettleCareful ==
  ASSUME SafetyInv, NEW w \in Worker, SettleNat(w) \/ Lost(w) \/ ObserveSettled(w)
  PROVE  Careful
<1>1. tree' = tree /\ start' = start BY DEF SettleNat, Lost, ObserveSettled
<1>2. /\ slot[w] \in Slot /\ rec \in TaskRecord /\ Mgr(w) \in Manager
      /\ slot[w].pc \in {"settle", "disposed"} => tree \in Gone
  BY SlotTyped
<1>3. SlotCareful
  <2>1. CASE Done(w) BY <2>1, DoneCareful
  <2>2. CASE Goto(w, "observe") BY <1>2, <2>2, GotoCareful DEF QuietPc, SyncPc
  <2>3. QED BY <2>1, <2>2 DEF SettleNat, Lost, ObserveSettled
<1>4. RecCareful
  <2>1. CASE SettleNat(w)
    <3>1. tree' \in Gone BY <1>1, <1>2, <2>1 DEF SettleNat
    <3>2. rec'.identity = rec.identity /\ (launched' => launched \/ rec.identity)
      BY <1>2, <2>1, ClosuresInert, MutateLaunches DEF SettleNat, Mutate
    <3>3. QED BY <3>1, <3>2 DEF RecCareful
  <2>2. CASE Lost(w)
    BY <1>2, <2>2, ClosuresInert, InertMutation DEF Lost, Mutate
  <2>3. CASE ObserveSettled(w)
    BY <1>2, <2>3, ClosuresInert, InertMutation DEF ObserveSettled, Mutate
  <2>4. QED BY <2>1, <2>2, <2>3
<1>5. QED BY <1>1, <1>3, <1>4, SameTree DEF Careful

LEMMA ProbeCareful == ASSUME SafetyInv, NEW w \in Worker, Probe(w) PROVE Careful
<1>1. tree' = tree /\ start' = start BY DEF Probe
<1>2. rec \in TaskRecord /\ Mgr(w) \in Manager BY SlotTyped
<1>3. SlotCareful
  <2> DEFINE s == [IdleSlot EXCEPT !.pc = "lost", !.exit = "null"]
  <2>1. s \in Slot /\ s.pc = "lost" BY FreshSlot
  <2>2. CASE Enter(w, s) BY <2>1, <2>2, LostCareful DEF QuietPc
  <2>3. CASE Done(w) BY <2>3, DoneCareful
  <2>4. QED BY <2>2, <2>3 DEF Probe
<1>4. RecCareful
  <2>1. CASE UNCHANGED <<rec, seen, launched, armed>> BY <2>1, SameRecord
  <2>2. CASE \E v : Mutate(Mgr(w), RunningAnchors(rec, v))
    BY <1>2, <2>2, ClosuresInert, InertMutation DEF Mutate
  <2>3. QED BY <2>1, <2>2 DEF Probe
<1>5. QED BY <1>1, <1>3, <1>4, SameTree DEF Careful

LEMMA NaturalCareful == ASSUME SafetyInv, NEW w \in Worker, Natural(w) PROVE Careful
<1>1. tree' = tree /\ start' = start BY DEF Natural
<1>2. /\ slot[w] \in Slot /\ rec \in TaskRecord /\ Mgr(w) \in Manager /\ tree # "none"
  BY SlotTyped DEF Natural, QuietPc
<1>3. RecCareful
  <2>1. CASE rec' = rec /\ launched' = launched BY <2>1, SameRecord
  <2>2. CASE \E v : Mutate(Mgr(w), RunningAnchors(rec, v))
    BY <1>2, <2>2, ClosuresInert, InertMutation DEF Mutate
  <2>3. QED BY <2>1, <2>2 DEF Natural, disk
<1>4. SlotCareful
  <2>1. CASE Done(w) BY <2>1, DoneCareful
  <2>2. CASE Goto(w, "settle") /\ TreeEmpty
    BY <1>2, <2>2, GotoCareful DEF TreeEmpty, Gone, SyncPc
  <2>3. CASE Goto(w, "lost") BY <1>2, <2>3, GotoCareful DEF QuietPc, SyncPc
  <2>4. CASE \E v \in Anchors :
               Enter(w, [slot[w] EXCEPT !.pc = "killNat", !.anchors = v])
    <3>1. PICK v \in Anchors : Enter(w, [slot[w] EXCEPT !.pc = "killNat", !.anchors = v])
      BY <2>4
    <3> DEFINE s == [slot[w] EXCEPT !.pc = "killNat", !.anchors = v]
    <3>2. s \in Slot /\ s.pc = "killNat" BY <1>2 DEF Slot, SyncPc
    <3>3. QED BY <1>2, <3>1, <3>2, MoveCareful
  <2>5. rec.anchors \in Anchors /\ anchor[Mgr(w)] \in Anchors
    BY <1>2 DEF SafetyInv, LifecycleInv, TypeOK, TaskRecord
  <2>6. CaptureAnswers \subseteq Anchors BY DEF CaptureAnswers, Anchors
  <2>7. QED BY <2>1, <2>2, <2>3, <2>4, <2>5, <2>6 DEF Natural
<1>5. QED BY <1>1, <1>3, <1>4, SameTree DEF Careful

LEMMA RecoverStoppingCareful ==
  ASSUME SafetyInv, NEW w \in Worker, RecoverStopping(w) PROVE Careful
<1>1. tree' = tree /\ start' = start BY DEF RecoverStopping
<1>2. /\ slot[w] \in Slot /\ rec \in TaskRecord /\ Mgr(w) \in Manager /\ tree # "none"
  BY SlotTyped DEF RecoverStopping, QuietPc
<1>3. RecCareful
  <2>1. CASE rec' = rec /\ launched' = launched BY <2>1, SameRecord
  <2>2. CASE \E v : Mutate(Mgr(w), StoppingAnchors(rec, v))
    BY <1>2, <2>2, ClosuresInert, InertMutation DEF Mutate
  <2>3. QED BY <2>1, <2>2 DEF RecoverStopping, disk
<1>4. SlotCareful
  <2>1. CASE Done(w) BY <2>1, DoneCareful
  <2>2. CASE Goto(w, "disposed") /\ TreeEmpty
    BY <1>2, <2>2, GotoCareful DEF TreeEmpty, Gone, SyncPc
  <2>3. CASE Enter(w, [IdleSlot EXCEPT !.pc = "lost", !.exit = "null"])
    <3> DEFINE s == [IdleSlot EXCEPT !.pc = "lost", !.exit = "null"]
    <3>1. s \in Slot /\ s.pc = "lost" BY FreshSlot
    <3>2. QED BY <2>3, <3>1, LostCareful DEF QuietPc
  <2>4. CASE \E v \in Anchors : Enter(w, [IdleSlot EXCEPT !.pc = "term", !.anchors = v])
    <3>1. PICK v \in Anchors : Enter(w, [IdleSlot EXCEPT !.pc = "term", !.anchors = v])
      BY <2>4
    <3> DEFINE s == [IdleSlot EXCEPT !.pc = "term", !.anchors = v]
    <3>2. s \in Slot /\ s.pc = "term" BY FreshSlot
    <3>3. QED BY <1>2, <3>1, <3>2, MoveCareful
  <2>5. rec.anchors \in Anchors /\ rec'.anchors \in Anchors
    <3>1. rec.anchors \in Anchors BY <1>2 DEF TaskRecord
    <3>2. CaptureAnswers \subseteq Anchors BY DEF CaptureAnswers, Anchors
    <3>3. ASSUME NEW v \in Anchors PROVE StoppingAnchors(rec, v).anchors \in Anchors
      BY <1>2 DEF StoppingAnchors, TaskRecord
    <3>4. QED
      BY <1>2, <3>1, <3>2, <3>3 DEF RecoverStopping, Mutate, MutateRecord, disk
  <2>6. QED BY <2>1, <2>2, <2>3, <2>4, <2>5 DEF RecoverStopping
<1>5. QED BY <1>1, <1>3, <1>4, SameTree DEF Careful

LEMMA StopFailedCareful == ASSUME SafetyInv, NEW w \in Worker, StopFailed(w) PROVE Careful
<1>1. tree' = tree /\ start' = start /\ Done(w) BY DEF StopFailed
<1>2. rec \in TaskRecord /\ Mgr(w) \in Manager BY SlotTyped
<1>3. RecCareful
  <2>1. CASE UNCHANGED <<rec, seen, launched>> BY <2>1, SameRecord
  <2>2. CASE MutateRecord(Mgr(w), RestoreRunning(rec))
    BY <1>2, <2>2, ClosuresInert, InertMutation
  <2>3. QED BY <2>1, <2>2 DEF StopFailed
<1>4. QED BY <1>1, <1>3, DoneCareful, SameTree DEF Careful

LEMMA DisposedCareful == ASSUME SafetyInv, NEW w \in Worker, Disposed(w) PROVE Careful
<1>1. tree' = tree /\ start' = start BY DEF Disposed
<1>2. /\ slot[w] \in Slot /\ rec \in TaskRecord /\ Mgr(w) \in Manager
      /\ tree \in Gone /\ exitFile \in ExitCode
  BY SlotTyped DEF Disposed, SafetyInv, LifecycleInv, TypeOK, ExitCode
<1>3. CASE exitFile # "unset"
  <2> DEFINE s == [slot[w] EXCEPT !.pc = "settle", !.exit = exitFile, !.andThen = "observe"]
  <2>1. s \in Slot /\ s.pc = "settle" BY <1>2 DEF Slot, SyncPc
  <2>2. SlotCareful BY <1>2, <1>3, <2>1, MoveCareful DEF Disposed, Gone
  <2>3. RecCareful BY <1>3, SameRecord DEF Disposed
  <2>4. QED BY <1>1, <2>2, <2>3, SameTree DEF Careful
<1>4. CASE exitFile = "unset"
  <2>1. SlotCareful BY <1>4, DoneCareful DEF Disposed
  <2>2. rec'.identity = rec.identity /\ (launched' => launched \/ rec.identity)
    BY <1>2, <1>4, ClosuresInert, MutateLaunches DEF Disposed, Mutate
  <2>3. RecCareful BY <1>1, <1>2, <2>2 DEF RecCareful
  <2>4. QED BY <1>1, <2>1, <2>3, SameTree DEF Careful
<1>5. QED BY <1>3, <1>4

LEMMA StopCallCareful == ASSUME SafetyInv, NEW w \in Worker, StopCall(w) PROVE Careful
<1>1. rec' = rec /\ launched' = launched /\ tree' = tree /\ start' = start
  BY DEF StopCall, disk
<1>2. slot[w] \in Slot /\ Mgr(w) \in Manager /\ exitFile \in ExitCode
  BY SlotTyped DEF SafetyInv, LifecycleInv, TypeOK, ExitCode
<1>3. SlotCareful
  <2>1. CASE slot' = slot BY <2>1 DEF SlotCareful
  <2>2. CASE Goto(w, "observe") BY <1>2, <2>2, GotoCareful DEF QuietPc, SyncPc
  <2>3. CASE /\ seen[Mgr(w)].identity
             /\ Enter(w, [IdleSlot EXCEPT !.pc = "stopProbe", !.exit = exitFile])
    <3> DEFINE s == [IdleSlot EXCEPT !.pc = "stopProbe", !.exit = exitFile]
    <3>1. s \in Slot /\ s.pc = "stopProbe" BY <1>2, FreshSlot
    <3>2. tree # "none" BY <1>2, <2>3 DEF SafetyInv, LifecycleInv, DisposalInv
    <3>3. QED BY <2>3, <3>1, <3>2, MoveCareful
  <2>4. QED BY <2>1, <2>2, <2>3 DEF StopCall
<1>4. QED BY <1>1, <1>3, SameTree, SameRecord DEF Careful

LEMMA StopProbeCareful == ASSUME SafetyInv, NEW w \in Worker, StopProbe(w) PROVE Careful
<1>1. tree' = tree /\ start' = start BY DEF StopProbe
<1>2. /\ slot[w] \in Slot /\ rec \in TaskRecord /\ Mgr(w) \in Manager /\ tree # "none"
  BY SlotTyped DEF StopProbe, QuietPc
<1>3. seen[Mgr(w)].anchors \in Anchors /\ anchor[Mgr(w)] \in Anchors
  BY <1>2 DEF SafetyInv, LifecycleInv, TypeOK, TaskRecord
<1>4. CASE StopQuiet(w)
  <2>1. RecCareful BY <1>4, SameRecord DEF StopQuiet
  <2>2. SlotCareful
    <3>1. CASE Done(w) BY <3>1, DoneCareful
    <3>2. CASE StopSettles(w)
      <4> DEFINE s == [slot[w] EXCEPT !.pc = "settle", !.andThen = "observe"]
      <4>1. s \in Slot /\ s.pc = "settle" BY <1>2 DEF Slot, SyncPc
      <4>2. tree \in Gone BY <1>2, <3>2 DEF StopSettles, TreeEmpty, Gone
      <4>3. QED BY <1>2, <3>2, <4>1, <4>2, MoveCareful DEF StopSettles
    <3>3. ASSUME NEW next \in {"observe", "consume"}, Enter(w, StopLoses(w, next))
          PROVE  SlotCareful
      <4>1. StopLoses(w, next) \in Slot /\ StopLoses(w, next).pc = "lost"
        BY <1>2 DEF StopLoses, Slot, SyncPc, ExitCode
      <4>2. QED BY <3>3, <4>1, LostCareful DEF QuietPc
    <3>4. QED BY <1>4, <3>1, <3>2, <3>3 DEF StopQuiet
  <2>3. QED BY <1>1, <2>1, <2>2, SameTree DEF Careful
<1>5. ASSUME NEW v \in Anchors, StopSignals(w, v) PROVE Careful
  <2>1. RecCareful
    <3>1. CASE rec' = rec /\ launched' = launched BY <3>1, SameRecord
    <3>2. CASE MutateRecord(Mgr(w), ActiveAnchors(rec, v))
      BY <1>2, <3>2, ClosuresInert, InertMutation
    <3>3. CASE MutateRecord(Mgr(w), ToStopping(rec, v))
      BY <1>2, <3>3, ClosuresInert, InertMutation
    <3>4. QED BY <1>5, <3>1, <3>2, <3>3 DEF StopSignals
  <2>2. SlotCareful
    <3>1. CASE Goto(w, "observe") BY <1>2, <3>1, GotoCareful DEF QuietPc, SyncPc
    <3>2. CASE Enter(w, [slot[w] EXCEPT !.pc = "killStop", !.anchors = v,
                                        !.andThen = "observe"])
      <4> DEFINE s == [slot[w] EXCEPT !.pc = "killStop", !.anchors = v,
                                      !.andThen = "observe"]
      <4>1. s \in Slot /\ s.pc = "killStop" BY <1>2 DEF Slot, SyncPc
      <4>2. QED BY <1>2, <3>2, <4>1, MoveCareful
    <3>3. CASE Enter(w, [slot[w] EXCEPT !.pc = "term", !.anchors = v,
                                        !.restore = TRUE, !.andThen = "observe"])
      <4> DEFINE s == [slot[w] EXCEPT !.pc = "term", !.anchors = v,
                                      !.restore = TRUE, !.andThen = "observe"]
      <4>1. s \in Slot /\ s.pc = "term" BY <1>2 DEF Slot, SyncPc
      <4>2. QED BY <1>2, <3>3, <4>1, MoveCareful
    <3>4. QED BY <1>5, <3>1, <3>2, <3>3 DEF StopSignals, Goto
  <2>3. QED BY <1>1, <2>1, <2>2, SameTree DEF Careful
<1>6. QED BY <1>3, <1>4, <1>5, StopProbeShape

-----------------------------------------------------------------------------
\* terminal_start spawns the group, makes it known and opens its gate.
LEMMA StartKeeps == ASSUME SafetyInv, Start, [Next]_vars PROVE SafetyInv'
<1>1. LifecycleInv' /\ (rec.identity => rec'.identity) /\ rec \in TaskRecord
  BY NextKeeps DEF SafetyInv, Keeps, LifecycleInv, TypeOK
<1>2. slot' = slot /\ \A w \in Worker :
        /\ slot[w].pc \notin {"idle", "lost", "observe"} => tree # "none"
        /\ slot[w].pc \in {"settle", "disposed"} => tree \in {"empty", "reused"}
  BY DEF SafetyInv, DisposalInv, Start, StartCreate, StartSpawn, StartIdentify,
         StartPersist, StartFreshTerm, StartFreshKill, StartRelease, StartUnlaunch,
         StartFailLaunch
<1>3. Starter \in Manager BY LifecycleAssumption
<1>4. CASE StartCreate
  <2>1. rec'.status = "starting" /\ rec'.identity = FALSE
    BY <1>4 DEF StartCreate, Initial, NoRecord
  <2>2. tree' = tree /\ launched' = launched /\ start' = "spawn" /\ start = "ready"
    BY <1>4 DEF StartCreate
  <2>3. rec.identity = FALSE
    BY <1>4 DEF StartCreate, SafetyInv, LifecycleInv, WellFormed, NoRecord
  <2>4. LaunchInv' BY <2>1, <2>2, <2>3 DEF SafetyInv, LaunchInv
  <2>5. DisposalInv'
    BY <1>2, <2>1, <2>2 DEF SafetyInv, DisposalInv, Outcome
  <2>6. QED BY <1>1, <2>4, <2>5 DEF SafetyInv
<1>5. CASE StartSpawn
  <2>1. rec' = rec /\ launched' = launched /\ start = "spawn"
    BY <1>5 DEF StartSpawn, disk
  <2>2. \/ tree' = "gate" /\ start' = "identify"
        \/ tree' = tree /\ start' = "failLaunch"
    BY <1>5 DEF StartSpawn
  <2>3. LaunchInv' BY <2>1, <2>2 DEF SafetyInv, LaunchInv
  <2>4. DisposalInv'
    BY <1>2, <2>1, <2>2 DEF SafetyInv, DisposalInv, Outcome, Alive, LeaderAlive
  <2>5. QED BY <1>1, <2>3, <2>4 DEF SafetyInv
<1>6. CASE StartIdentify
  <2>1. /\ rec' = rec /\ launched' = launched /\ tree' = tree
        /\ start = "identify" /\ start' \in {"freshFail", "persist"}
    BY <1>6 DEF StartIdentify, disk
  <2>2. QED BY <1>1, <1>2, <2>1 DEF SafetyInv, LaunchInv, DisposalInv,
                            Unreaped, StartSync
<1>7. CASE StartPersist
  <2>1. tree' = tree /\ start = "persist" /\ start' \in {"release", "freshEnd"}
    BY <1>7 DEF StartPersist
  <2>2. CASE Mutate(Starter, ToRunning(rec))
    <3>1. rec' = ToRunning(rec) /\ (launched' => launched \/ rec.identity)
      BY <1>3, <2>2, MutateLaunches DEF Mutate
    <3>2. /\ rec'.status \in Outcome => rec.status \in Outcome
          /\ rec.status = "starting" => rec'.identity
      BY <1>1, <3>1 DEF ToRunning, TaskRecord, Outcome
    <3>3. start' = "release" => rec.status = "starting" BY <1>7 DEF StartPersist
    <3>4. LaunchInv' BY <1>1, <2>1, <3>1, <3>2, <3>3 DEF SafetyInv, LaunchInv
    <3>5. DisposalInv' BY <1>2, <2>1, <3>2 DEF SafetyInv, DisposalInv,
                                            Unreaped, StartSync
    <3>6. QED BY <1>1, <3>4, <3>5 DEF SafetyInv
  <2>3. CASE start' = "freshEnd" /\ rec' = rec /\ launched' = launched
    BY <1>1, <1>2, <2>1, <2>3 DEF SafetyInv, LaunchInv, DisposalInv,
                            Unreaped, StartSync
  <2>4. QED BY <1>7, <2>2, <2>3 DEF StartPersist
<1>8. CASE StartFreshTerm \/ StartFreshKill \/ StartUnlaunch
  <2>1. rec' = rec /\ launched' = launched
    BY <1>8 DEF StartFreshTerm, StartFreshKill, StartUnlaunch, disk
  <2>2. /\ tree' = tree \/ (tree \in Alive /\ tree' \in {"empty", "orphans"})
           \/ (tree = "reused" /\ tree' = "empty")
        /\ start \in {"freshFail", "freshEnd", "killFail", "killEnd", "unlaunch"}
        /\ start' \in {"killFail", "killEnd", "failLaunch", "ended", "unlaunch"}
        /\ start' = "failLaunch" => tree' = "empty"
    <3>1. tree \in Tree /\ tree # "none"
      BY <1>8 DEF StartFreshTerm, StartFreshKill, StartUnlaunch, SafetyInv, LifecycleInv,
                  TypeOK, DisposalInv
    <3>2. CASE StartFreshTerm \/ StartFreshKill
      BY <3>1, <3>2 DEF StartFreshTerm, StartFreshKill, AfterTerm, AfterKill, Tree, Alive,
                        LeaderAlive
    <3>3. CASE StartUnlaunch BY <3>3 DEF StartUnlaunch, Alive, LeaderAlive
    <3>4. QED BY <1>8, <3>2, <3>3
  <2>3. LaunchInv' BY <2>1, <2>2 DEF SafetyInv, LaunchInv
  <2>4. DisposalInv'
    BY <1>2, <2>1, <2>2 DEF SafetyInv, DisposalInv, Unreaped, StartSync, Alive, LeaderAlive
  <2>5. QED BY <1>1, <2>3, <2>4 DEF SafetyInv
<1>9. CASE StartRelease
  <2>1. rec' = rec /\ tree' = tree /\ start = "release" /\ start' \in {"unlaunch", "ended"}
    BY <1>9 DEF StartRelease
  <2>2. QED BY <1>1, <1>2, <2>1 DEF SafetyInv, LaunchInv, DisposalInv,
                            Unreaped, StartSync
<1>10. CASE StartFailLaunch
  <2>1. tree' = tree /\ start = "failLaunch" /\ start' = "ended" BY <1>10 DEF StartFailLaunch
  <2>2. rec' = SettleFailedLaunch(rec) /\ (launched' => launched \/ rec.identity)
    BY <1>3, <1>10, MutateLaunches DEF StartFailLaunch, Mutate
  <2>3. rec'.identity = rec.identity
    BY <1>1, <2>2 DEF SettleFailedLaunch, TaskRecord
  <2>4. LaunchInv' BY <2>1, <2>2, <2>3 DEF SafetyInv, LaunchInv
  <2>5. DisposalInv' BY <1>2, <2>1, <2>3 DEF SafetyInv, DisposalInv,
                                            Unreaped, StartSync
  <2>6. QED BY <1>1, <2>4, <2>5 DEF SafetyInv
<1>11. QED
  BY <1>4, <1>5, <1>6, <1>7, <1>8, <1>9, <1>10 DEF Start

-----------------------------------------------------------------------------
LEMMA NextSafe == ASSUME SafetyInv, [Next]_vars PROVE SafetyInv'
<1>1. CASE UNCHANGED vars
  BY <1>1, SameTree, SameRecord, CarefulKeeps DEF vars, Careful, SlotCareful
<1>2. CASE Start BY <1>2, StartKeeps
<1>3. ASSUME NEW m \in Manager, InitScan(m) \/ Refresh(m) \/ Crash(m) \/ Detach(m)
      PROVE  SafetyInv'
  BY <1>3, RecoverCareful, DetachCareful, CrashKeeps, CarefulKeeps
<1>4. ASSUME NEW w \in Worker, Poll(w) PROVE SafetyInv'
  BY <1>4, PollStartCareful, ProbeCareful, NaturalCareful, SignalCareful, WaitCareful,
     SettleCareful, RecoverStoppingCareful, CarefulKeeps DEF Poll
<1>5. ASSUME NEW w \in Worker, Finish(w) PROVE SafetyInv'
  BY <1>5, SignalCareful, WaitCareful, StopFailedCareful, DisposedCareful,
     SettleCareful, CarefulKeeps DEF Finish
<1>6. ASSUME NEW w \in Worker, Stop(w) PROVE SafetyInv'
  BY <1>6, StopCallCareful, StopProbeCareful, SignalCareful, WaitCareful,
     CarefulKeeps DEF Stop
<1>7. ASSUME NEW w \in Worker, LockTimesOut(w) PROVE SafetyInv'
  BY <1>7, WaitCareful, CarefulKeeps
<1>8. CASE ChildClosed BY <1>8, ChildClosedCareful, CarefulKeeps
<1>9. CASE World BY <1>9, WorldCareful, CarefulKeeps
<1>10. QED
  BY <1>1, <1>2, <1>3, <1>4, <1>5, <1>6, <1>7, <1>8, <1>9 DEF Next

LEMMA InitSafe == ASSUME Init PROVE SafetyInv
<1>1. rec = NoRecord /\ NoRecord.identity = FALSE /\ NoRecord.status = "absent"
  BY DEF Init, NoRecord
<1>2. LaunchInv BY DEF Init, LaunchInv
<1>3. DisposalInv
  BY <1>1, FreshSlot DEF Init, DisposalInv, Outcome
<1>4. QED BY <1>2, <1>3, InitFits DEF SafetyInv

\* The three invariants hold together in every behaviour.
THEOREM SafetyHolds == Spec => []SafetyInv
BY InitSafe, NextSafe, PTL DEF Spec

\* No launch gate is opened, by terminal_start, by a recovery or by a no-op
\* mutation, before the identity of the process group is durable.
THEOREM CommandsAreIdentified == Spec => []CommandIsIdentified
<1>1. SafetyInv => CommandIsIdentified
  BY DEF SafetyInv, LaunchInv, CommandIsIdentified
<1>2. QED BY <1>1, SafetyHolds, PTL

\* Completed, failed and cancelled are recorded only for an empty process group,
\* whatever other managers, signals and crashes come in between.
THEOREM DisposedIsEmptyHolds == Spec => []DisposedIsEmpty
<1>1. SafetyInv => DisposedIsEmpty
  BY DEF SafetyInv, DisposalInv, DisposedIsEmpty
<1>2. QED BY <1>1, SafetyHolds, PTL

(***************************************************************************)
(* Part 3.                                                                 *)
(*                                                                         *)
(* Natural evidence wins (EvidenceAgrees), the process that inherits the   *)
(* number of the group is never signalled (StrangerUnharmed), and, when no *)
(* start outlives its grace, a terminal recorded lost does not run its     *)
(* command (LostIsNotRunning): for any number of managers, stops, crashes. *)
(*                                                                         *)
(* On top of SafetyInv, EvidenceInv ties the exit code a continuation      *)
(* carries to the file and to the process group, and LostInv ties the      *)
(* verdict "different" to a dead leader.  Every action but the one that    *)
(* writes the exit code is shown to be an honest step (Honest).            *)
(***************************************************************************)

Written == {"zero", "nonzero"}          \* the codes a command can write
Unwritten == {"none", "gate", "command"} \* the group before it wrote one
Dead == {"orphans", "empty", "reused"}  \* the group's leader is gone for good

\* The code a continuation carries is the one on disk.
EvidenceInv ==
  /\ tree \in Unwritten => exitFile = "unset"
  /\ \A w \in Worker : slot[w].exit \in Written => slot[w].exit = exitFile
  /\ EvidenceAgrees

\* Only a dead leader is told apart from the persisted identity, and only a
\* terminal with a dead leader is, or is about to be, recorded lost.
LostInv ==
  "lease" \notin Faults =>
    /\ rec.status = "lost" => tree \in Dead
    /\ \A w \in Worker : slot[w].pc = "lost" \/ slot[w].sig = "different" => tree \in Dead

HonestInv == SafetyInv /\ EvidenceInv /\ LostInv

\* What a continuation may hold.
SlotHonest(s) ==
  /\ s.exit \in Written => s.exit = exitFile
  /\ "lease" \notin Faults /\ (s.pc = "lost" \/ s.sig = "different") => tree \in Dead

\* The group neither forgets its code nor its death, and nobody reaches a stranger
\* but the KILL that asks for no identity.
TreeHonest ==
  /\ tree' \in Unwritten => tree \in Unwritten
  /\ tree \in Dead => tree' \in Dead
  /\ tree = "reused" => tree' = "reused" \/ StartFreshKill

\* A first settlement is backed by what is on disk and by the group.
RecHonest ==
  ~IsSettled(rec) =>
    /\ rec'.status = "cancelled" => exitFile = "unset"
    /\ rec'.status \in {"completed", "failed"} /\ rec'.exit # "null" => rec'.exit = exitFile
    /\ rec'.status = "lost" /\ "lease" \notin Faults => tree \in Dead

SlotsHonest == \A w \in Worker : slot'[w] = slot[w] \/ SlotHonest(slot'[w])

Honest == exitFile' = exitFile /\ TreeHonest /\ RecHonest /\ SlotsHonest

-----------------------------------------------------------------------------
\* What an honest step establishes.
LEMMA HonestKeeps ==
  ASSUME HonestInv, [Next]_vars, Honest
  PROVE  HonestInv'
<1>1. SafetyInv' BY NextSafe DEF HonestInv
<1>2. IsSettled(rec) => rec'.status = rec.status /\ rec'.exit = rec.exit
  BY NextKeeps DEF HonestInv, SafetyInv, Keeps
<1>3. EvidenceAgrees /\ (tree \in Unwritten => exitFile = "unset")
  BY DEF HonestInv, EvidenceInv
<1>4. /\ tree' \in Unwritten => exitFile' = "unset"
      /\ tree \in Dead => tree' \in Dead
      /\ exitFile' = exitFile
  BY <1>3 DEF Honest, TreeHonest
<1>5. EvidenceAgrees'
  <2>1. CASE IsSettled(rec) BY <1>2, <1>3, <1>4, <2>1 DEF EvidenceAgrees
  <2>2. CASE ~IsSettled(rec)
    BY <1>4, <2>2 DEF Honest, RecHonest, EvidenceAgrees
  <2>3. QED BY <2>1, <2>2
<1>6. ASSUME NEW w \in Worker
      PROVE  /\ slot'[w].exit \in Written => slot'[w].exit = exitFile
             /\ "lease" \notin Faults /\ (slot'[w].pc = "lost" \/ slot'[w].sig = "different")
                  => tree \in Dead
  <2>1. CASE slot'[w] = slot[w] BY <2>1 DEF HonestInv, EvidenceInv, LostInv
  <2>2. CASE SlotHonest(slot'[w]) BY <2>2 DEF SlotHonest
  <2>3. QED BY <2>1, <2>2 DEF Honest, SlotsHonest
<1>7. EvidenceInv' BY <1>4, <1>5, <1>6 DEF EvidenceInv
<1>8. rec'.status = "lost" /\ "lease" \notin Faults => tree \in Dead
  BY <1>2 DEF Honest, RecHonest, HonestInv, LostInv, IsSettled, SettledStatus
<1>9. LostInv' BY <1>4, <1>6, <1>8 DEF LostInv
<1>10. QED BY <1>1, <1>7, <1>9 DEF HonestInv

\* A group and a record that do not change.
LEMMA SameHonest ==
  /\ tree' = tree => TreeHonest
  /\ rec' = rec => RecHonest
  /\ slot' = slot => SlotsHonest
BY DEF TreeHonest, RecHonest, SlotsHonest, IsSettled, SettledStatus

\* A record that stays open, or settled as it is.
LEMMA OpenHonest ==
  ASSUME ~IsSettled(rec) => ~IsSettled(rec') PROVE RecHonest
BY DEF RecHonest, IsSettled, SettledStatus

LEMMA ClosuresStayOpen ==
  ASSUME NEW r \in TaskRecord, ~IsSettled(r)
  PROVE  /\ ~IsSettled(ToRunning(r)) /\ ~IsSettled(RestoreRunning(r))
         /\ \A v : /\ ~IsSettled(RunningAnchors(r, v)) /\ ~IsSettled(StoppingAnchors(r, v))
                   /\ ~IsSettled(ActiveAnchors(r, v)) /\ ~IsSettled(ToStopping(r, v))
         /\ \A b : ~IsSettled(Observe(r, b))
<1>1. ~IsSettled(ToRunning(r)) /\ ~IsSettled(RestoreRunning(r))
  BY DEF ToRunning, RestoreRunning, TaskRecord, IsSettled, SettledStatus
<1>2. ASSUME NEW v
      PROVE  /\ ~IsSettled(RunningAnchors(r, v)) /\ ~IsSettled(StoppingAnchors(r, v))
             /\ ~IsSettled(ActiveAnchors(r, v)) /\ ~IsSettled(ToStopping(r, v))
  BY DEF RunningAnchors, StoppingAnchors, ActiveAnchors, ToStopping, TaskRecord,
         IsSettled, SettledStatus
<1>3. ASSUME NEW b PROVE ~IsSettled(Observe(r, b)) BY DEF Observe
<1>4. QED BY <1>1, <1>2, <1>3

\* Ways in which a continuation moves on.
LEMMA EnterHonest ==
  ASSUME HonestInv, NEW w \in Worker, NEW s, Enter(w, s), SlotHonest(s)
  PROVE  SlotsHonest
<1>1. slot \in [Worker -> Slot] BY DEF HonestInv, SafetyInv, LifecycleInv, TypeOK
<1>2. QED BY <1>1 DEF Enter, SlotsHonest

LEMMA HeldHonest ==
  ASSUME HonestInv, NEW w \in Worker
  PROVE  /\ slot[w] \in Slot /\ SlotHonest(slot[w])
         /\ rec \in TaskRecord /\ Mgr(w) \in Manager /\ exitFile \in ExitCode
         /\ tree \in Tree
         /\ slot[w].pc \notin QuietPc => tree # "none"
         /\ slot[w].pc \notin QuietPc /\ tree \notin LeaderAlive => tree \in Dead
<1>1. slot[w] \in Slot /\ SlotHonest(slot[w])
  BY SlotTyped DEF HonestInv, EvidenceInv, LostInv, SlotHonest
<1>2. /\ rec \in TaskRecord /\ Mgr(w) \in Manager /\ exitFile \in ExitCode
      /\ tree \in Tree /\ (slot[w].pc \notin QuietPc => tree # "none")
  BY SlotTyped DEF HonestInv, SafetyInv, LifecycleInv, TypeOK, ExitCode
<1>3. QED BY <1>1, <1>2 DEF Tree, LeaderAlive, Dead

LEMMA DoneHonest ==
  ASSUME HonestInv, NEW w \in Worker, Done(w) PROVE SlotsHonest
<1>1. SlotHonest(IdleSlot) BY DEF SlotHonest, IdleSlot, Written
<1>2. QED BY <1>1, EnterHonest DEF Done

LEMMA GotoHonest ==
  ASSUME HonestInv, NEW w \in Worker, NEW pc, Goto(w, pc),
         pc = "lost" => tree \in Dead
  PROVE  SlotsHonest
<1> DEFINE s == [slot[w] EXCEPT !.pc = pc]
<1>1. s.exit = slot[w].exit /\ s.sig = slot[w].sig /\ s.pc = pc
  BY HeldHonest DEF Slot
<1>2. SlotHonest(s) BY <1>1, HeldHonest DEF SlotHonest
<1>3. QED BY <1>2, EnterHonest DEF Goto

\* The verdict "different" is passed on a dead leader only.
LEMMA DifferentIsDead ==
  /\ "different" \in IdentityAnswers => tree \notin LeaderAlive
  /\ \A v : "different" \in AnchorAnswers(v) => tree \notin LeaderAlive
  /\ \A v : "different" \in VerifiedAnswers(v) => tree \notin LeaderAlive
<1>1. "different" \in IdentityAnswers => tree \notin LeaderAlive BY DEF IdentityAnswers
<1>2. ASSUME NEW v, "different" \in AnchorAnswers(v) PROVE tree \notin LeaderAlive
  BY <1>2 DEF AnchorAnswers
<1>3. ASSUME NEW v, "different" \in VerifiedAnswers(v) PROVE tree \notin LeaderAlive
  BY <1>1, <1>2, <1>3 DEF VerifiedAnswers, Known
<1>4. QED BY <1>1, <1>2, <1>3

-----------------------------------------------------------------------------
\* The wrapper or the command writes the exit code: nothing is settled yet, no
\* continuation carries a code, and no leader was found dead.
LEMMA WriteKeeps ==
  ASSUME HonestInv, [Next]_vars, GateTimesOut \/ CommandExits PROVE HonestInv'
<1>1. SafetyInv' BY NextSafe DEF HonestInv
<1>2. /\ tree \in {"gate", "command"} /\ tree' = "leader"
      /\ rec' = rec /\ slot' = slot /\ exitFile = "unset"
  BY DEF GateTimesOut, CommandExits, HonestInv, EvidenceInv, Unwritten
<1>3. rec.status \notin Outcome
  BY <1>2 DEF HonestInv, SafetyInv, DisposalInv, Alive, LeaderAlive
<1>4. EvidenceInv'
  BY <1>2, <1>3
     DEF HonestInv, EvidenceInv, EvidenceAgrees, Outcome, Unwritten, Written
<1>5. LostInv' BY <1>2 DEF HonestInv, LostInv, Dead
<1>6. QED BY <1>1, <1>4, <1>5 DEF HonestInv

LEMMA WorldHonest ==
  ASSUME HonestInv, GateOpens \/ MembersDie \/ NumberReused PROVE Honest
<1>1. TreeHonest
  BY DEF GateOpens, MembersDie, NumberReused, TreeHonest, Unwritten, Dead, Alive, LeaderAlive
<1>2. rec' = rec /\ exitFile' = exitFile /\ slot' = slot
  BY DEF GateOpens, MembersDie, NumberReused, disk
<1>3. QED BY <1>1, <1>2, SameHonest DEF Honest

\* terminal_start: only its failed launch settles, without an exit code.
LEMMA StartHonest == ASSUME HonestInv, Start PROVE Honest
<1>1. exitFile' = exitFile /\ slot' = slot
  BY DEF Start, StartCreate, StartSpawn, StartIdentify, StartPersist,
         StartFreshTerm, StartFreshKill, StartRelease, StartUnlaunch, StartFailLaunch, disk
<1>2. start = "spawn" => tree = "none"
  BY DEF HonestInv, SafetyInv, DisposalInv
<1>3. TreeHonest
  <2>1. CASE StartSpawn
    BY <1>2, <2>1 DEF StartSpawn, TreeHonest, Unwritten, Dead
  <2>2. CASE StartFreshTerm \/ StartUnlaunch
    <3>1. start \in Unreaped => tree # "reused" BY DEF HonestInv, SafetyInv, DisposalInv
    <3>2. QED
      BY <2>2, <3>1 DEF StartFreshTerm, AfterTerm, StartUnlaunch, Unreaped, StartSync,
                        TreeHonest, Unwritten, Dead, Alive, LeaderAlive
  <2>3. CASE StartFreshKill
    BY <2>3 DEF StartFreshKill, AfterKill, TreeHonest, Unwritten, Dead
  <2>4. CASE tree' = tree BY <2>4, SameHonest
  <2>5. QED
    BY <2>1, <2>2, <2>3, <2>4
       DEF Start, StartCreate, StartIdentify, StartPersist, StartRelease, StartFailLaunch
<1>4. rec \in TaskRecord BY DEF HonestInv, SafetyInv, LifecycleInv, TypeOK
<1>5. RecHonest
  <2>1. CASE StartCreate
    <3>1. rec'.status = "starting" BY <2>1 DEF StartCreate, Initial, NoRecord
    <3>2. QED BY <3>1 DEF RecHonest
  <2>2. CASE rec' = ToRunning(rec) BY <1>4, <2>2, ClosuresStayOpen, OpenHonest
  <2>3. CASE rec' = SettleFailedLaunch(rec)
    <3>1. ~IsSettled(rec) => rec'.status = "failed" /\ rec'.exit = "null"
      BY <1>4, <2>3 DEF SettleFailedLaunch, TaskRecord
    <3>2. QED BY <3>1 DEF RecHonest
  <2>4. CASE rec' = rec BY <2>4, SameHonest
  <2>5. QED
    BY <2>1, <2>2, <2>3, <2>4
       DEF Start, StartSpawn, StartIdentify, StartPersist, StartFreshTerm,
           StartFreshKill, StartRelease, StartUnlaunch, StartFailLaunch, Mutate, MutateRecord, disk
<1>6. QED BY <1>1, <1>3, <1>5, SameHonest DEF Honest

LEMMA RecoverHonest ==
  ASSUME HonestInv, NEW m \in Manager, InitScan(m) \/ Refresh(m) \/ Detach(m) PROVE Honest
<1>1. rec' = rec /\ exitFile' = exitFile /\ tree' = tree /\ slot' = slot
  BY DEF InitScan, Refresh, Detach, disk
<1>2. QED BY <1>1, SameHonest DEF Honest

LEMMA CrashHonest == ASSUME HonestInv, NEW m \in Manager, Crash(m) PROVE Honest
<1>1. rec' = rec /\ exitFile' = exitFile /\ tree' = tree BY DEF Crash, disk
<1>2. SlotHonest(IdleSlot) BY DEF SlotHonest, IdleSlot, Written
<1>3. SlotsHonest BY <1>2 DEF Crash, SlotsHonest
<1>4. QED BY <1>1, <1>3, SameHonest DEF Honest

\* A reconcile takes the code it reads from disk.
LEMMA ReconcileHonest == ASSUME HonestInv, NEW w \in Worker, Reconcile(w) PROVE Honest
<1>1. rec' = rec /\ exitFile' = exitFile /\ tree' = tree BY DEF Reconcile, disk
<1>2. SlotsHonest
  <2>1. CASE slot' = slot BY <2>1, SameHonest
  <2>2. CASE "lease" \in Faults /\
             Enter(w, [IdleSlot EXCEPT !.pc = "lost", !.exit = "null", !.suppress = TRUE])
    <3> DEFINE s == [IdleSlot EXCEPT !.pc = "lost", !.exit = "null", !.suppress = TRUE]
    <3>1. SlotHonest(s) BY <2>2 DEF SlotHonest, IdleSlot, Written
    <3>2. QED BY <2>2, <3>1, EnterHonest
  <2>3. CASE Goto(w, "recover") BY <2>3, GotoHonest
  <2>4. CASE \E pc \in {"natural", "probe"} :
               Enter(w, [[IdleSlot EXCEPT !.exit = exitFile] EXCEPT !.pc = pc])
    <3>1. PICK pc \in {"natural", "probe"} :
             Enter(w, [[IdleSlot EXCEPT !.exit = exitFile] EXCEPT !.pc = pc])
      BY <2>4
    <3> DEFINE s == [[IdleSlot EXCEPT !.exit = exitFile] EXCEPT !.pc = pc]
    <3>2. SlotHonest(s) BY DEF SlotHonest, IdleSlot
    <3>3. QED BY <3>1, <3>2, EnterHonest
  <2>5. QED BY <2>1, <2>2, <2>3, <2>4 DEF Reconcile
<1>3. QED BY <1>1, <1>2, SameHonest DEF Honest

LEMMA PollStartHonest == ASSUME HonestInv, NEW w \in Worker, PollStart(w) PROVE Honest
BY ReconcileHonest DEF PollStart

LEMMA ChildClosedHonest == ASSUME HonestInv, ChildClosed PROVE Honest
<1>1. <<Starter, "poll">> \in Worker BY LifecycleAssumption DEF Worker
<1>2. CASE Reconcile(<<Starter, "poll">>) BY <1>1, <1>2, ReconcileHonest
<1>3. CASE UNCHANGED <<disk, tree, local, indexed, detached, replaced, start, slot, stops>>
  BY <1>3, SameHonest DEF disk, Honest
<1>4. QED BY <1>2, <1>3 DEF ChildClosed

-----------------------------------------------------------------------------
\* A verified signal never reaches a dead leader's group but as an orphan's, and
\* never a stranger's.
LEMMA SignalHonest ==
  ASSUME HonestInv, NEW w \in Worker,
         KillNat(w) \/ KillStop(w) \/ Term(w) \/ Kill(w)
  PROVE  Honest
<1>1. PICK from \in {"killNat", "killStop", "term", "kill"},
           after \in {AfterTerm, AfterKill},
           await \in {"waitNat", "waitStop", "waitTerm", "waitKill"} :
        SignalStep(w, from, after, await)
  BY DEF KillNat, KillStop, Term, Kill
<1>2. PICK o \in SignalOutcomes(slot[w].anchors, after) :
        tree' = o[2] /\ Enter(w, [slot[w] EXCEPT !.pc = await, !.sig = o[1]])
  BY <1>1 DEF SignalStep
<1>3. slot[w] \in Slot /\ SlotHonest(slot[w]) /\ (tree \notin LeaderAlive => tree \in Dead)
  BY <1>1, HeldHonest DEF SignalStep, QuietPc
<1>4. PICK i \in VerifiedAnswers(slot[w].anchors) :
        o \in IF i = "same"
              THEN {<<"sent", t>> : t \in after} \cup
                   (IF "probe" \in Faults THEN {<<"failed", tree>>} ELSE {})
              ELSE {<<i, tree>>}
  BY DEF SignalOutcomes
<1>5. /\ o[2] = tree \/ (i = "same" /\ o[2] \in after)
      /\ o[1] = "different" => i = "different"
  <2>1. CASE i = "same" BY <1>4, <2>1
  <2>2. CASE i # "same" BY <1>4, <2>2
  <2>3. QED BY <2>1, <2>2
<1>6. tree \in {"empty", "reused"} => "same" \notin VerifiedAnswers(slot[w].anchors)
  BY DEF VerifiedAnswers, Known, IdentityAnswers, AnchorAnswers, LeaderAlive
<1>7. after \subseteq {"empty", "orphans", tree} BY DEF AfterTerm, AfterKill
<1>8. TreeHonest
  BY <1>2, <1>4, <1>5, <1>6, <1>7 DEF TreeHonest, Unwritten, Dead
<1>9. SlotsHonest
  <2> DEFINE s == [slot[w] EXCEPT !.pc = await, !.sig = o[1]]
  <2>1. s.exit = slot[w].exit /\ s.pc = await /\ s.sig = o[1] BY <1>3 DEF Slot
  <2>2. o[1] = "different" => tree \in Dead
    BY <1>3, <1>4, <1>5, DifferentIsDead
  <2>3. SlotHonest(s) BY <1>3, <2>1, <2>2 DEF SlotHonest
  <2>4. QED BY <1>2, <2>3, EnterHonest
<1>10. rec' = rec /\ exitFile' = exitFile BY <1>1 DEF SignalStep, disk
<1>11. QED BY <1>8, <1>9, <1>10, SameHonest DEF Honest

\* A continuation that only moves on, or ends.
LEMMA WaitHonest ==
  ASSUME HonestInv, NEW w \in Worker,
         \/ WaitNat(w) \/ WaitTerm(w) \/ WaitKill(w) \/ WaitStop(w)
         \/ SignalFailed(w) \/ LockTimesOut(w)
  PROVE  Honest
<1>1. rec' = rec /\ exitFile' = exitFile /\ tree' = tree
  BY DEF WaitNat, WaitTerm, WaitKill, WaitStop, SignalFailed, LockTimesOut, disk
<1>2. slot[w] \in Slot /\ SlotHonest(slot[w]) BY HeldHonest
<1>3. SlotsHonest
  <2>1. CASE Done(w) BY <2>1, DoneHonest
  <2>2. CASE \E pc \in {"settle", "disposed", "signalFailed", "failed"} : Goto(w, pc)
    BY <2>2, GotoHonest
  <2>3. CASE Enter(w, [slot[w] EXCEPT !.pc = "kill", !.restore = FALSE,
                                      !.andThen = "nothing"])
    <3> DEFINE s == [slot[w] EXCEPT !.pc = "kill", !.restore = FALSE, !.andThen = "nothing"]
    <3>1. s.exit = slot[w].exit /\ s.pc = "kill" /\ s.sig = slot[w].sig BY <1>2 DEF Slot
    <3>2. SlotHonest(s) BY <1>2, <3>1 DEF SlotHonest
    <3>3. QED BY <2>3, <3>2, EnterHonest
  <2>4. CASE /\ slot[w].sig = "different"
             /\ Enter(w, [slot[w] EXCEPT !.pc = "lost", !.exit = "null"])
    <3> DEFINE s == [slot[w] EXCEPT !.pc = "lost", !.exit = "null"]
    <3>1. s.exit = "null" /\ s.pc = "lost" BY <1>2 DEF Slot
    <3>2. SlotHonest(s) BY <1>2, <2>4, <3>1 DEF SlotHonest, Written
    <3>3. QED BY <2>4, <3>2, EnterHonest
  <2>5. QED
    BY <2>1, <2>2, <2>3, <2>4
       DEF WaitNat, WaitTerm, WaitKill, WaitStop, SignalFailed, LockTimesOut
<1>4. QED BY <1>1, <1>3, SameHonest DEF Honest

-----------------------------------------------------------------------------
\* The settlements.
LEMMA SettleHonest ==
  ASSUME HonestInv, NEW w \in Worker, SettleNat(w) \/ Lost(w) \/ ObserveSettled(w)
  PROVE  Honest
<1>1. tree' = tree /\ exitFile' = exitFile BY DEF SettleNat, Lost, ObserveSettled
<1>2. slot[w] \in Slot /\ SlotHonest(slot[w]) /\ rec \in TaskRecord BY HeldHonest
<1>3. SlotsHonest
  <2>1. CASE Done(w) BY <2>1, DoneHonest
  <2>2. CASE Goto(w, "observe") BY <2>2, GotoHonest
  <2>3. QED BY <2>1, <2>2 DEF SettleNat, Lost, ObserveSettled
<1>4. RecHonest
  <2>1. CASE SettleNat(w)
    <3>1. slot[w].exit \in Written
      BY <2>1 DEF SettleNat, HonestInv, SafetyInv, LifecycleInv, SlotFits, Written
    <3>2. rec' = SettleNatural(rec, slot[w].exit)
      BY <2>1 DEF SettleNat, Mutate, MutateRecord
    <3>3. ~IsSettled(rec) => rec'.status \in {"completed", "failed"} /\ rec'.exit = slot[w].exit
      BY <1>2, <3>2 DEF SettleNatural, Settle, TaskRecord
    <3>4. slot[w].exit = exitFile BY <1>2, <3>1 DEF SlotHonest
    <3>5. QED BY <3>3, <3>4 DEF RecHonest
  <2>2. CASE Lost(w)
    <3>1. rec' = SettleLost(rec, slot[w].exit, slot[w].suppress)
      BY <2>2 DEF Lost, Mutate, MutateRecord
    <3>2. ~IsSettled(rec) => rec'.status = "lost"
      BY <1>2, <3>1 DEF SettleLost, Settle, TaskRecord
    <3>3. "lease" \notin Faults => tree \in Dead
      BY <1>2, <2>2 DEF Lost, SlotHonest
    <3>4. QED BY <3>2, <3>3 DEF RecHonest
  <2>3. CASE ObserveSettled(w)
    <3>1. rec' = Observe(rec, slot[w].andThen = "consume")
      BY <2>3 DEF ObserveSettled, Mutate, MutateRecord
    <3>2. ~IsSettled(rec) => ~IsSettled(rec') BY <1>2, <3>1, ClosuresStayOpen
    <3>3. QED BY <3>2, OpenHonest
  <2>4. QED BY <2>1, <2>2, <2>3
<1>5. QED BY <1>1, <1>3, <1>4, SameHonest DEF Honest

\* settleDisposedStop looks for the exit code again before it cancels.
LEMMA DisposedHonest == ASSUME HonestInv, NEW w \in Worker, Disposed(w) PROVE Honest
<1>1. tree' = tree /\ exitFile' = exitFile BY DEF Disposed
<1>2. slot[w] \in Slot /\ SlotHonest(slot[w]) /\ rec \in TaskRecord BY HeldHonest
<1>3. CASE exitFile # "unset"
  <2> DEFINE s == [slot[w] EXCEPT !.pc = "settle", !.exit = exitFile, !.andThen = "observe"]
  <2>1. s.pc = "settle" /\ s.exit = exitFile /\ s.sig = slot[w].sig BY <1>2 DEF Slot
  <2>2. SlotHonest(s) BY <1>2, <2>1 DEF SlotHonest
  <2>3. SlotsHonest BY <1>3, <2>2, EnterHonest DEF Disposed
  <2>4. rec' = rec BY <1>3 DEF Disposed
  <2>5. QED BY <1>1, <2>3, <2>4, SameHonest DEF Honest
<1>4. CASE exitFile = "unset"
  <2>1. SlotsHonest BY <1>4, DoneHonest DEF Disposed
  <2>2. rec' = SettleCancelled(rec) BY <1>4 DEF Disposed, Mutate, MutateRecord
  <2>3. ~IsSettled(rec) => rec'.status = "cancelled"
    BY <1>2, <2>2 DEF SettleCancelled, TaskRecord
  <2>4. RecHonest BY <1>4, <2>3 DEF RecHonest
  <2>5. QED BY <1>1, <2>1, <2>4, SameHonest DEF Honest
<1>5. QED BY <1>3, <1>4

-----------------------------------------------------------------------------
\* The decisions of the poll.
LEMMA ProbeHonest == ASSUME HonestInv, NEW w \in Worker, Probe(w) PROVE Honest
<1>1. tree' = tree /\ exitFile' = exitFile BY DEF Probe
<1>2. rec \in TaskRecord /\ (tree \notin LeaderAlive => tree \in Dead)
  BY HeldHonest DEF Probe, QuietPc
<1>3. SlotsHonest
  <2> DEFINE s == [IdleSlot EXCEPT !.pc = "lost", !.exit = "null"]
  <2>1. CASE Done(w) BY <2>1, DoneHonest
  <2>2. CASE "different" \in IdentityAnswers /\ Enter(w, s)
    <3>1. SlotHonest(s)
      BY <1>2, <2>2, DifferentIsDead DEF SlotHonest, IdleSlot, Written
    <3>2. QED BY <2>2, <3>1, EnterHonest
  <2>3. QED BY <2>1, <2>2 DEF Probe
<1>4. RecHonest
  <2>1. CASE rec' = rec BY <2>1, SameHonest
  <2>2. CASE \E v : rec' = RunningAnchors(rec, v)
    BY <1>2, <2>2, ClosuresStayOpen, OpenHonest
  <2>3. QED BY <2>1, <2>2 DEF Probe, Mutate, MutateRecord
<1>5. QED BY <1>1, <1>3, <1>4, SameHonest DEF Honest

LEMMA NaturalHonest == ASSUME HonestInv, NEW w \in Worker, Natural(w) PROVE Honest
<1>1. tree' = tree /\ exitFile' = exitFile BY DEF Natural, disk
<1>2. /\ slot[w] \in Slot /\ SlotHonest(slot[w]) /\ rec \in TaskRecord
      /\ tree \notin LeaderAlive => tree \in Dead
  BY HeldHonest DEF Natural, QuietPc
<1>3. RecHonest
  <2>1. CASE rec' = rec BY <2>1, SameHonest
  <2>2. CASE \E v : rec' = RunningAnchors(rec, v)
    BY <1>2, <2>2, ClosuresStayOpen, OpenHonest
  <2>3. QED BY <2>1, <2>2 DEF Natural, disk, Mutate, MutateRecord
<1>4. SlotsHonest
  <2>1. CASE Done(w) \/ Goto(w, "settle") BY <2>1, DoneHonest, GotoHonest
  <2>2. CASE tree \notin LeaderAlive /\ Goto(w, "lost") BY <1>2, <2>2, GotoHonest
  <2>3. CASE \E v : Enter(w, [slot[w] EXCEPT !.pc = "killNat", !.anchors = v])
    <3>1. PICK v : Enter(w, [slot[w] EXCEPT !.pc = "killNat", !.anchors = v]) BY <2>3
    <3> DEFINE s == [slot[w] EXCEPT !.pc = "killNat", !.anchors = v]
    <3>2. s.pc = "killNat" /\ s.exit = slot[w].exit /\ s.sig = slot[w].sig
      BY <1>2 DEF Slot
    <3>3. SlotHonest(s) BY <1>2, <3>2 DEF SlotHonest
    <3>4. QED BY <3>1, <3>3, EnterHonest
  <2>4. ASSUME NEW i \in IdentityAnswers, NEW v,
               "different" \in Known(i, v)
        PROVE  tree \notin LeaderAlive
    BY <2>4, DifferentIsDead DEF Known
  <2>5. QED BY <2>1, <2>2, <2>3, <2>4 DEF Natural
<1>5. QED BY <1>1, <1>3, <1>4, SameHonest DEF Honest

LEMMA RecoverStoppingHonest ==
  ASSUME HonestInv, NEW w \in Worker, RecoverStopping(w) PROVE Honest
<1>1. tree' = tree /\ exitFile' = exitFile BY DEF RecoverStopping, disk
<1>2. rec \in TaskRecord /\ (tree \notin LeaderAlive => tree \in Dead)
  BY HeldHonest DEF RecoverStopping, QuietPc
<1>3. RecHonest
  <2>1. CASE rec' = rec BY <2>1, SameHonest
  <2>2. CASE \E v : rec' = StoppingAnchors(rec, v)
    BY <1>2, <2>2, ClosuresStayOpen, OpenHonest
  <2>3. QED BY <2>1, <2>2 DEF RecoverStopping, disk, Mutate, MutateRecord
<1>4. SlotsHonest
  <2>1. CASE Done(w) \/ Goto(w, "disposed") BY <2>1, DoneHonest, GotoHonest
  <2>2. CASE /\ "different" \in VerifiedAnswers(rec.anchors)
             /\ Enter(w, [IdleSlot EXCEPT !.pc = "lost", !.exit = "null"])
    <3> DEFINE s == [IdleSlot EXCEPT !.pc = "lost", !.exit = "null"]
    <3>1. SlotHonest(s)
      BY <1>2, <2>2, DifferentIsDead DEF SlotHonest, IdleSlot, Written
    <3>2. QED BY <2>2, <3>1, EnterHonest
  <2>3. CASE \E v : Enter(w, [IdleSlot EXCEPT !.pc = "term", !.anchors = v])
    <3>1. PICK v : Enter(w, [IdleSlot EXCEPT !.pc = "term", !.anchors = v]) BY <2>3
    <3> DEFINE s == [IdleSlot EXCEPT !.pc = "term", !.anchors = v]
    <3>2. SlotHonest(s) BY DEF SlotHonest, IdleSlot, Written
    <3>3. QED BY <3>1, <3>2, EnterHonest
  <2>4. QED BY <2>1, <2>2, <2>3 DEF RecoverStopping
<1>5. QED BY <1>1, <1>3, <1>4, SameHonest DEF Honest

-----------------------------------------------------------------------------
\* terminal_stop.
LEMMA StopFailedHonest ==
  ASSUME HonestInv, NEW w \in Worker, StopFailed(w) PROVE Honest
<1>1. tree' = tree /\ exitFile' = exitFile /\ Done(w) BY DEF StopFailed
<1>2. rec \in TaskRecord BY HeldHonest
<1>3. RecHonest
  <2>1. CASE rec' = rec BY <2>1, SameHonest
  <2>2. CASE rec' = RestoreRunning(rec) BY <1>2, <2>2, ClosuresStayOpen, OpenHonest
  <2>3. QED BY <2>1, <2>2 DEF StopFailed, MutateRecord
<1>4. QED BY <1>1, <1>3, DoneHonest, SameHonest DEF Honest

\* The stop takes the code it reads from disk.
LEMMA StopCallHonest == ASSUME HonestInv, NEW w \in Worker, StopCall(w) PROVE Honest
<1>1. rec' = rec /\ exitFile' = exitFile /\ tree' = tree BY DEF StopCall, disk
<1>2. SlotsHonest
  <2>1. CASE slot' = slot BY <2>1, SameHonest
  <2>2. CASE Goto(w, "observe") BY <2>2, GotoHonest
  <2>3. CASE Enter(w, [IdleSlot EXCEPT !.pc = "stopProbe", !.exit = exitFile])
    <3> DEFINE s == [IdleSlot EXCEPT !.pc = "stopProbe", !.exit = exitFile]
    <3>1. SlotHonest(s) BY DEF SlotHonest, IdleSlot
    <3>2. QED BY <2>3, <3>1, EnterHonest
  <2>4. QED BY <2>1, <2>2, <2>3 DEF StopCall
<1>3. QED BY <1>1, <1>2, SameHonest DEF Honest

LEMMA StopProbeHonest == ASSUME HonestInv, NEW w \in Worker, StopProbe(w) PROVE Honest
<1>1. tree' = tree /\ exitFile' = exitFile BY DEF StopProbe
<1>2. /\ slot[w] \in Slot /\ SlotHonest(slot[w]) /\ rec \in TaskRecord
      /\ Mgr(w) \in Manager /\ (tree \notin LeaderAlive => tree \in Dead)
  BY HeldHonest DEF StopProbe, QuietPc
<1>3. seen[Mgr(w)].anchors \in Anchors /\ anchor[Mgr(w)] \in Anchors
  BY <1>2 DEF HonestInv, SafetyInv, LifecycleInv, TypeOK, TaskRecord
<1>4. CASE StopQuiet(w)
  <2>1. RecHonest BY <1>4, SameHonest DEF StopQuiet
  <2>2. CASE Done(w) BY <1>1, <2>1, <2>2, DoneHonest, SameHonest DEF Honest
  <2>3. CASE StopSettles(w)
    <3> DEFINE s == [slot[w] EXCEPT !.pc = "settle", !.andThen = "observe"]
    <3>1. s.pc = "settle" /\ s.exit = slot[w].exit /\ s.sig = slot[w].sig
      BY <1>2 DEF Slot
    <3>2. SlotHonest(s) BY <1>2, <3>1 DEF SlotHonest
    <3>3. SlotsHonest BY <2>3, <3>2, EnterHonest DEF StopSettles
    <3>4. QED BY <1>1, <2>1, <3>3, SameHonest DEF Honest
  <2>4. ASSUME tree \notin LeaderAlive,
               NEW next \in {"observe", "consume"}, Enter(w, StopLoses(w, next))
        PROVE  Honest
    <3>1. StopLoses(w, next).exit = "null" BY <1>2 DEF StopLoses, Slot
    <3>2. SlotHonest(StopLoses(w, next)) BY <1>2, <2>4, <3>1 DEF SlotHonest, Written
    <3>3. QED BY <1>1, <2>1, <2>4, <3>2, EnterHonest, SameHonest DEF Honest
  <2>5. QED BY <1>4, <2>2, <2>3, <2>4 DEF StopQuiet
<1>5. ASSUME NEW v \in Anchors, StopSignals(w, v) PROVE Honest
  <2>1. RecHonest
    <3>1. CASE rec' = rec BY <3>1, SameHonest
    <3>2. CASE rec' = ActiveAnchors(rec, v) \/ rec' = ToStopping(rec, v)
      BY <1>2, <3>2, ClosuresStayOpen, OpenHonest
    <3>3. QED BY <1>5, <3>1, <3>2 DEF StopSignals, MutateRecord
  <2>2. SlotsHonest
    <3>1. CASE Goto(w, "observe") BY <3>1, GotoHonest
    <3>2. CASE Enter(w, [slot[w] EXCEPT !.pc = "killStop", !.anchors = v,
                                        !.andThen = "observe"])
      <4> DEFINE s == [slot[w] EXCEPT !.pc = "killStop", !.anchors = v,
                                      !.andThen = "observe"]
      <4>1. s.pc = "killStop" /\ s.exit = slot[w].exit /\ s.sig = slot[w].sig
        BY <1>2 DEF Slot
      <4>2. SlotHonest(s) BY <1>2, <4>1 DEF SlotHonest
      <4>3. QED BY <3>2, <4>2, EnterHonest
    <3>3. CASE Enter(w, [slot[w] EXCEPT !.pc = "term", !.anchors = v,
                                        !.restore = TRUE, !.andThen = "observe"])
      <4> DEFINE s == [slot[w] EXCEPT !.pc = "term", !.anchors = v,
                                      !.restore = TRUE, !.andThen = "observe"]
      <4>1. s.pc = "term" /\ s.exit = slot[w].exit /\ s.sig = slot[w].sig
        BY <1>2 DEF Slot
      <4>2. SlotHonest(s) BY <1>2, <4>1 DEF SlotHonest
      <4>3. QED BY <3>3, <4>2, EnterHonest
    <3>4. QED BY <1>5, <3>1, <3>2, <3>3 DEF StopSignals, Goto
  <2>3. QED BY <1>1, <2>1, <2>2, SameHonest DEF Honest
<1>6. QED BY <1>3, <1>4, <1>5, StopProbeShape

-----------------------------------------------------------------------------
\* Every step but the write of the exit code is honest.
LEMMA NextHonest ==
  ASSUME HonestInv, [Next]_vars PROVE Honest \/ GateTimesOut \/ CommandExits
<1>1. CASE UNCHANGED vars BY <1>1, SameHonest DEF vars, Honest
<1>2. CASE Start BY <1>2, StartHonest
<1>3. ASSUME NEW m \in Manager, InitScan(m) \/ Refresh(m) \/ Crash(m) \/ Detach(m)
      PROVE  Honest
  BY <1>3, RecoverHonest, CrashHonest
<1>4. ASSUME NEW w \in Worker, Poll(w) PROVE Honest
  BY <1>4, PollStartHonest, ProbeHonest, NaturalHonest, SignalHonest, WaitHonest,
     SettleHonest, RecoverStoppingHonest DEF Poll
<1>5. ASSUME NEW w \in Worker, Finish(w) PROVE Honest
  BY <1>5, SignalHonest, WaitHonest, StopFailedHonest, DisposedHonest, SettleHonest
     DEF Finish
<1>6. ASSUME NEW w \in Worker, Stop(w) PROVE Honest
  BY <1>6, StopCallHonest, StopProbeHonest, SignalHonest, WaitHonest DEF Stop
<1>7. ASSUME NEW w \in Worker, LockTimesOut(w) PROVE Honest
  BY <1>7, WaitHonest
<1>8. CASE ChildClosed BY <1>8, ChildClosedHonest
<1>9. CASE World BY <1>9, WorldHonest DEF World
<1>10. QED
  BY <1>1, <1>2, <1>3, <1>4, <1>5, <1>6, <1>7, <1>8, <1>9 DEF Next

LEMMA NextHonestKeeps == ASSUME HonestInv, [Next]_vars PROVE HonestInv'
BY NextHonest, HonestKeeps, WriteKeeps

LEMMA InitHonest == ASSUME Init PROVE HonestInv
<1>1. rec.status = "absent" BY DEF Init, NoRecord
<1>2. \A w \in Worker :
        slot[w].exit = "unset" /\ slot[w].pc = "idle" /\ slot[w].sig = "none"
  BY DEF Init, IdleSlot
<1>3. EvidenceInv BY <1>1, <1>2 DEF Init, EvidenceInv, EvidenceAgrees, Written
<1>4. LostInv BY <1>1, <1>2 DEF LostInv
<1>5. QED BY <1>3, <1>4, InitSafe DEF HonestInv

\* Both invariants hold in every behaviour, on top of those of TerminalSafetyProofs.
THEOREM EvidenceHolds == Spec => []HonestInv
BY InitHonest, NextHonestKeeps, PTL DEF Spec

\* A terminal is recorded cancelled only if its command never wrote an exit
\* code, and completed or failed with a code only with the one it wrote,
\* whatever stop, poll, recovery or crash comes in between.
THEOREM EvidenceAgreesHolds == Spec => []EvidenceAgrees
<1>1. HonestInv => EvidenceAgrees BY DEF HonestInv, EvidenceInv
<1>2. QED BY <1>1, EvidenceHolds, PTL

\* No signal of any manager ever reaches the process group that inherited the
\* terminal's number, except the KILL that terminal_start sends after an await to
\* the wrapper whose identity it could not keep.
THEOREM StrangerUnharmedHolds == Spec => StrangerUnharmed
<1>1. ASSUME HonestInv, [Next]_vars
      PROVE  [tree = "reused" => tree' = "reused" \/ StartFreshKill]_vars
  BY <1>1, NextHonest DEF Honest, TreeHonest, GateTimesOut, CommandExits
<1>2. QED BY <1>1, EvidenceHolds, PTL DEF Spec, StrangerUnharmed

\* When no start outlives its grace (no fault "lease"), a terminal recorded lost
\* is not running its command: an unanswered probe, a crash or a handoff never
\* makes a manager give a live one up.
THEOREM LostIsNotRunningHolds ==
  ASSUME "lease" \notin Faults PROVE Spec => []LostIsNotRunning
<1>1. HonestInv => LostIsNotRunning BY DEF HonestInv, LostInv, LostIsNotRunning, Dead
<1>2. QED BY <1>1, EvidenceHolds, PTL
=============================================================================
