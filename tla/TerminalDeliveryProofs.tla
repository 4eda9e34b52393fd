------------------------ MODULE TerminalDeliveryProofs ------------------------
(***************************************************************************)
(* Proofs about TerminalDelivery, for every set of processes, sessions and *)
(* terminals and any bounds: delivery refines Completion, and only the     *)
(* newest claim of a terminal is chosen for sending.                       *)
(*                                                                         *)
(* The argument: a message chosen or in Pi's hands carries the token its   *)
(* record holds, and nobody else may change that record meanwhile, because only   *)
(* the process that has the owner's session open claims, acknowledges or   *)
(* observes, and it does none of these before the message is appended.     *)
(***************************************************************************)
EXTENDS TerminalDelivery, TLAPS

(***************************************************************************)
(* Records.                                                                *)
(***************************************************************************)
\* "No record" and the running record of a new terminal are well formed.
LEMMA InitialWellFormed == WellFormed(NoRecord) /\ WellFormed(Running)
<1>1. NoRecord \in TaskRecord /\ Running \in TaskRecord
  BY DEF NoRecord, Initial, Running, TaskRecord, Status, ActiveStatus, Delivery,
         ExitCode, Anchors, NoToken
<1>2. /\ Running.status = "running" /\ Running.delivery = "none"
      /\ Running.exit = "unset" /\ Running.anchors = "none"
      /\ Running.identity = TRUE /\ Running.completion = FALSE
      /\ Running.observed = FALSE /\ Running.consumed = FALSE
      /\ Running.token = NoToken
  BY DEF Running, Initial, NoRecord
<1>3. Parses(Running)
  BY <1>2 DEF Parses, IdentityParses, LifecycleParses, DeliveryParses,
              IsSettled, ActiveStatus, SettledStatus, NoToken
<1>4. NoRecord.status = "absent" /\ Running.status = "running"
  BY <1>2 DEF NoRecord
<1>5. QED BY <1>1, <1>3, <1>4 DEF WellFormed, Parses

\* The Boolean fields of a record are Booleans, and an active record has an
\* untouched settlement.
LEMMA RecordFields ==
  ASSUME NEW r, WellFormed(r)
  PROVE  /\ r \in TaskRecord
         /\ r.identity \in BOOLEAN /\ r.completion \in BOOLEAN
         /\ r.observed \in BOOLEAN /\ r.consumed \in BOOLEAN
         /\ r.identity => r.status # "absent"
         /\ IsSettled(r) => r.completion
         /\ ~IsSettled(r) =>
              /\ r.token = NoToken /\ r.delivery = "none" /\ r.exit = "unset"
              /\ ~r.observed /\ ~r.consumed /\ ~r.completion
              /\ r.anchors # "none" => r.identity
<1>1. /\ r \in TaskRecord
      /\ r.identity \in BOOLEAN /\ r.completion \in BOOLEAN
      /\ r.observed \in BOOLEAN /\ r.consumed \in BOOLEAN
      /\ r.status \in Status
  BY DEF WellFormed, TaskRecord
<1>2. CASE r.status = "absent"
  <2>1. r = NoRecord BY <1>2 DEF WellFormed
  <2>2. ~NoRecord.identity /\ NoRecord.token = NoToken /\ NoRecord.delivery = "none"
        /\ NoRecord.exit = "unset" /\ ~NoRecord.observed /\ ~NoRecord.consumed
        /\ ~NoRecord.completion /\ NoRecord.status = "absent"
        /\ NoRecord.anchors = "none"
    BY DEF NoRecord
  <2>3. QED BY <1>1, <2>1, <2>2 DEF IsSettled, SettledStatus
<1>3. CASE r.status \in ActiveStatus
  <2>1. IdentityParses(r) /\ LifecycleParses(r) /\ DeliveryParses(r)
    BY <1>3 DEF WellFormed, Parses, ActiveStatus
  <2>2. r.delivery = "none" /\ r.exit = "unset" /\ ~r.observed /\ ~r.consumed /\ ~r.completion
    BY <1>3, <2>1 DEF LifecycleParses
  <2>3. r.token = NoToken BY <2>1, <2>2 DEF DeliveryParses
  <2>4. r.anchors # "none" => r.identity BY <2>1 DEF IdentityParses
  <2>5. r.status # "absent" /\ ~IsSettled(r)
    BY <1>3 DEF ActiveStatus, IsSettled, SettledStatus
  <2>6. QED BY <1>1, <2>2, <2>3, <2>4, <2>5
<1>4. CASE IsSettled(r)
  <2>1. r.status # "absent" BY <1>4 DEF IsSettled, SettledStatus
  <2>2. r.completion
    BY <1>4, <2>1 DEF WellFormed, Parses, LifecycleParses
  <2>3. QED BY <1>1, <1>4, <2>1, <2>2
<1>5. QED BY <1>1, <1>2, <1>3, <1>4 DEF Status, IsSettled

\* A settlement leaves a well-formed record, of a command that has ended,
LEMMA NaturalWellFormed ==
  ASSUME NEW r, WellFormed(r), NEW exit,
         ~IsSettled(r), exit \in {"zero", "nonzero"}
  PROVE  WellFormed(SettleNatural(r, exit))
<1> DEFINE s == SettleNatural(r, exit)
<1>1. s = [r EXCEPT !.status = (IF exit = "zero" THEN "completed" ELSE "failed"),
                    !.exit = exit, !.completion = TRUE, !.observed = FALSE,
                    !.consumed = FALSE, !.delivery = "pending"]
  BY DEF SettleNatural, Settle
<1> HIDE DEF s
<1>2. r \in TaskRecord BY RecordFields
<1>3. /\ s.status = (IF exit = "zero" THEN "completed" ELSE "failed")
      /\ s.delivery = "pending" /\ s.exit = exit
      /\ s.anchors = r.anchors /\ s.identity = r.identity /\ s.completion = TRUE
      /\ s.observed = FALSE /\ s.consumed = FALSE /\ s.token = r.token
  BY <1>1, <1>2 DEF TaskRecord
<1>4. s \in TaskRecord
  BY <1>1, <1>2 DEF TaskRecord, Status, ActiveStatus, SettledStatus, Delivery,
                    ExitCode, Anchors, NoToken
<1>5. Parses(s)
  <2>1. r.status # "absent" => IdentityParses(r) /\ LifecycleParses(r) /\ DeliveryParses(r)
    BY DEF WellFormed, Parses
  <2>2. IdentityParses(s)
    BY <1>3, <2>1, RecordFields DEF IdentityParses, IsSettled, SettledStatus, ActiveStatus
  <2>3. LifecycleParses(s)
    BY <1>3, <2>1, RecordFields DEF LifecycleParses, IsSettled, SettledStatus, ActiveStatus
  <2>4. DeliveryParses(s)
    BY <1>3, <2>1, RecordFields
       DEF DeliveryParses, LifecycleParses, IsSettled, SettledStatus, NoToken
  <2>5. QED BY <2>2, <2>3, <2>4 DEF Parses
<1>6. s.status # "absent"
  BY <1>3, RecordFields DEF IsSettled, SettledStatus
<1>7. WellFormed(s) BY <1>4, <1>5, <1>6 DEF WellFormed
<1>8. QED BY <1>7 DEF s

\* or of one that is stopped.
LEMMA CancelledWellFormed ==
  ASSUME NEW r, WellFormed(r), ~IsSettled(r)
  PROVE  WellFormed(SettleCancelled(r))
<1> DEFINE s == SettleCancelled(r)
<1>1. s = [r EXCEPT !.status = "cancelled", !.exit = "null", !.completion = TRUE,
                    !.observed = TRUE, !.consumed = TRUE, !.delivery = "suppressed"]
  BY DEF SettleCancelled
<1> HIDE DEF s
<1>2. r \in TaskRecord BY RecordFields
<1>3. /\ s.status = "cancelled" /\ s.delivery = "suppressed" /\ s.exit = "null"
      /\ s.anchors = r.anchors /\ s.identity = r.identity /\ s.completion = TRUE
      /\ s.observed = TRUE /\ s.consumed = TRUE /\ s.token = r.token
  BY <1>1, <1>2 DEF TaskRecord
<1>4. s \in TaskRecord
  BY <1>1, <1>2 DEF TaskRecord, Status, ActiveStatus, SettledStatus, Delivery,
                    ExitCode, Anchors, NoToken
<1>5. Parses(s)
  <2>1. r.status # "absent" => IdentityParses(r) /\ LifecycleParses(r) /\ DeliveryParses(r)
    BY DEF WellFormed, Parses
  <2>2. IdentityParses(s)
    BY <1>3, <2>1, RecordFields DEF IdentityParses, IsSettled, SettledStatus, ActiveStatus
  <2>3. LifecycleParses(s)
    BY <1>3, <2>1, RecordFields DEF LifecycleParses, IsSettled, SettledStatus, ActiveStatus
  <2>4. DeliveryParses(s)
    BY <1>3, <2>1, RecordFields
       DEF DeliveryParses, LifecycleParses, IsSettled, SettledStatus, NoToken
  <2>5. QED BY <2>2, <2>3, <2>4 DEF Parses
<1>6. s.status # "absent"
  BY <1>3, RecordFields DEF IsSettled, SettledStatus
<1>7. WellFormed(s) BY <1>4, <1>5, <1>6 DEF WellFormed
<1>8. QED BY <1>7 DEF s

\* So does a result the agent reads, of a settled record.
LEMMA ObserveWellFormed ==
  ASSUME NEW r, WellFormed(r), NEW b \in BOOLEAN,
         IsSettled(r), Observe(r, b) # r
  PROVE  WellFormed(Observe(r, b))
<1> DEFINE s == Observe(r, b)
<1>1. s = [r EXCEPT !.observed = TRUE, !.consumed = (b \/ r.consumed),
                    !.delivery = (IF r.delivery \in {"pending", "claimed"} THEN "suppressed" ELSE r.delivery),
                    !.token = NoToken]
  BY DEF Observe
<1> HIDE DEF s
<1>2. r \in TaskRecord BY RecordFields
<1>3. /\ s.status = r.status
      /\ s.delivery = (IF r.delivery \in {"pending", "claimed"} THEN "suppressed" ELSE r.delivery)
      /\ s.exit = r.exit
      /\ s.anchors = r.anchors /\ s.identity = r.identity /\ s.completion = r.completion
      /\ s.observed = TRUE /\ s.consumed = (b \/ r.consumed) /\ s.token = NoToken
  BY <1>1, <1>2 DEF TaskRecord
<1>4. s \in TaskRecord
  BY <1>1, <1>2 DEF TaskRecord, Status, ActiveStatus, SettledStatus, Delivery,
                    ExitCode, Anchors, NoToken
<1>5. Parses(s)
  <2>1. r.status # "absent" => IdentityParses(r) /\ LifecycleParses(r) /\ DeliveryParses(r)
    BY DEF WellFormed, Parses
  <2>2. IdentityParses(s)
    BY <1>3, <2>1, RecordFields DEF IdentityParses, IsSettled, SettledStatus, ActiveStatus
  <2>3. LifecycleParses(s)
    BY <1>3, <2>1, RecordFields DEF LifecycleParses, IsSettled, SettledStatus, ActiveStatus
  <2>4. DeliveryParses(s)
    BY <1>3, <2>1, RecordFields
       DEF DeliveryParses, LifecycleParses, IsSettled, SettledStatus, NoToken
  <2>5. QED BY <2>2, <2>3, <2>4 DEF Parses
<1>6. s.status # "absent"
  BY <1>3, RecordFields DEF IsSettled, SettledStatus
<1>7. WellFormed(s) BY <1>4, <1>5, <1>6 DEF WellFormed
<1>8. QED BY <1>7 DEF s

-----------------------------------------------------------------------------

Records == \A t \in Task : WellFormed(rec[t])

\* Messages, and what a flush works on, belong to the session that is open.
Placed ==
  /\ \A p \in Process :
       /\ \A t \in flush[p].todo : Owner[t] = bound[p]
       /\ \A m \in Holds(p) : Owner[m[1]] = bound[p]
       /\ flush[p].pc = "claim" => inflight[p] = {}
       /\ flush[p].chosen # {} => flush[p].pc = "send"
  /\ \A s \in Session : \A m \in branch[s] : Owner[m[1]] = s

\* The tokens of the messages made so far are not newer than a claim that stands.
Newest ==
  \A m \in Receipt :
    Made(m) => m[2] <= claims /\ (rec[m[1]].token # NoToken => m[2] <= rec[m[1]].token)

Alone ==
  ~shared => \A p, q \in Process : p # q /\ bound[p] # Nobody => bound[p] # bound[q]

\* A message chosen or in Pi's hands is the claim its record holds, and no
\* transcript has one.
Leaving(p) == inflight[p] \cup flush[p].chosen
InPi ==
  ~shared => \A p \in Process : \A m \in Leaving(p) :
    /\ rec[m[1]].delivery = "claimed" /\ rec[m[1]].token = m[2]
    /\ \A s \in Session : \A n \in branch[s] : n[1] # m[1]

DeliveryInv == TypeOK /\ Records /\ Placed /\ Newest /\ Alone /\ InPi

-----------------------------------------------------------------------------
(***************************************************************************)
(* Records.                                                                *)
(***************************************************************************)
\* No delivery closure undoes what a record says of its result.
Remembers(r, s) ==
  /\ WellFormed(s) /\ s.status = r.status
  /\ r.observed => s.observed
  /\ r.delivery = "delivered" => s.delivery = "delivered"

\* What acknowledging and observing do to a record.
Advances(r, s) == Remembers(r, s) /\ (s = r \/ s.token = NoToken)

LEMMA SameAdvances == ASSUME NEW r, WellFormed(r) PROVE Advances(r, r)
BY DEF Advances, Remembers

LEMMA AdvancesTransitive ==
  ASSUME NEW r, NEW s, NEW u, Advances(r, s), Advances(s, u)
  PROVE  Advances(r, u)
BY DEF Advances, Remembers

\* A claimed record is settled, and nobody has seen its result.
LEMMA ClaimedFields ==
  ASSUME NEW r, WellFormed(r), r.delivery \in {"pending", "claimed"}
  PROVE  /\ r \in TaskRecord /\ IsSettled(r) /\ ~r.observed /\ ~r.consumed
         /\ IdentityParses(r) /\ LifecycleParses(r) /\ DeliveryParses(r)
<1>1. r \in TaskRecord BY DEF WellFormed
<1>2. r.status # "absent"
  <2>1. NoRecord.delivery = "none" BY DEF NoRecord
  <2>2. QED BY <2>1 DEF WellFormed
<1>3. IdentityParses(r) /\ LifecycleParses(r) /\ DeliveryParses(r)
  BY <1>2 DEF WellFormed, Parses
<1>4. IsSettled(r)
  BY <1>1, <1>2, <1>3 DEF TaskRecord, Status, IsSettled, LifecycleParses
<1>5. QED BY <1>1, <1>3, <1>4 DEF DeliveryParses

LEMMA AcknowledgeAdvances ==
  ASSUME NEW r, WellFormed(r), r.delivery = "claimed"
  PROVE  /\ Advances(r, Acknowledge(r)) /\ Acknowledge(r).delivery = "delivered"
         /\ Acknowledge(r).observed = r.observed
<1> DEFINE s == Acknowledge(r)
<1>1. s = [r EXCEPT !.delivery = "delivered", !.token = NoToken] BY DEF Acknowledge
<1> HIDE DEF s
<1>2. /\ r \in TaskRecord /\ IsSettled(r) /\ ~r.observed /\ ~r.consumed
      /\ IdentityParses(r) /\ LifecycleParses(r) /\ DeliveryParses(r)
  BY ClaimedFields
<1>3. /\ s.status = r.status /\ s.delivery = "delivered" /\ s.exit = r.exit
      /\ s.anchors = r.anchors /\ s.identity = r.identity /\ s.completion = r.completion
      /\ s.observed = r.observed /\ s.consumed = r.consumed /\ s.token = NoToken
  BY <1>1, <1>2 DEF TaskRecord
<1>4. s \in TaskRecord BY <1>1, <1>2 DEF TaskRecord, Delivery, NoToken
<1>5. IdentityParses(s) BY <1>2, <1>3 DEF IdentityParses
<1>6. LifecycleParses(s)
  BY <1>2, <1>3 DEF LifecycleParses, IsSettled, SettledStatus, ActiveStatus
<1>7. DeliveryParses(s) BY <1>2, <1>3 DEF DeliveryParses, NoToken
<1>8. s.status # "absent" BY <1>2, <1>3 DEF IsSettled, SettledStatus
<1>9. WellFormed(s) BY <1>4, <1>5, <1>6, <1>7, <1>8 DEF WellFormed, Parses
<1>10. Advances(r, s) BY <1>2, <1>3, <1>9 DEF Advances, Remembers
<1>11. QED BY <1>3, <1>10 DEF s

LEMMA ObserveAdvances ==
  ASSUME NEW r, WellFormed(r), NEW c \in BOOLEAN
  PROVE  /\ Advances(r, Observe(r, c))
         /\ Observe(r, c).delivery = "delivered" => r.delivery = "delivered"
<1>1. CASE Observe(r, c) = r BY <1>1, SameAdvances
<1>2. CASE Observe(r, c) # r
  <2> DEFINE s == Observe(r, c)
  <2>1. /\ s = [r EXCEPT !.observed = TRUE, !.consumed = (c \/ r.consumed),
                    !.delivery = (IF r.delivery \in {"pending", "claimed"} THEN "suppressed" ELSE r.delivery),
                    !.token = NoToken]
    BY <1>2 DEF Observe
  <2>2. WellFormed(s) BY <1>2, ObserveWellFormed DEF Observe
  <2> HIDE DEF s
  <2>3. r \in TaskRecord BY RecordFields
  <2>4. /\ s.status = r.status /\ s.observed = TRUE /\ s.token = NoToken
        /\ s.delivery = (IF r.delivery \in {"pending", "claimed"} THEN "suppressed" ELSE r.delivery)
    BY <2>1, <2>3 DEF TaskRecord
  <2>5. Advances(r, s) /\ (s.delivery = "delivered" => r.delivery = "delivered")
    BY <2>2, <2>4 DEF Advances, Remembers
  <2>6. QED BY <2>5 DEF s
<1>3. QED BY <1>1, <1>2

LEMMA ClaimFields ==
  ASSUME NEW r, WellFormed(r), r.delivery \in {"pending", "claimed"}, NEW k \in Nat \ {0}
  PROVE  /\ WellFormed(Claim(r, k)) /\ Claim(r, k).status = r.status
         /\ Claim(r, k).observed = r.observed /\ Claim(r, k).token = k
         /\ Claim(r, k).delivery = "claimed"
<1> DEFINE s == Claim(r, k)
<1>1. s = [r EXCEPT !.delivery = "claimed", !.token = k] BY DEF Claim
<1> HIDE DEF s
<1>2. /\ r \in TaskRecord /\ IsSettled(r) /\ ~r.observed /\ ~r.consumed
      /\ IdentityParses(r) /\ LifecycleParses(r) /\ DeliveryParses(r)
  BY ClaimedFields
<1>3. /\ s.status = r.status /\ s.delivery = "claimed" /\ s.exit = r.exit
      /\ s.anchors = r.anchors /\ s.identity = r.identity /\ s.completion = r.completion
      /\ s.observed = r.observed /\ s.consumed = r.consumed /\ s.token = k
  BY <1>1, <1>2 DEF TaskRecord
<1>4. s \in TaskRecord BY <1>1, <1>2 DEF TaskRecord, Delivery
<1>5. IdentityParses(s) BY <1>2, <1>3 DEF IdentityParses
<1>6. LifecycleParses(s)
  BY <1>2, <1>3 DEF LifecycleParses, IsSettled, SettledStatus, ActiveStatus
<1>7. DeliveryParses(s) BY <1>2, <1>3 DEF DeliveryParses, NoToken
<1>8. s.status # "absent" BY <1>2, <1>3 DEF IsSettled, SettledStatus
<1>9. WellFormed(s) BY <1>4, <1>5, <1>6, <1>7, <1>8 DEF WellFormed, Parses
<1>10. QED BY <1>3, <1>9 DEF s

-----------------------------------------------------------------------------
(***************************************************************************)
(* What most steps leave alone: no message is made, no claim is taken.     *)
(***************************************************************************)
\* A flush or Pi loses or keeps what it holds of the session that is open.
Keeping ==
  \A q \in Process :
    /\ Holds(q)' \subseteq Holds(q) /\ Leaving(q)' \subseteq Leaving(q)
    /\ \A t \in flush'[q].todo : t \in flush[q].todo \/ Owner[t] = bound'[q]
    /\ flush'[q].pc = "claim" =>
         inflight'[q] = {} \/ (flush[q].pc = "claim" /\ inflight'[q] = inflight[q])
    /\ flush'[q].chosen # {} => flush'[q].pc = "send"
    /\ bound'[q] = bound[q] \/ (Holds(q)' = {} /\ flush'[q].todo = {})

LEMMA LeavingReceipts ==
  ASSUME TypeOK, NEW q \in Process PROVE Leaving(q) \subseteq Receipt /\ Holds(q) \subseteq Receipt
BY DEF TypeOK, Flush, Leaving, Holds

LEMMA KeepingStep ==
  ASSUME DeliveryInv, TypeOK', Alone', Keeping, UNCHANGED <<branch, claims, shared>>,
         \A t \in Task : WellFormed(rec'[t]),
         \A t \in Task : rec'[t].token \in {rec[t].token, NoToken},
         ~shared => \A q \in Process : \A m \in Leaving(q)' : rec'[m[1]] = rec[m[1]]
  PROVE  DeliveryInv'
<1>1. Records' BY DEF Records
<1>2. Placed'
  BY DEF Placed, DeliveryInv, Keeping
<1>3. \A m : Made(m)' => Made(m) BY DEF Made, Keeping
<1>4. Newest'
  BY <1>3 DEF Newest, DeliveryInv, Receipt
<1>5. InPi' BY DEF InPi, DeliveryInv, Keeping
<1>6. QED BY <1>1, <1>2, <1>4, <1>5 DEF DeliveryInv

LEMMA UnboundAlone == ASSUME Alone, UNCHANGED <<bound, shared>> PROVE Alone'
BY DEF Alone

-----------------------------------------------------------------------------
(***************************************************************************)
(* Acknowledging what a transcript shows.                                  *)
(***************************************************************************)
LEMMA AckedFields ==
  ASSUME TypeOK, Records, NEW b, NEW p \in Process, NEW s, NEW done \in SUBSET Matching(p, s, b),
         NEW t \in Task
  PROVE  /\ Advances(rec[t], Acked(b, done)[t])
         /\ Acked(b, done)[t].observed = rec[t].observed
         /\ Acked(b, done)[t] # rec[t] =>
              /\ rec[t].delivery = "claimed" /\ Owner[t] = s /\ <<t, rec[t].token>> \in b
<1>1. WellFormed(rec[t]) BY DEF Records
<1>2. CASE t \in done /\ rec[t].delivery = "claimed" /\ <<t, rec[t].token>> \in b
  <2>1. Acked(b, done)[t] = Acknowledge(rec[t]) BY <1>2 DEF Acked
  <2>2. Owner[t] = s BY <1>2 DEF Matching, Owned
  <2>3. QED BY <1>1, <1>2, <2>1, <2>2, AcknowledgeAdvances
<1>3. CASE ~(t \in done /\ rec[t].delivery = "claimed" /\ <<t, rec[t].token>> \in b)
  <2>1. Acked(b, done)[t] = rec[t] BY <1>3 DEF Acked
  <2>2. QED BY <1>1, <2>1, SameAdvances
<1>4. QED BY <1>2, <1>3

LEMMA AckedTypes ==
  ASSUME TypeOK, Records, NEW b, NEW p \in Process, NEW s, NEW done \in SUBSET Matching(p, s, b)
  PROVE  /\ Acked(b, done) \in [Task -> TaskRecord]
         /\ \A recs \in [Task -> TaskRecord] : Adopted(p, done, recs) \in [Task -> TaskRecord]
<1>1. \A t \in Task : Acked(b, done)[t] \in TaskRecord
  BY AckedFields DEF Advances, Remembers, WellFormed
<1>2. Acked(b, done) = [t \in Task |-> Acked(b, done)[t]] BY DEF Acked
<1>3. \A recs \in [Task -> TaskRecord] : Adopted(p, done, recs) \in [Task -> TaskRecord]
  BY DEF Adopted, TypeOK
<1>4. QED BY <1>1, <1>2, <1>3

\* What the claims of other processes and those Pi holds are to reconcile().
LEMMA ReconcileStep ==
  ASSUME TypeOK, Records, NEW p \in Process, NEW b, NEW onError \in {"off", "short", "lease"},
         Reconcile(p, b, onError)
  PROVE  /\ rec' \in [Task -> TaskRecord] /\ view' \in [Process -> [Task -> TaskRecord]]
         /\ timer' \in [Process -> {"off", "short", "lease"}] /\ fresh' \subseteq Task
         /\ failures' \in 0..MaxFailures
         /\ \A t \in Task :
              /\ Advances(rec[t], rec'[t]) /\ rec'[t].observed = rec[t].observed
              /\ rec'[t] # rec[t] =>
                   rec[t].delivery = "claimed" /\ Owner[t] = bound[p] /\ <<t, rec[t].token>> \in b
<1> DEFINE matching == Matching(p, bound[p], b)
<1>1. PICK done \in SUBSET matching :
        /\ rec' = Acked(b, done)
        /\ view' = [view EXCEPT ![p] = Adopted(p, done, rec')]
        /\ \/ timer' = [timer EXCEPT ![p] = Synced(bound[p], view'[p])] /\ UNCHANGED failures
           \/ timer' = [timer EXCEPT ![p] = onError] /\ Fail
        /\ fresh' = Leases(rec')
  BY DEF Reconcile
<1> HIDE DEF matching
<1>2. done \in SUBSET Matching(p, bound[p], b) BY <1>1 DEF matching
<1>3. rec' \in [Task -> TaskRecord] BY <1>1, <1>2, AckedTypes
<1>4. view' \in [Process -> [Task -> TaskRecord]]
  <2>1. Adopted(p, done, rec') \in [Task -> TaskRecord] BY <1>2, <1>3, AckedTypes
  <2>2. QED BY <1>1, <2>1 DEF TypeOK
<1>5. timer' \in [Process -> {"off", "short", "lease"}]
  <2>1. Synced(bound[p], view'[p]) \in {"off", "short", "lease"} BY DEF Synced
  <2>2. QED BY <1>1, <2>1 DEF TypeOK
<1>6. fresh' \subseteq Task BY <1>1 DEF Leases, TypeOK
<1>7. failures' \in 0..MaxFailures
  BY <1>1, DeliveryAssumption DEF TypeOK, Fail
<1>8. ASSUME NEW t \in Task
      PROVE  /\ Advances(rec[t], rec'[t]) /\ rec'[t].observed = rec[t].observed
             /\ rec'[t] # rec[t] =>
                  rec[t].delivery = "claimed" /\ Owner[t] = bound[p] /\ <<t, rec[t].token>> \in b
  <2>1. rec'[t] = Acked(b, done)[t] BY <1>1
  <2>2. /\ Advances(rec[t], Acked(b, done)[t])
        /\ Acked(b, done)[t].observed = rec[t].observed
        /\ Acked(b, done)[t] # rec[t] =>
             /\ rec[t].delivery = "claimed" /\ Owner[t] = bound[p] /\ <<t, rec[t].token>> \in b
    BY <1>2, AckedFields, Z3
  <2>3. QED BY <2>1, <2>2
<1>9. QED BY <1>3, <1>4, <1>5, <1>6, <1>7, <1>8

-----------------------------------------------------------------------------
(***************************************************************************)
(* The steps of one process, by what they do to its records and messages.  *)
(***************************************************************************)
\* Sessions, the index, the timer, and the ends of a flush write no record.
LEMMA QuietSteps ==
  ASSUME DeliveryInv, NEW p \in Process,
         \/ Replace(p) \/ IndexReady(p) \/ TimerFires(p) \/ FlushDropped(p) \/ FlushEnd(p)
         \/ \E s \in Session : Bind(p, s)
         \/ \E t \in Task : Learn(p, t)
  PROVE  DeliveryInv' /\ UNCHANGED <<rec, branch, shared>>
<1> USE DEF DeliveryInv
<1>1. CASE Replace(p)
  <2>1. TypeOK'
    BY <1>1, DeliveryAssumption DEF Replace, TypeOK, store, Flush, NoFlush, NoRecord, TaskRecord,
          Status, Delivery, ExitCode, Anchors, NoToken
  <2>2. Keeping
    BY <1>1 DEF Holds, Leaving, DeliveryInv, Placed, Replace, Keeping, TypeOK, NoFlush
  <2>3. Alone' BY <1>1 DEF Replace, Alone, TypeOK
  <2>4. QED BY <1>1, <2>1, <2>2, <2>3, KeepingStep DEF Replace, store, Records, Keeping
<1>2. CASE IndexReady(p)
  <2>1. TypeOK' BY <1>2 DEF IndexReady, TypeOK, store, counts
  <2>2. Keeping BY <1>2 DEF Holds, Leaving, DeliveryInv, Placed, IndexReady, Keeping
  <2>3. Alone' BY <1>2, UnboundAlone DEF IndexReady, counts
  <2>4. QED BY <1>2, <2>1, <2>2, <2>3, KeepingStep DEF IndexReady, store, counts, Records
<1>3. CASE TimerFires(p)
  <2>1. TypeOK' BY <1>3 DEF TimerFires, TypeOK, store, counts
  <2>2. Keeping BY <1>3 DEF Holds, Leaving, DeliveryInv, Placed, TimerFires, Keeping
  <2>3. Alone' BY <1>3, UnboundAlone DEF TimerFires, counts
  <2>4. QED BY <1>3, <2>1, <2>2, <2>3, KeepingStep DEF TimerFires, store, counts, Records
<1>4. CASE FlushDropped(p)
  <2>1. TypeOK' BY <1>4 DEF FlushDropped, TypeOK, store, counts
  <2>2. Keeping BY <1>4 DEF Holds, Leaving, DeliveryInv, Placed, FlushDropped, Keeping
  <2>3. Alone' BY <1>4, UnboundAlone DEF FlushDropped, counts
  <2>4. QED BY <1>4, <2>1, <2>2, <2>3, KeepingStep DEF FlushDropped, store, counts, Records
<1>5. CASE FlushEnd(p)
  <2>1. TypeOK'
    <3>1. NoFlush \in Flush /\ flush[p].published \in BOOLEAN BY DEF NoFlush, Flush, TypeOK
    <3>2. Synced(bound[p], view[p]) \in {"off", "short", "lease"} BY DEF Synced
    <3>3. QED BY <1>5, <3>1, <3>2 DEF FlushEnd, TypeOK, store, counts
  <2>2. Keeping BY <1>5 DEF Holds, Leaving, DeliveryInv, Placed, FlushEnd, Keeping, TypeOK, NoFlush
  <2>3. Alone' BY <1>5, UnboundAlone DEF FlushEnd, counts
  <2>4. QED BY <1>5, <2>1, <2>2, <2>3, KeepingStep DEF FlushEnd, store, counts, Records
<1>6. ASSUME NEW s \in Session, Bind(p, s) PROVE DeliveryInv' /\ UNCHANGED <<rec, branch, shared>>
  <2>1. TypeOK' BY <1>6 DEF Bind, TypeOK, store, counts
  <2>2. Alone' BY <1>6 DEF Bind, Alone, TypeOK, counts
  <2>3. bound[p] = Nobody /\ Nobody \notin Session BY <1>6, DeliveryAssumption DEF Bind
  <2>4. Holds(p) = {} /\ flush[p].todo = {}
    <3>1. \A m \in Receipt : Owner[m[1]] # bound[p]
      BY <2>3, DeliveryAssumption DEF Receipt
    <3>2. \A t \in Task : Owner[t] # bound[p] BY <2>3, DeliveryAssumption
    <3>3. Holds(p) \subseteq Receipt /\ flush[p].todo \subseteq Task
      BY LeavingReceipts DEF TypeOK, Flush
    <3>4. QED BY <3>1, <3>2, <3>3 DEF Placed
  <2>5. Keeping BY <1>6, <2>4 DEF Holds, Leaving, DeliveryInv, Placed, Bind, Keeping, TypeOK
  <2>6. QED BY <1>6, <2>1, <2>2, <2>5, KeepingStep DEF Bind, store, counts, Records
<1>7. ASSUME NEW t \in Task, Learn(p, t) PROVE DeliveryInv' /\ UNCHANGED <<rec, branch, shared>>
  <2>1. TypeOK'
    <3>1. queued'[p] \in BOOLEAN BY <1>7 DEF Learn, Notifies, TypeOK
    <3>2. rec[t] \in TaskRecord BY DEF TypeOK
    <3>3. QED BY <1>7, <3>1, <3>2 DEF Learn, Adopt, Notifies, TypeOK, store, counts
  <2>2. Keeping BY <1>7 DEF Holds, Leaving, DeliveryInv, Placed, Learn, Keeping
  <2>3. Alone' BY <1>7, UnboundAlone DEF Learn, counts
  <2>4. QED BY <1>7, <2>1, <2>2, <2>3, KeepingStep DEF Learn, store, counts, Records
<1>8. QED BY <1>1, <1>2, <1>3, <1>4, <1>5, <1>6, <1>7

-----------------------------------------------------------------------------
\* What a step does that acknowledges and observes: a completion is acknowledged only
\* when the transcript of its session has it.
Recorded ==
  /\ UNCHANGED <<branch, shared>>
  /\ \A t \in Task :
       /\ Remembers(rec[t], rec'[t])
       /\ rec'[t].delivery = "delivered" /\ rec[t].delivery # "delivered" =>
            \E k \in Token : <<t, k>> \in branch[Owner[t]]

LEMMA ShownToken ==
  ASSUME TypeOK, NEW s \in Session, NEW t, NEW k, <<t, k>> \in branch[s]
  PROVE  k \in Token
BY DEF TypeOK, Receipt

\* A reconciliation changes nothing that Pi holds.
LEMMA ReconcileKeeps ==
  ASSUME DeliveryInv, NEW p \in Process, NEW onError \in {"off", "short", "lease"},
         Reconcile(p, branch[bound[p]], onError),
         UNCHANGED <<claims, branch, ready, bound, inflight, flush, shared, replaced>>,
         busy' \in [Process -> BOOLEAN], queued' \in [Process -> BOOLEAN],
         sent' \in [Process -> BOOLEAN]
  PROVE  DeliveryInv' /\ Recorded
<1> USE DEF DeliveryInv
<1> DEFINE b == branch[bound[p]]
<1>1. Reconcile(p, b, onError) OBVIOUS
<1> HIDE DEF b
<1>2. /\ rec' \in [Task -> TaskRecord] /\ view' \in [Process -> [Task -> TaskRecord]]
      /\ timer' \in [Process -> {"off", "short", "lease"}] /\ fresh' \subseteq Task
      /\ failures' \in 0..MaxFailures
      /\ \A t \in Task :
           /\ Advances(rec[t], rec'[t]) /\ rec'[t].observed = rec[t].observed
           /\ rec'[t] # rec[t] =>
                rec[t].delivery = "claimed" /\ Owner[t] = bound[p] /\ <<t, rec[t].token>> \in b
  BY <1>1, ReconcileStep, Z3
<1>3. TypeOK' BY <1>2 DEF TypeOK
<1>4. Alone' BY UnboundAlone
<1>5. Keeping BY DEF Holds, Leaving, DeliveryInv, Placed, Keeping
<1>6. ~shared => \A q \in Process : \A m \in Leaving(q)' : rec'[m[1]] = rec[m[1]]
  <2>1. SUFFICES ASSUME ~shared, NEW q \in Process, NEW m \in Leaving(q), rec'[m[1]] # rec[m[1]]
                 PROVE  FALSE
    BY DEF Leaving
  <2>2. m[1] \in Task BY LeavingReceipts DEF Receipt
  <2>3. Owner[m[1]] = bound[p] /\ <<m[1], rec[m[1]].token>> \in b BY <1>2, <2>1, <2>2
  <2>4. bound[p] \in Session BY <2>2, <2>3, DeliveryAssumption
  <2>5. QED BY <2>1, <2>3, <2>4 DEF InPi, b
<1>7. DeliveryInv'
  BY <1>2, <1>3, <1>4, <1>5, <1>6, KeepingStep DEF Advances, Remembers
<1>8. Recorded
  <2>1. SUFFICES ASSUME NEW t \in Task, rec'[t].delivery = "delivered", rec[t].delivery # "delivered"
                 PROVE  \E k \in Token : <<t, k>> \in branch[Owner[t]]
    BY <1>2 DEF Recorded, Advances
  <2>2. Owner[t] = bound[p] /\ <<t, rec[t].token>> \in branch[Owner[t]] BY <1>2, <2>1 DEF b
  <2>3. Owner[t] \in Session BY DeliveryAssumption
  <2>4. QED BY <2>2, <2>3, ShownToken
<1>9. QED BY <1>7, <1>8

\* Pi's events, a tool that only touches, and the microtask after a send.
LEMMA ReconcileSteps ==
  ASSUME DeliveryInv, NEW p \in Process,
         AgentStart(p) \/ AgentSettled(p) \/ ForeignMessage(p) \/ Touch(p) \/ AfterSend(p)
  PROVE  DeliveryInv' /\ Recorded
<1>1. /\ busy \in [Process -> BOOLEAN] /\ queued \in [Process -> BOOLEAN]
      /\ sent \in [Process -> BOOLEAN] /\ timer[p] \in {"off", "short", "lease"}
      /\ Short \in {"off", "short", "lease"} /\ Heard(p) \in BOOLEAN
  BY DEF DeliveryInv, TypeOK, Short, Heard
<1>2. CASE AgentStart(p)
  BY <1>1, <1>2, ReconcileKeeps DEF AgentStart, kept
<1>3. CASE AgentSettled(p)
  BY <1>1, <1>3, ReconcileKeeps DEF AgentSettled, kept
<1>4. CASE ForeignMessage(p)
  BY <1>1, <1>4, ReconcileKeeps DEF ForeignMessage, kept
<1>5. CASE Touch(p)
  BY <1>1, <1>5, ReconcileKeeps DEF Touch, kept
<1>6. CASE AfterSend(p)
  BY <1>1, <1>6, ReconcileKeeps DEF AfterSend, kept
<1>7. QED BY <1>2, <1>3, <1>4, <1>5, <1>6

-----------------------------------------------------------------------------
\* A settlement decides for good whether the result still has to be delivered.
LEMMA SettledFields ==
  ASSUME NEW r, WellFormed(r), ~IsSettled(r),
         NEW s \in {SettleNatural(r, "zero"), SettleCancelled(r)}
  PROVE  /\ WellFormed(s) /\ IsSettled(s) /\ s.token = r.token
         /\ s.delivery # "delivered" /\ s.observed \in BOOLEAN
         /\ ~r.observed /\ r.delivery = "none"
<1>1. /\ r \in TaskRecord /\ ~r.observed /\ r.delivery = "none" BY RecordFields
<1>2. WellFormed(s) BY NaturalWellFormed, CancelledWellFormed
<1>3. CASE s = SettleNatural(r, "zero")
  <2>1. s = [r EXCEPT !.status = "completed", !.exit = "zero", !.completion = TRUE,
                      !.observed = FALSE, !.consumed = FALSE, !.delivery = "pending"]
    BY <1>3 DEF SettleNatural, Settle
  <2>2. s.status = "completed" /\ s.token = r.token /\ s.delivery = "pending" /\ s.observed = FALSE
    BY <1>1, <2>1 DEF TaskRecord
  <2>3. QED BY <1>1, <1>2, <2>2 DEF IsSettled, SettledStatus
<1>4. CASE s = SettleCancelled(r)
  <2>1. s = [r EXCEPT !.status = "cancelled", !.exit = "null", !.completion = TRUE,
                      !.observed = TRUE, !.consumed = TRUE, !.delivery = "suppressed"]
    BY <1>4 DEF SettleCancelled
  <2>2. s.status = "cancelled" /\ s.token = r.token /\ s.delivery = "suppressed" /\ s.observed = TRUE
    BY <1>1, <2>1 DEF TaskRecord
  <2>3. QED BY <1>1, <1>2, <2>2 DEF IsSettled, SettledStatus
<1>5. QED BY <1>3, <1>4

LEMMA SettleStep ==
  ASSUME DeliveryInv, NEW p \in Process, NEW t \in Task, SettleTask(p, t)
  PROVE  /\ DeliveryInv' /\ UNCHANGED <<branch, shared>>
         /\ ~IsSettled(rec[t]) /\ IsSettled(rec'[t])
         /\ rec[t].delivery # "delivered" /\ rec'[t].delivery # "delivered"
         /\ ~rec[t].observed
         /\ \A u \in Task : u # t => rec'[u] = rec[u]
<1> USE DEF DeliveryInv
<1>1. PICK r \in {SettleNatural(rec[t], "zero"), SettleCancelled(rec[t])} :
        /\ rec' = [rec EXCEPT ![t] = r]
        /\ view' = [view EXCEPT ![p][t] = r]
        /\ queued' = [queued EXCEPT ![p] = Notifies(p, t, r)]
  BY DEF SettleTask, Adopt
<1>2. WellFormed(rec[t]) /\ ~IsSettled(rec[t]) BY DEF SettleTask, Records
<1>3. /\ WellFormed(r) /\ IsSettled(r) /\ r.token = rec[t].token
      /\ r.delivery # "delivered" /\ ~rec[t].observed /\ rec[t].delivery = "none"
  BY <1>2, SettledFields
<1>4. rec'[t] = r /\ \A u \in Task : u # t => rec'[u] = rec[u] BY <1>1 DEF TypeOK
<1>5. TypeOK'
  <2>1. r \in TaskRecord BY <1>3 DEF WellFormed
  <2>2. Notifies(p, t, r) \in BOOLEAN BY DEF Notifies
  <2>3. rec' \in [Task -> TaskRecord] BY <1>1, <2>1 DEF TypeOK
  <2>4. view' \in [Process -> [Task -> TaskRecord]] BY <1>1, <2>1 DEF TypeOK
  <2>5. queued' \in [Process -> BOOLEAN] BY <1>1, <2>2 DEF TypeOK
  <2>6. QED BY <2>3, <2>4, <2>5 DEF SettleTask, TypeOK, counts
<1>6. Alone' BY UnboundAlone DEF SettleTask, counts
<1>7. Keeping BY DEF Holds, Leaving, DeliveryInv, Placed, Keeping, SettleTask
<1>8. ~shared => \A q \in Process : \A m \in Leaving(q)' : rec'[m[1]] = rec[m[1]]
  <2>1. SUFFICES ASSUME ~shared, NEW q \in Process, NEW m \in Leaving(q)
                 PROVE  rec'[m[1]] = rec[m[1]]
    BY DEF SettleTask, Leaving
  <2>2. m[1] \in Task BY LeavingReceipts DEF Receipt
  <2>3. rec[m[1]].delivery = "claimed" BY <2>1 DEF InPi
  <2>4. QED BY <1>3, <1>4, <2>2, <2>3
<1>9. DeliveryInv'
  <2>1. \A u \in Task : WellFormed(rec'[u]) BY <1>3, <1>4 DEF Records
  <2>2. \A u \in Task : rec'[u].token \in {rec[u].token, NoToken} BY <1>3, <1>4
  <2>3. QED BY <1>5, <1>6, <1>7, <1>8, <2>1, <2>2, KeepingStep DEF SettleTask, counts
<1>10. QED BY <1>2, <1>3, <1>4, <1>9 DEF SettleTask, counts

LEMMA ExpireStep ==
  ASSUME DeliveryInv, NEW t \in Task, LeaseExpires(t)
  PROVE  DeliveryInv' /\ UNCHANGED <<rec, branch, shared>>
<1> USE DEF DeliveryInv
<1>1. TypeOK' BY DEF LeaseExpires, TypeOK, coordinator, counts
<1>2. Keeping BY DEF Holds, Leaving, DeliveryInv, Placed, LeaseExpires, Keeping, coordinator
<1>3. Alone' BY UnboundAlone DEF LeaseExpires, counts
<1>4. QED BY <1>1, <1>2, <1>3, KeepingStep DEF LeaseExpires, coordinator, counts, Records

-----------------------------------------------------------------------------
\* Under exclusive sessions only the process that has m's session open has its terminal.
LEMMA OwnMessage ==
  ASSUME DeliveryInv, ~shared, NEW p \in Process, NEW q \in Process, NEW m \in Leaving(q),
         Owner[m[1]] = bound[p]
  PROVE  q = p
<1>1. m[1] \in Task BY LeavingReceipts DEF DeliveryInv, Receipt
<1>2. Owner[m[1]] = bound[q] BY DEF DeliveryInv, Placed, Holds, Leaving
<1>3. bound[p] # Nobody BY <1>1, DeliveryAssumption
<1>4. QED BY <1>2, <1>3 DEF DeliveryInv, Alone

LEMMA ToolStep ==
  ASSUME DeliveryInv, NEW p \in Process, NEW t \in Task, Tool(p, t)
  PROVE  DeliveryInv' /\ Recorded
<1> USE DEF DeliveryInv
<1> DEFINE b == branch[bound[p]]
           matching == Matching(p, bound[p], b)
           touched == Acked(b, matching)
<1>1. PICK c \in BOOLEAN :
        /\ rec' = [touched EXCEPT ![t] = Observe(@, c)]
        /\ view' = [view EXCEPT ![p] = [Adopted(p, matching, touched) EXCEPT ![t] = rec'[t]]]
  BY DEF Tool, Observes
<1>2. Owner[t] = bound[p] /\ inflight[p] = {}
      /\ timer' = [timer EXCEPT ![p] = Synced(bound[p], Adopted(p, matching, touched))]
      /\ fresh' = Leases(rec') /\ queued' = [queued EXCEPT ![p] = Heard(p)]
      /\ UNCHANGED <<claims, branch, ready, bound, busy, sent, inflight, flush, shared, replaced, failures>>
  BY DEF Tool, counts
<1>3. matching \in SUBSET Matching(p, bound[p], b) OBVIOUS
<1>4. touched \in [Task -> TaskRecord] /\ Adopted(p, matching, touched) \in [Task -> TaskRecord]
  <2> HIDE DEF matching, b
  <2>1. touched \in [Task -> TaskRecord] BY <1>3, AckedTypes
  <2> HIDE DEF touched
  <2>2. QED BY <1>3, <2>1, AckedTypes
<1>5. ASSUME NEW u \in Task
      PROVE  /\ Advances(rec[u], touched[u])
             /\ touched[u] # rec[u] =>
                  /\ rec[u].delivery = "claimed" /\ Owner[u] = bound[p] /\ <<u, rec[u].token>> \in b
  <2> HIDE DEF matching, b
  <2>1. QED BY <1>3, AckedFields, Z3
<1> HIDE DEF touched, matching, b
<1>6. ASSUME NEW u \in Task
      PROVE  /\ Advances(rec[u], rec'[u])
             /\ rec'[u] # rec[u] => Owner[u] = bound[p]
             /\ rec'[u].delivery = "delivered" /\ rec[u].delivery # "delivered" => <<u, rec[u].token>> \in b
  <2>1. CASE u # t
    <3>1. rec'[u] = touched[u] BY <1>1, <1>4, <2>1
    <3>2. QED BY <1>5, <3>1
  <2>2. CASE u = t
    <3>1. rec'[u] = Observe(touched[u], c) BY <1>1, <1>4, <2>2
    <3>2. WellFormed(touched[u]) BY <1>5 DEF Advances, Remembers
    <3>3. /\ Advances(touched[u], Observe(touched[u], c))
          /\ Observe(touched[u], c).delivery = "delivered" => touched[u].delivery = "delivered"
      BY <3>2, ObserveAdvances
    <3>4. Advances(rec[u], rec'[u]) BY <1>5, <3>1, <3>3, AdvancesTransitive
    <3>5. QED BY <1>2, <1>5, <2>2, <3>1, <3>3, <3>4
  <2>3. QED BY <2>1, <2>2
<1>7. TypeOK'
  <2>1. rec' \in [Task -> TaskRecord]
    <3>1. \A u \in Task : rec'[u] \in TaskRecord BY <1>6 DEF Advances, Remembers, WellFormed
    <3>2. rec' = [u \in Task |-> rec'[u]] BY <1>1, <1>4
    <3>3. QED BY <3>1, <3>2
  <2>2. view' \in [Process -> [Task -> TaskRecord]] BY <1>1, <1>4, <2>1 DEF TypeOK
  <2>3. Synced(bound[p], Adopted(p, matching, touched)) \in {"off", "short", "lease"} BY DEF Synced
  <2>4. timer' \in [Process -> {"off", "short", "lease"}] BY <1>2, <2>3 DEF TypeOK
  <2>5. Heard(p) \in BOOLEAN BY DEF Heard
  <2>6. queued' \in [Process -> BOOLEAN] BY <1>2, <2>5 DEF TypeOK
  <2>7. fresh' \subseteq Task BY <1>2 DEF Leases, TypeOK
  <2>8. QED BY <1>2, <2>1, <2>2, <2>4, <2>6, <2>7 DEF TypeOK
<1>8. Alone' BY <1>2, UnboundAlone
<1>9. Keeping BY <1>2 DEF Holds, Leaving, DeliveryInv, Placed, Keeping
<1>10. ~shared => \A q \in Process : \A m \in Leaving(q)' : rec'[m[1]] = rec[m[1]]
  <2>1. SUFFICES ASSUME ~shared, NEW q \in Process, NEW m \in Leaving(q), rec'[m[1]] # rec[m[1]]
                 PROVE  FALSE
    BY <1>2 DEF Leaving
  <2>2. m[1] \in Task BY LeavingReceipts DEF Receipt
  <2>3. q = p BY <1>6, <2>1, <2>2, OwnMessage
  <2>4. Leaving(p) = {} BY <1>2 DEF Tool, Event, Quiet, Placed, Leaving
  <2>5. QED BY <2>1, <2>3, <2>4
<1>11. DeliveryInv' BY <1>2, <1>6, <1>7, <1>8, <1>9, <1>10, KeepingStep DEF Advances, Remembers
<1>12. Recorded
  <2>1. SUFFICES ASSUME NEW u \in Task, rec'[u].delivery = "delivered", rec[u].delivery # "delivered"
                 PROVE  \E k \in Token : <<u, k>> \in branch[Owner[u]]
    BY <1>2, <1>6 DEF Recorded, Advances
  <2>2. <<u, rec[u].token>> \in b /\ Owner[u] = bound[p] BY <1>6, <2>1 DEF Advances, Remembers
  <2>3. Owner[u] \in Session BY DeliveryAssumption
  <2>4. QED BY <2>2, <2>3, ShownToken DEF b
<1>13. QED BY <1>11, <1>12

-----------------------------------------------------------------------------
(***************************************************************************)
(* The steps of a flush.                                                   *)
(***************************************************************************)
LEMMA FlushBeginStep ==
  ASSUME DeliveryInv, NEW p \in Process, FlushBegin(p)
  PROVE  DeliveryInv' /\ Recorded
<1> USE DEF DeliveryInv
<1> DEFINE b == branch[bound[p]]
<1>1. PICK done \in SUBSET Matching(p, bound[p], b) :
        /\ rec' = Acked(b, done)
        /\ view' = [view EXCEPT ![p] = Adopted(p, done, rec')]
        /\ \/ /\ flush' = [flush EXCEPT ![p] =
                          [NoFlush EXCEPT !.pc = "claim", !.todo = Owned(bound[p])]]
              /\ UNCHANGED <<timer, failures>>
           \/ timer' = [timer EXCEPT ![p] = "short"] /\ Fail /\ UNCHANGED flush
  BY DEF FlushBegin
<1>2. /\ inflight[p] = {} /\ fresh' = Leases(rec') /\ queued' = [queued EXCEPT ![p] = Heard(p)]
      /\ UNCHANGED <<claims, branch, ready, bound, busy, sent, inflight, shared, replaced>>
  BY DEF FlushBegin, Idle, kept
<1> HIDE DEF b
<1>3. ASSUME NEW u \in Task
      PROVE  /\ Advances(rec[u], rec'[u])
             /\ rec'[u] # rec[u] => Owner[u] = bound[p] /\ <<u, rec[u].token>> \in b
  <2>1. rec'[u] = Acked(b, done)[u] BY <1>1
  <2>2. /\ Advances(rec[u], Acked(b, done)[u])
        /\ Acked(b, done)[u] # rec[u] =>
             /\ rec[u].delivery = "claimed" /\ Owner[u] = bound[p] /\ <<u, rec[u].token>> \in b
    BY AckedFields, Z3
  <2>3. QED BY <2>1, <2>2
<1>4. Adopted(p, done, rec') \in [Task -> TaskRecord] /\ rec' \in [Task -> TaskRecord]
  <2>1. rec' \in [Task -> TaskRecord] BY <1>1, AckedTypes
  <2>2. QED BY <2>1, AckedTypes
<1>5. TypeOK'
  <2>1. view' \in [Process -> [Task -> TaskRecord]] BY <1>1, <1>4 DEF TypeOK
  <2>2. [NoFlush EXCEPT !.pc = "claim", !.todo = Owned(bound[p])] \in Flush
    BY DEF NoFlush, Flush, Owned
  <2>3. flush' \in [Process -> Flush] BY <1>1, <2>2 DEF TypeOK
  <2>4. timer' \in [Process -> {"off", "short", "lease"}] BY <1>1 DEF TypeOK
  <2>5. failures' \in 0..MaxFailures BY <1>1, DeliveryAssumption DEF TypeOK, Fail
  <2>6. Heard(p) \in BOOLEAN BY DEF Heard
  <2>7. queued' \in [Process -> BOOLEAN] BY <1>2, <2>6 DEF TypeOK
  <2>8. fresh' \subseteq Task BY <1>2 DEF Leases, TypeOK
  <2>9. QED BY <1>2, <1>4, <2>1, <2>3, <2>4, <2>5, <2>7, <2>8 DEF TypeOK
<1>6. Alone' BY <1>2, UnboundAlone
<1>7. Keeping
  <2>1. \A q \in Process : q # p => flush'[q] = flush[q] BY <1>1 DEF TypeOK
  <2>2. CASE flush'[p] = flush[p]
    BY <1>2, <2>1, <2>2 DEF Keeping, Holds, Leaving, Placed
  <2>3. CASE flush' = [flush EXCEPT ![p] = [NoFlush EXCEPT !.pc = "claim", !.todo = Owned(bound[p])]]
    <3>1. /\ flush'[p].claimed = {} /\ flush'[p].todo = Owned(bound[p])
          /\ flush'[p].chosen = {} /\ flush'[p].pc = "claim"
      BY <2>3 DEF NoFlush, TypeOK
    <3>2. QED BY <1>2, <2>1, <3>1 DEF Keeping, Owned, Holds, Leaving, Placed
  <2>4. QED BY <1>1, <2>2, <2>3
<1>8. ~shared => \A q \in Process : \A m \in Leaving(q)' : rec'[m[1]] = rec[m[1]]
  <2>1. SUFFICES ASSUME ~shared, NEW q \in Process, NEW m \in Leaving(q), rec'[m[1]] # rec[m[1]]
                 PROVE  FALSE
    BY <1>7 DEF Keeping
  <2>2. m[1] \in Task BY LeavingReceipts DEF Receipt
  <2>3. q = p BY <1>3, <2>1, <2>2, OwnMessage
  <2>4. Leaving(p) = {} BY <1>2 DEF FlushBegin, Placed, Leaving
  <2>5. QED BY <2>1, <2>3, <2>4
<1>9. DeliveryInv' BY <1>2, <1>3, <1>5, <1>6, <1>7, <1>8, KeepingStep DEF Advances, Remembers
<1>10. Recorded
  <2>1. SUFFICES ASSUME NEW u \in Task, rec'[u].delivery = "delivered", rec[u].delivery # "delivered"
                 PROVE  \E k \in Token : <<u, k>> \in branch[Owner[u]]
    BY <1>2, <1>3 DEF Recorded, Advances
  <2>2. <<u, rec[u].token>> \in b /\ Owner[u] = bound[p] BY <1>3, <2>1
  <2>3. Owner[u] \in Session BY DeliveryAssumption
  <2>4. QED BY <2>2, <2>3, ShownToken DEF b
<1>11. QED BY <1>9, <1>10

\* A claim that the locked record allows.
LEMMA ClaimTaken ==
  ASSUME DeliveryInv, NEW p \in Process, NEW t \in flush[p].todo,
         flush[p].pc = "claim", claims < MaxClaims, rec[t].delivery \in {"pending", "claimed"},
         rec' = [rec EXCEPT ![t] = Claim(@, claims + 1)], claims' = claims + 1,
         fresh' = fresh \cup {t}, view' = [view EXCEPT ![p][t] = rec'[t]],
         queued' \in [Process -> BOOLEAN],
         flush' = [flush EXCEPT ![p].todo = @ \ {t},
                     ![p].claimed = @ \cup {<<t, claims + 1>>}],
         UNCHANGED <<branch, ready, bound, busy, sent, timer, inflight, shared, replaced, failures>>
  PROVE  DeliveryInv' /\ Recorded
<1> USE DEF DeliveryInv
<1>1. /\ t \in Task /\ Owner[t] = bound[p] /\ inflight[p] = {} /\ flush[p].chosen = {}
      /\ claims \in Nat /\ claims + 1 \in Token /\ claims + 1 \in Nat \ {0}
  <2>1. t \in Task BY DEF TypeOK, Flush
  <2>2. Owner[t] = bound[p] /\ inflight[p] = {} /\ flush[p].chosen = {} BY DEF Placed
  <2>3. claims \in Nat /\ claims + 1 \in Token /\ claims + 1 \in Nat \ {0}
    BY DeliveryAssumption DEF TypeOK, Token
  <2>4. QED BY <2>1, <2>2, <2>3
<1>2. /\ WellFormed(rec'[t]) /\ rec'[t].status = rec[t].status /\ rec'[t].observed = rec[t].observed
      /\ rec'[t].token = claims + 1 /\ rec'[t].delivery = "claimed"
  <2>1. rec'[t] = Claim(rec[t], claims + 1) BY <1>1 DEF TypeOK
  <2>2. QED BY <1>1, <2>1, ClaimFields DEF Records
<1>3. \A u \in Task : u # t => rec'[u] = rec[u] BY DEF TypeOK
<1>4. \A q \in Process : q # p => flush'[q] = flush[q] BY DEF TypeOK
<1>5. /\ flush'[p].pc = "claim" /\ flush'[p].todo = flush[p].todo \ {t}
      /\ flush'[p].claimed = flush[p].claimed \cup {<<t, claims + 1>>}
      /\ flush'[p].published = flush[p].published /\ flush'[p].chosen = flush[p].chosen
  BY DEF TypeOK, Flush
<1>6. TypeOK'
  <2>1. rec'[t] \in TaskRecord BY <1>2 DEF WellFormed
  <2>2. rec' \in [Task -> TaskRecord] BY <1>1, <1>3, <2>1 DEF TypeOK
  <2>3. view' \in [Process -> [Task -> TaskRecord]] BY <1>1, <2>1 DEF TypeOK
  <2>4. flush' \in [Process -> Flush]
    <3>1. <<t, claims + 1>> \in Receipt BY <1>1 DEF Receipt
    <3>2. flush[p] \in Flush /\ flush \in [Process -> Flush] BY DEF TypeOK
    <3>3. [flush[p] EXCEPT !.todo = @ \ {t}, !.claimed = @ \cup {<<t, claims + 1>>}] \in Flush
      BY <3>1, <3>2 DEF Flush
    <3>4. flush' = [flush EXCEPT ![p] =
            [flush[p] EXCEPT !.todo = @ \ {t}, !.claimed = @ \cup {<<t, claims + 1>>}]]
      BY <3>2
    <3>5. QED BY <3>2, <3>3, <3>4
  <2>5. claims' \in 0..MaxClaims BY <1>1, DeliveryAssumption
  <2>6. QED BY <1>1, <2>2, <2>3, <2>4, <2>5 DEF TypeOK
<1>7. Records' BY <1>2, <1>3 DEF Records
<1>8. Placed'
  <2>1. ASSUME NEW q \in Process
        PROVE  /\ \A u \in flush'[q].todo : Owner[u] = bound'[q]
               /\ \A m \in Holds(q)' : Owner[m[1]] = bound'[q]
               /\ flush'[q].pc = "claim" => inflight'[q] = {}
               /\ flush'[q].chosen # {} => flush'[q].pc = "send"
    <3>1. CASE q # p BY <1>4, <3>1 DEF Placed, Holds
    <3>2. CASE q = p
      <4>1. \A m \in flush'[p].claimed :
              m \in flush[p].claimed \/ (m[1] = t /\ Owner[t] = bound[p])
        <5>1. SUFFICES ASSUME NEW m \in flush'[p].claimed, m \notin flush[p].claimed
                       PROVE  m[1] = t
          BY <1>1
        <5>2. m = <<t, claims + 1>> BY <1>5, <5>1
        <5>3. QED BY <5>2
      <4>2. \A m \in flush[p].claimed : Owner[m[1]] = bound[p] BY DEF Placed, Holds
      <4>3. QED BY <1>1, <1>5, <3>2, <4>1, <4>2 DEF Placed, Holds
    <3>3. QED BY <3>1, <3>2
  <2>2. QED BY <2>1 DEF Placed
<1>9. Newest'
  <2>1. SUFFICES ASSUME NEW m \in Receipt, Made(m)'
                 PROVE  m[2] <= claims' /\ (rec'[m[1]].token # NoToken => m[2] <= rec'[m[1]].token)
    BY DEF Newest
  <2>2. CASE Made(m)
    <3>1. m[2] <= claims /\ (rec[m[1]].token # NoToken => m[2] <= rec[m[1]].token) /\ m[1] \in Task
          /\ m[2] \in Nat
      BY <2>2 DEF Newest, Receipt, Token
    <3>2. QED BY <1>1, <1>2, <1>3, <3>1
  <2>3. CASE m = <<t, claims + 1>> BY <1>1, <1>2, <2>3
  <2>4. Made(m) \/ m = <<t, claims + 1>>
    BY <2>1, <1>4, <1>5 DEF Made, Holds
  <2>5. QED BY <2>2, <2>3, <2>4
<1>10. Alone' BY UnboundAlone
<1>11. InPi'
  <2>1. SUFFICES ASSUME ~shared, NEW q \in Process, NEW m \in Leaving(q)
                 PROVE  rec'[m[1]] = rec[m[1]]
    <3>1. \A q \in Process : Leaving(q)' = Leaving(q) BY <1>4, <1>5 DEF Leaving
    <3>2. QED BY <3>1 DEF InPi
  <2>2. m[1] \in Task BY LeavingReceipts DEF Receipt
  <2>3. m[1] # t BY <1>1, <2>1, OwnMessage DEF Leaving
  <2>4. QED BY <1>3, <2>2, <2>3
<1>12. DeliveryInv' BY <1>6, <1>7, <1>8, <1>9, <1>10, <1>11
<1>13. Recorded
  <2>1. ASSUME NEW u \in Task
        PROVE  /\ Remembers(rec[u], rec'[u])
               /\ ~(rec'[u].delivery = "delivered" /\ rec[u].delivery # "delivered")
    BY <1>2, <1>3 DEF Remembers, Records
  <2>2. QED BY <2>1 DEF Recorded
<1>14. QED BY <1>12, <1>13

LEMMA SameRecorded ==
  ASSUME Records, UNCHANGED <<rec, branch, shared>> PROVE Recorded
BY DEF Recorded, Remembers, Records

\* A flush that fails keeps nothing of what it worked on.
LEMMA AbandonStep ==
  ASSUME DeliveryInv, NEW p \in Process, Abandon(p),
         UNCHANGED <<rec, fresh, claims, branch, view, ready, bound, busy, queued, sent, inflight,
                     shared, replaced>>
  PROVE  DeliveryInv' /\ Recorded
<1> USE DEF DeliveryInv
<1>1. TypeOK'
  <2>1. NoFlush \in Flush BY DEF NoFlush, Flush
  <2>2. failures' \in 0..MaxFailures BY DeliveryAssumption DEF Abandon, Fail, TypeOK
  <2>3. QED BY <2>1, <2>2 DEF Abandon, TypeOK
<1>2. Keeping BY DEF Holds, Leaving, DeliveryInv, Placed, Keeping, Abandon, TypeOK, NoFlush
<1>3. Alone' BY UnboundAlone
<1>4. QED BY <1>1, <1>2, <1>3, KeepingStep, SameRecorded DEF Records

LEMMA ClaimNextStep ==
  ASSUME DeliveryInv, NEW p \in Process, ClaimNext(p)
  PROVE  DeliveryInv' /\ Recorded
<1> USE DEF DeliveryInv
<1> DEFINE wakes == HasWake(flush[p].claimed)
           candidates == {t \in flush[p].todo : Claimable(view[p][t], t, wakes)}
<1>1. flush[p].pc = "claim" /\ flush[p] \in Flush
      /\ UNCHANGED <<branch, ready, bound, busy, sent, inflight, shared, replaced>>
  BY DEF ClaimNext, kept, TypeOK
<1>2. Alone' BY <1>1, UnboundAlone
<1>3. CASE /\ flush' = [flush EXCEPT ![p].pc = "send", ![p].todo = {}]
           /\ UNCHANGED <<rec, fresh, claims, view, queued, timer, failures>>
  <2>1. /\ \A q \in Process : q # p => flush'[q] = flush[q]
        /\ flush'[p].todo = {} /\ flush'[p].claimed = flush[p].claimed
        /\ flush'[p].pc = "send" /\ flush'[p].chosen = flush[p].chosen
    BY <1>1, <1>3 DEF TypeOK, Flush
  <2>2. Keeping BY <1>1, <2>1 DEF Holds, Leaving, DeliveryInv, Placed, Keeping
  <2>3. flush' \in [Process -> Flush]
    <3>1. [flush[p] EXCEPT !.pc = "send", !.todo = {}] \in Flush BY <1>1 DEF Flush
    <3>2. flush' = [flush EXCEPT ![p] = [flush[p] EXCEPT !.pc = "send", !.todo = {}]]
      BY <1>3 DEF TypeOK
    <3>3. QED BY <3>1, <3>2 DEF TypeOK
  <2>4. TypeOK' BY <1>1, <1>3, <2>3 DEF TypeOK
  <2>5. QED BY <1>1, <1>2, <1>3, <2>2, <2>4, KeepingStep, SameRecorded DEF Records
<1>4. ASSUME NEW t \in candidates, claims < MaxClaims, Claimable(rec[t], t, wakes),
             rec' = [rec EXCEPT ![t] = Claim(@, claims + 1)], claims' = claims + 1,
             fresh' = fresh \cup {t}, Adopt(p, t, rec'[t]),
             queued' = [queued EXCEPT ![p] = @ \/ Notifies(p, t, rec'[t])],
             flush' = [flush EXCEPT ![p].todo = @ \ {t}, ![p].claimed = @ \cup {<<t, claims + 1>>}],
             UNCHANGED <<timer, failures>>
      PROVE  DeliveryInv' /\ Recorded
  <2>1. t \in flush[p].todo BY <1>4
  <2>2. rec[t].delivery \in {"pending", "claimed"} BY <1>4 DEF Claimable
  <2>3. queued' \in [Process -> BOOLEAN]
    <3>1. (queued[p] \/ Notifies(p, t, rec'[t])) \in BOOLEAN OBVIOUS
    <3>2. QED BY <1>4, <3>1 DEF TypeOK
  <2>4. QED BY <1>1, <1>4, <2>1, <2>2, <2>3, ClaimTaken DEF Adopt
<1>5. ASSUME NEW t \in candidates,
             rec' = rec, claims' = claims, fresh' = fresh, Adopt(p, t, rec'[t]),
             queued' = [queued EXCEPT ![p] = @ \/ Notifies(p, t, rec'[t])],
             flush' = [flush EXCEPT ![p].todo = @ \ {t}, ![p].claimed = @],
             UNCHANGED <<timer, failures>>
      PROVE  DeliveryInv' /\ Recorded
  <2>1. /\ \A q \in Process : q # p => flush'[q] = flush[q]
        /\ flush'[p].todo = flush[p].todo \ {t} /\ flush'[p].claimed = flush[p].claimed
        /\ flush'[p].pc = "claim" /\ flush'[p].chosen = flush[p].chosen
    BY <1>1, <1>5 DEF TypeOK, Flush
  <2>2. Keeping BY <1>1, <2>1 DEF Holds, Leaving, DeliveryInv, Placed, Keeping
  <2>3. flush' \in [Process -> Flush]
    <3>1. [flush[p] EXCEPT !.todo = @ \ {t}, !.claimed = @] \in Flush BY <1>1 DEF Flush
    <3>2. flush' = [flush EXCEPT ![p] = [flush[p] EXCEPT !.todo = @ \ {t}, !.claimed = @]]
      BY <1>5 DEF TypeOK
    <3>3. QED BY <3>1, <3>2 DEF TypeOK
  <2>4. queued' \in [Process -> BOOLEAN]
    <3>1. (queued[p] \/ Notifies(p, t, rec'[t])) \in BOOLEAN OBVIOUS
    <3>2. QED BY <1>5, <3>1 DEF TypeOK
  <2>5. view' \in [Process -> [Task -> TaskRecord]]
    <3>1. t \in Task BY <1>1, <1>5 DEF Flush
    <3>2. QED BY <1>5, <3>1 DEF Adopt, TypeOK
  <2>6. TypeOK' BY <1>1, <1>5, <2>3, <2>4, <2>5 DEF TypeOK
  <2>7. QED BY <1>1, <1>2, <1>5, <2>2, <2>6, KeepingStep, SameRecorded DEF Records
<1>6. CASE Abandon(p) /\ UNCHANGED <<rec, fresh, claims, view, queued>>
  BY <1>1, <1>6, AbandonStep
<1>7. \/ /\ flush' = [flush EXCEPT ![p].pc = "send", ![p].todo = {}]
         /\ UNCHANGED <<rec, fresh, claims, view, queued, timer, failures>>
      \/ \E t \in candidates :
           LET taken == Claimable(rec[t], t, wakes) IN
           /\ claims < MaxClaims
           /\ rec' = IF taken THEN [rec EXCEPT ![t] = Claim(@, claims + 1)] ELSE rec
           /\ claims' = IF taken THEN claims + 1 ELSE claims
           /\ fresh' = IF taken THEN fresh \cup {t} ELSE fresh
           /\ Adopt(p, t, rec'[t])
           /\ queued' = [queued EXCEPT ![p] = @ \/ Notifies(p, t, rec'[t])]
           /\ flush' = [flush EXCEPT ![p].todo = @ \ {t},
                          ![p].claimed = IF taken THEN @ \cup {<<t, claims + 1>>} ELSE @]
           /\ UNCHANGED <<timer, failures>>
      \/ Abandon(p) /\ UNCHANGED <<rec, fresh, claims, view, queued>>
  BY DEF ClaimNext, store
<1> HIDE DEF candidates
<1>8. ASSUME NEW t \in candidates,
             LET taken == Claimable(rec[t], t, wakes) IN
             /\ claims < MaxClaims
             /\ rec' = IF taken THEN [rec EXCEPT ![t] = Claim(@, claims + 1)] ELSE rec
             /\ claims' = IF taken THEN claims + 1 ELSE claims
             /\ fresh' = IF taken THEN fresh \cup {t} ELSE fresh
             /\ Adopt(p, t, rec'[t])
             /\ queued' = [queued EXCEPT ![p] = @ \/ Notifies(p, t, rec'[t])]
             /\ flush' = [flush EXCEPT ![p].todo = @ \ {t},
                            ![p].claimed = IF taken THEN @ \cup {<<t, claims + 1>>} ELSE @]
             /\ UNCHANGED <<timer, failures>>
      PROVE  DeliveryInv' /\ Recorded
  <2>1. CASE Claimable(rec[t], t, wakes) BY <1>4, <1>8, <2>1
  <2>2. CASE ~Claimable(rec[t], t, wakes) BY <1>5, <1>8, <2>2
  <2>3. QED BY <2>1, <2>2
<1>9. QED BY <1>3, <1>6, <1>7, <1>8

\* Choosing: a claim that stands, which the transcript of the session lacks.
LEMMA Chooses ==
  ASSUME DeliveryInv, NEW p \in Process, NEW m \in flush[p].claimed, flush[p].pc = "send",
         StillClaimed(m[1], m[2]), ~Observable(m[1], branch[bound[p]]),
         flush' = [flush EXCEPT ![p].claimed = flush[p].claimed \ {m}, ![p].chosen = {m}],
         UNCHANGED <<rec, fresh, claims, branch, view, ready, bound, busy, queued, sent, timer,
                     inflight, shared, replaced, failures>>
  PROVE  DeliveryInv'
<1> USE DEF DeliveryInv
<1>1. /\ m \in Receipt /\ m[1] \in Task /\ m[2] \in Token /\ m = <<m[1], m[2]>>
      /\ Owner[m[1]] = bound[p] /\ bound[p] \in Session /\ flush[p] \in Flush
  <2>1. flush[p] \in Flush /\ flush[p].claimed \subseteq Receipt BY DEF TypeOK, Flush
  <2>2. Owner[m[1]] = bound[p] BY DEF Placed, Holds
  <2>3. QED BY <2>1, <2>2, DeliveryAssumption DEF Receipt
<1>2. /\ \A q \in Process : q # p => flush'[q] = flush[q]
      /\ flush'[p].claimed \subseteq flush[p].claimed /\ flush'[p].todo = flush[p].todo
      /\ flush'[p].pc = "send" /\ flush'[p].chosen = {m}
  BY <1>1 DEF TypeOK, Flush
<1>3. TypeOK'
  <2>1. [flush[p] EXCEPT !.claimed = flush[p].claimed \ {m}, !.chosen = {m}] \in Flush
    BY <1>1 DEF Flush
  <2>2. flush' = [flush EXCEPT ![p] =
          [flush[p] EXCEPT !.claimed = flush[p].claimed \ {m}, !.chosen = {m}]]
    BY DEF TypeOK
  <2>3. flush' \in [Process -> Flush] BY <2>1, <2>2 DEF TypeOK
  <2>4. QED BY <2>3 DEF TypeOK
<1>4. \A q \in Process : Holds(q)' \subseteq Holds(q)
  <2>1. Holds(p)' \subseteq Holds(p) BY <1>2 DEF Holds
  <2>2. QED BY <1>2, <2>1 DEF Holds
<1>5. Placed'
  <2>1. ASSUME NEW q \in Process
        PROVE  /\ \A t \in flush'[q].todo : Owner[t] = bound'[q]
               /\ \A n \in Holds(q)' : Owner[n[1]] = bound'[q]
               /\ flush'[q].pc = "claim" => inflight'[q] = {}
               /\ flush'[q].chosen # {} => flush'[q].pc = "send"
    <3>1. \A n \in Holds(q)' : Owner[n[1]] = bound[q] BY <1>4 DEF Placed
    <3>2. flush'[q].todo = flush[q].todo BY <1>2
    <3>3. flush'[q].pc = flush[q].pc /\ (flush'[q].chosen # {} => flush'[q].pc = "send")
      BY <1>2 DEF Placed
    <3>4. QED BY <3>1, <3>2, <3>3 DEF Placed
  <2>2. QED BY <2>1 DEF Placed
<1>6. Newest'
  <2>1. \A n : Made(n)' => Made(n) BY <1>4 DEF Made
  <2>2. QED BY <2>1 DEF Newest
<1>7. Alone' BY UnboundAlone
<1>8. InPi'
  <2>1. ASSUME NEW s \in Session, NEW n \in branch[s], n[1] = m[1] PROVE FALSE
    <3>1. s = bound[p] BY <1>1, <2>1 DEF Placed
    <3>2. n \in Receipt BY DEF TypeOK
    <3>3. n = <<m[1], n[2]>> /\ n[2] \in Token BY <2>1, <3>2 DEF Receipt
    <3>4. QED BY <2>1, <3>1, <3>3 DEF Observable
  <2>2. rec[m[1]].delivery = "claimed" /\ rec[m[1]].token = m[2] BY DEF StillClaimed
  <2>3. ASSUME NEW q \in Process, NEW n \in Leaving(q)', n \notin Leaving(q) PROVE n = m
    BY <1>2, <2>3 DEF Leaving
  <2>4. QED BY <2>1, <2>2, <2>3 DEF InPi
<1>9. QED BY <1>3, <1>5, <1>6, <1>7, <1>8 DEF Records

\* Publishing: what was chosen goes to Pi, or is lost with the flush.
LEMMA PublishStep ==
  ASSUME DeliveryInv, NEW p \in Process, Publish(p)
  PROVE  DeliveryInv' /\ Recorded
<1> USE DEF DeliveryInv
<1>1. /\ UNCHANGED <<rec, fresh, claims, branch, view, ready, bound, busy, queued, sent,
                     shared, replaced>>
      /\ flush[p] \in Flush
  BY DEF Publish, store, kept, TypeOK
<1>2. PICK m \in flush[p].chosen :
       \/ /\ inflight' = [inflight EXCEPT ![p] = @ \cup {m}]
          /\ flush' = [flush EXCEPT ![p].claimed = IF m[1] \in Wake THEN {} ELSE @,
                                    ![p].chosen = {}, ![p].published = TRUE]
          /\ UNCHANGED <<timer, failures>>
       \/ Abandon(p) /\ UNCHANGED inflight
  BY DEF Publish
<1>3. CASE Abandon(p) /\ UNCHANGED inflight BY <1>1, <1>3, AbandonStep
<1>4. CASE /\ inflight' = [inflight EXCEPT ![p] = @ \cup {m}]
           /\ flush' = [flush EXCEPT ![p].claimed = IF m[1] \in Wake THEN {} ELSE @,
                                     ![p].chosen = {}, ![p].published = TRUE]
           /\ UNCHANGED <<timer, failures>>
  <2> DEFINE c == IF m[1] \in Wake THEN {} ELSE flush[p].claimed
  <2>1. c \subseteq flush[p].claimed /\ c \subseteq Receipt BY <1>1 DEF Flush
  <2>2. flush' = [flush EXCEPT ![p] = [flush[p] EXCEPT !.claimed = c, !.chosen = {}, !.published = TRUE]]
    BY <1>4 DEF TypeOK
  <2> HIDE DEF c
  <2>3. [flush[p] EXCEPT !.claimed = c, !.chosen = {}, !.published = TRUE] \in Flush
    BY <1>1, <2>1 DEF Flush
  <2>4. /\ \A q \in Process : q # p => flush'[q] = flush[q] /\ inflight'[q] = inflight[q]
        /\ flush'[p].claimed = c /\ flush'[p].todo = flush[p].todo /\ flush'[p].chosen = {}
        /\ flush'[p].pc = flush[p].pc /\ inflight'[p] = inflight[p] \cup {m}
    <3>1. inflight'[p] = inflight[p] \cup {m}
          /\ \A q \in Process : q # p => inflight'[q] = inflight[q]
      BY <1>4 DEF TypeOK
    <3>2. flush'[p] = [flush[p] EXCEPT !.claimed = c, !.chosen = {}, !.published = TRUE]
          /\ \A q \in Process : q # p => flush'[q] = flush[q]
      BY <2>2 DEF TypeOK
    <3>3. /\ flush'[p].claimed = c /\ flush'[p].todo = flush[p].todo /\ flush'[p].chosen = {}
          /\ flush'[p].pc = flush[p].pc
      BY <1>1, <3>2 DEF Flush
    <3>4. QED BY <3>1, <3>2, <3>3
  <2>5. flush[p].pc = "send" BY <1>2 DEF Placed
  <2>6. TypeOK'
    <3>1. flush' \in [Process -> Flush] BY <2>2, <2>3 DEF TypeOK
    <3>2. m \in Receipt BY <1>1, <1>2 DEF Flush
    <3>3. inflight' \in [Process -> SUBSET Receipt] BY <1>4, <3>2 DEF TypeOK
    <3>4. QED BY <1>1, <1>4, <3>1, <3>3 DEF TypeOK
  <2>7. Keeping
    <3>1. Holds(p)' \subseteq Holds(p) /\ Leaving(p)' \subseteq Leaving(p)
      BY <1>2, <2>1, <2>4 DEF Holds, Leaving
    <3>2. \A q \in Process : q # p => Holds(q)' = Holds(q) /\ Leaving(q)' = Leaving(q)
      BY <2>4 DEF Holds, Leaving
    <3>3. QED BY <1>1, <2>4, <2>5, <3>1, <3>2 DEF Keeping, Placed
  <2>8. Alone' BY <1>1, UnboundAlone
  <2>9. QED BY <1>1, <2>6, <2>7, <2>8, KeepingStep, SameRecorded DEF Records
<1>5. QED BY <1>2, <1>3, <1>4

\* Acknowledging before sending: the transcript already shows the completion.
LEMMA Acknowledges ==
  ASSUME DeliveryInv, NEW p \in Process, NEW m \in flush[p].claimed, flush[p].pc = "send",
         StillClaimed(m[1], m[2]), Observable(m[1], branch[bound[p]]),
         rec' = [rec EXCEPT ![m[1]] = Acknowledge(@)], Adopt(p, m[1], rec'[m[1]]),
         fresh' = Leases(rec'), queued' = [queued EXCEPT ![p] = TRUE],
         flush' = [flush EXCEPT ![p].claimed = flush[p].claimed \ {m}],
         UNCHANGED <<claims, branch, ready, bound, busy, sent, timer, inflight, shared, replaced,
                     failures>>
  PROVE  DeliveryInv' /\ Recorded
<1> USE DEF DeliveryInv
<1> DEFINE t == m[1]
<1>1. t \in Task /\ Owner[t] = bound[p] /\ bound[p] \in Session /\ flush[p] \in Flush
  <2>1. flush[p] \in Flush /\ flush[p].claimed \subseteq Receipt BY DEF TypeOK, Flush
  <2>2. Owner[t] = bound[p] BY DEF Placed, Holds
  <2>3. QED BY <2>1, <2>2, DeliveryAssumption DEF Receipt
<1> HIDE DEF t
<1>2. rec' = [rec EXCEPT ![t] = Acknowledge(@)] /\ view' = [view EXCEPT ![p][t] = rec'[t]]
      /\ rec[t].delivery = "claimed" /\ \E k \in Token : <<t, k>> \in branch[bound[p]]
  BY DEF t, Adopt, StillClaimed, Observable
<1>3. Advances(rec[t], rec'[t])
  <2>1. rec'[t] = Acknowledge(rec[t]) BY <1>1, <1>2 DEF TypeOK
  <2>2. QED BY <1>1, <1>2, <2>1, AcknowledgeAdvances DEF Records
<1>4. \A u \in Task : u # t => rec'[u] = rec[u] BY <1>2 DEF TypeOK
<1>5. \A u \in Task : Advances(rec[u], rec'[u]) BY <1>3, <1>4, SameAdvances DEF Records
<1>6. /\ \A q \in Process : q # p => flush'[q] = flush[q]
      /\ flush'[p].claimed \subseteq flush[p].claimed /\ flush'[p].todo = flush[p].todo
      /\ flush'[p].pc = "send" /\ flush'[p].chosen = flush[p].chosen
  BY <1>1 DEF TypeOK, Flush
<1>7. TypeOK'
  <2>1. rec' \in [Task -> TaskRecord]
    <3>1. rec'[t] \in TaskRecord BY <1>3 DEF Advances, Remembers, WellFormed
    <3>2. QED BY <1>2, <1>4, <3>1 DEF TypeOK
  <2>2. view' \in [Process -> [Task -> TaskRecord]] BY <1>1, <1>2, <2>1 DEF TypeOK
  <2>3. [flush[p] EXCEPT !.claimed = flush[p].claimed \ {m}] \in Flush BY <1>1 DEF Flush
  <2>4. flush' = [flush EXCEPT ![p] = [flush[p] EXCEPT !.claimed = flush[p].claimed \ {m}]]
    BY DEF TypeOK
  <2>5. flush' \in [Process -> Flush] BY <2>3, <2>4 DEF TypeOK
  <2>6. fresh' \subseteq Task BY DEF Leases, TypeOK
  <2>7. QED BY <2>1, <2>2, <2>5, <2>6 DEF TypeOK
<1>8. Alone' BY UnboundAlone
<1>9. Keeping BY <1>6 DEF Holds, Leaving, DeliveryInv, Placed, Keeping
<1>10. ~shared => \A q \in Process : \A n \in Leaving(q)' : rec'[n[1]] = rec[n[1]]
  <2>1. SUFFICES ASSUME ~shared, NEW q \in Process, NEW n \in Leaving(q), n[1] = t PROVE FALSE
    <3>1. \A q \in Process : \A n \in Leaving(q) : n[1] \in Task BY LeavingReceipts DEF Receipt
    <3>2. \A q \in Process : Leaving(q)' = Leaving(q) BY <1>6 DEF Leaving
    <3>3. QED BY <1>4, <2>1, <3>1, <3>2
  <2>2. PICK k \in Token : <<t, k>> \in branch[bound[p]] BY <1>2
  <2>3. <<t, k>>[1] = t OBVIOUS
  <2>4. QED BY <1>1, <2>1, <2>2, <2>3 DEF InPi
<1>11. DeliveryInv'
  BY <1>5, <1>7, <1>8, <1>9, <1>10, KeepingStep DEF Advances, Remembers
<1>12. Recorded
  BY <1>1, <1>2, <1>4, <1>5 DEF Recorded, Advances
<1>13. QED BY <1>11, <1>12

LEMMA SendNextStep ==
  ASSUME DeliveryInv, NEW p \in Process, SendNext(p)
  PROVE  DeliveryInv' /\ Recorded
<1>1. /\ flush[p].pc = "send" /\ flush[p] \in Flush
      /\ UNCHANGED <<branch, ready, bound, busy, sent, inflight, shared, replaced>>
  BY DEF SendNext, kept, DeliveryInv, TypeOK
<1>2. PICK m \in flush[p].claimed :
       \/ /\ flush' = [flush EXCEPT ![p].claimed = flush[p].claimed \ {m}]
          /\ UNCHANGED <<rec, fresh, claims, view, queued, timer, failures>>
       \/ /\ StillClaimed(m[1], m[2]) /\ Observable(m[1], branch[bound[p]])
          /\ rec' = [rec EXCEPT ![m[1]] = Acknowledge(@)]
          /\ Adopt(p, m[1], rec'[m[1]])
          /\ fresh' = Leases(rec') /\ queued' = [queued EXCEPT ![p] = TRUE]
          /\ flush' = [flush EXCEPT ![p].claimed = flush[p].claimed \ {m}]
          /\ UNCHANGED <<claims, timer, failures>>
       \/ /\ StillClaimed(m[1], m[2]) /\ ~Observable(m[1], branch[bound[p]])
          /\ flush' = [flush EXCEPT ![p].claimed = flush[p].claimed \ {m}, ![p].chosen = {m}]
          /\ UNCHANGED <<rec, fresh, claims, view, queued, timer, failures>>
       \/ Abandon(p) /\ UNCHANGED <<rec, fresh, claims, view, queued>>
  BY DEF SendNext, NextToSend, store
<1>3. CASE /\ flush' = [flush EXCEPT ![p].claimed = flush[p].claimed \ {m}]
           /\ UNCHANGED <<rec, fresh, claims, view, queued, timer, failures>>
  <2>1. /\ \A q \in Process : q # p => flush'[q] = flush[q]
        /\ flush'[p].claimed \subseteq flush[p].claimed /\ flush'[p].todo = flush[p].todo
        /\ flush'[p].pc = "send" /\ flush'[p].chosen = flush[p].chosen
    BY <1>1, <1>3 DEF DeliveryInv, TypeOK, Flush
  <2>2. Keeping BY <1>1, <1>3, <2>1 DEF Holds, Leaving, DeliveryInv, Placed, Keeping
  <2>3. flush' \in [Process -> Flush]
    <3>1. [flush[p] EXCEPT !.claimed = flush[p].claimed \ {m}] \in Flush BY <1>1 DEF Flush
    <3>2. flush' = [flush EXCEPT ![p] = [flush[p] EXCEPT !.claimed = flush[p].claimed \ {m}]]
      BY <1>3 DEF DeliveryInv, TypeOK
    <3>3. QED BY <3>1, <3>2 DEF DeliveryInv, TypeOK
  <2>4. TypeOK' BY <1>1, <1>3, <2>3 DEF DeliveryInv, TypeOK
  <2>5. Alone' BY <1>1, UnboundAlone DEF DeliveryInv
  <2>6. QED BY <1>1, <1>3, <2>2, <2>4, <2>5, KeepingStep, SameRecorded DEF DeliveryInv, Records
<1>4. CASE /\ StillClaimed(m[1], m[2]) /\ Observable(m[1], branch[bound[p]])
           /\ rec' = [rec EXCEPT ![m[1]] = Acknowledge(@)]
           /\ Adopt(p, m[1], rec'[m[1]])
           /\ fresh' = Leases(rec') /\ queued' = [queued EXCEPT ![p] = TRUE]
           /\ flush' = [flush EXCEPT ![p].claimed = flush[p].claimed \ {m}]
           /\ UNCHANGED <<claims, timer, failures>>
  BY <1>1, <1>4, Acknowledges
<1>5. CASE /\ StillClaimed(m[1], m[2]) /\ ~Observable(m[1], branch[bound[p]])
           /\ flush' = [flush EXCEPT ![p].claimed = flush[p].claimed \ {m}, ![p].chosen = {m}]
           /\ UNCHANGED <<rec, fresh, claims, view, queued, timer, failures>>
  BY <1>1, <1>5, Chooses, SameRecorded DEF DeliveryInv
<1>6. CASE Abandon(p) /\ UNCHANGED <<rec, fresh, claims, view, queued>>
  BY <1>1, <1>6, AbandonStep
<1>7. QED BY <1>2, <1>3, <1>4, <1>5, <1>6

-----------------------------------------------------------------------------
\* The arrival of a message, and the acknowledgements it leads to.
Arrives(m) ==
  /\ m \in Receipt /\ IsSettled(rec[m[1]]) /\ ~rec[m[1]].observed /\ Owner[m[1]] \in Session
  /\ \A s \in Session : \A n \in branch[s] : n[1] # m[1]
  /\ branch' = [branch EXCEPT ![Owner[m[1]]] = @ \cup {m}]
  /\ \A t \in Task :
       /\ Remembers(rec[t], rec'[t]) /\ rec'[t].observed = rec[t].observed
       /\ rec'[t].delivery = "delivered" /\ rec[t].delivery # "delivered" =>
            \E k \in Token : <<t, k>> \in branch'[Owner[t]]

LEMMA AppendStep ==
  ASSUME DeliveryInv, NEW p \in Process, NEW m \in inflight[p], Append(p, m)
  PROVE  DeliveryInv' /\ UNCHANGED shared /\ (~shared => Arrives(m))
<1> USE DEF DeliveryInv
<1>1. PICK b \in {branch[bound[p]], branch'[bound[p]]} : Reconcile(p, b, timer[p])
  BY DEF Append
<1>2. /\ branch' = [branch EXCEPT ![bound[p]] = @ \cup {m}]
      /\ inflight' = [inflight EXCEPT ![p] = @ \ {m}]
      /\ busy' = [busy EXCEPT ![p] = @ \/ m[1] \in Wake]
      /\ queued' = [queued EXCEPT ![p] = @ \/ Heard(p)]
      /\ UNCHANGED <<claims, ready, bound, sent, flush, shared, replaced>>
  BY DEF Append, kept
<1>3. timer[p] \in {"off", "short", "lease"} BY DEF TypeOK
<1>4. /\ rec' \in [Task -> TaskRecord] /\ view' \in [Process -> [Task -> TaskRecord]]
      /\ timer' \in [Process -> {"off", "short", "lease"}] /\ fresh' \subseteq Task
      /\ failures' \in 0..MaxFailures
      /\ \A t \in Task :
           /\ Advances(rec[t], rec'[t]) /\ rec'[t].observed = rec[t].observed
           /\ rec'[t] # rec[t] =>
                rec[t].delivery = "claimed" /\ Owner[t] = bound[p] /\ <<t, rec[t].token>> \in b
  BY <1>1, <1>3, ReconcileStep, Z3
<1>5. /\ m \in Receipt /\ m[1] \in Task /\ m[2] \in Token /\ m = <<m[1], m[2]>>
      /\ Owner[m[1]] = bound[p] /\ bound[p] \in Session
  <2>1. m \in Receipt BY DEF TypeOK
  <2>2. Owner[m[1]] = bound[p] BY DEF Placed, Holds
  <2>3. QED BY <2>1, <2>2, DeliveryAssumption DEF Receipt
<1>6. /\ branch'[bound[p]] = branch[bound[p]] \cup {m}
      /\ \A s \in Session : s # bound[p] => branch'[s] = branch[s]
      /\ inflight'[p] = inflight[p] \ {m}
      /\ \A q \in Process : q # p => inflight'[q] = inflight[q]
      /\ b \subseteq branch'[bound[p]]
  BY <1>2, <1>5 DEF TypeOK
<1>7. TypeOK'
  <2>1. branch' \in [Session -> SUBSET Receipt] BY <1>2, <1>5 DEF TypeOK
  <2>2. inflight' \in [Process -> SUBSET Receipt] BY <1>2 DEF TypeOK
  <2>3. busy' \in [Process -> BOOLEAN]
    <3>1. (busy[p] \/ m[1] \in Wake) \in BOOLEAN OBVIOUS
    <3>2. QED BY <1>2, <3>1 DEF TypeOK
  <2>4. queued' \in [Process -> BOOLEAN]
    <3>1. (queued[p] \/ Heard(p)) \in BOOLEAN OBVIOUS
    <3>2. QED BY <1>2, <3>1 DEF TypeOK
  <2>5. QED BY <1>2, <1>4, <2>1, <2>2, <2>3, <2>4 DEF TypeOK
<1>8. Records' BY <1>4 DEF Records, Advances, Remembers
<1>9. Placed'
  <2>1. \A q \in Process : inflight'[q] \subseteq inflight[q] /\ Holds(q)' \subseteq Holds(q)
    BY <1>2, <1>6 DEF Holds
  <2>2. \A s \in Session : \A n \in branch'[s] : Owner[n[1]] = s BY <1>5, <1>6 DEF Placed
  <2>3. QED BY <1>2, <2>1, <2>2 DEF Placed
<1>10. Newest'
  <2>1. \A n : Made(n)' => Made(n)
    <3>1. SUFFICES ASSUME NEW n, Made(n)' PROVE Made(n) OBVIOUS
    <3>2. CASE \E q \in Process : n \in Holds(q)'
      BY <1>2, <1>6, <3>2 DEF Made, Holds
    <3>3. CASE \E s \in Session : n \in branch'[s] BY <1>6, <3>3 DEF Made, Holds
    <3>4. QED BY <3>1, <3>2, <3>3 DEF Made
  <2>2. SUFFICES ASSUME NEW n \in Receipt, Made(n)
                 PROVE  n[2] <= claims /\ (rec'[n[1]].token # NoToken => n[2] <= rec'[n[1]].token)
    BY <1>2, <2>1 DEF Newest
  <2>3. rec'[n[1]] = rec[n[1]] \/ rec'[n[1]].token = NoToken BY <1>4 DEF Advances, Receipt
  <2>4. QED BY <2>2, <2>3 DEF Newest
<1>11. Alone' BY <1>2, UnboundAlone
<1>12. InPi'
  <2>1. SUFFICES ASSUME ~shared, NEW q \in Process, NEW n \in Leaving(q)'
                 PROVE  /\ rec'[n[1]] = rec[n[1]] /\ n \in Leaving(q)
                        /\ \A s \in Session : \A o \in branch'[s] : o[1] # n[1]
    BY <1>2 DEF InPi
  <2>2. n \in Leaving(q) /\ n \in Receipt /\ n[1] \in Task /\ n = <<n[1], n[2]>>
    <3>1. n \in Leaving(q) BY <1>2, <1>6, <2>1 DEF Leaving
    <3>2. QED BY <3>1, LeavingReceipts DEF Receipt
  <2>3. /\ rec[n[1]].delivery = "claimed" /\ rec[n[1]].token = n[2]
        /\ \A s \in Session : \A o \in branch[s] : o[1] # n[1]
    BY <2>1, <2>2 DEF InPi
  <2>4. n[1] # m[1]
    <3>1. SUFFICES ASSUME n[1] = m[1] PROVE FALSE OBVIOUS
    <3>2. rec[m[1]].token = m[2] BY <2>1 DEF InPi, Leaving
    <3>3. n = m BY <1>5, <2>2, <2>3, <3>1, <3>2
    <3>4. q = p BY <1>5, <2>1, <2>2, <3>1, OwnMessage
    <3>5. flush[p].chosen = {} BY DEF Append, Placed
    <3>6. QED BY <1>2, <1>6, <2>1, <3>3, <3>4, <3>5 DEF Leaving
  <2>5. \A s \in Session : \A o \in branch'[s] : o[1] # n[1] BY <1>6, <2>3, <2>4
  <2>6. rec'[n[1]] = rec[n[1]]
    <3>1. SUFFICES ASSUME rec'[n[1]] # rec[n[1]] PROVE FALSE OBVIOUS
    <3>2. <<n[1], rec[n[1]].token>> \in branch'[bound[p]] BY <1>4, <1>6, <2>2, <3>1
    <3>3. QED BY <1>5, <2>5, <3>2
  <2>7. QED BY <2>2, <2>5, <2>6
<1>13. DeliveryInv' BY <1>7, <1>8, <1>9, <1>10, <1>11, <1>12
<1>14. ASSUME ~shared PROVE Arrives(m)
  <2>1. /\ rec[m[1]].delivery = "claimed"
        /\ \A s \in Session : \A n \in branch[s] : n[1] # m[1]
    BY <1>14 DEF InPi, Leaving
  <2>2. IsSettled(rec[m[1]]) /\ ~rec[m[1]].observed BY <1>5, <2>1, ClaimedFields DEF Records
  <2>3. ASSUME NEW t \in Task, rec'[t].delivery = "delivered", rec[t].delivery # "delivered"
        PROVE  \E k \in Token : <<t, k>> \in branch'[Owner[t]]
    <3>1. Owner[t] = bound[p] /\ <<t, rec[t].token>> \in branch'[bound[p]] BY <1>4, <1>6, <2>3
    <3>2. rec[t].token \in Token BY <1>5, <1>7, <3>1 DEF TypeOK, Receipt
    <3>3. QED BY <3>1, <3>2
  <2>4. \A t \in Task : Remembers(rec[t], rec'[t]) /\ rec'[t].observed = rec[t].observed
    BY <1>4 DEF Advances
  <2>5. branch' = [branch EXCEPT ![Owner[m[1]]] = @ \cup {m}] BY <1>2, <1>5
  <2>6. QED BY <1>5, <2>1, <2>2, <2>3, <2>4, <2>5 DEF Arrives
<1>15. QED BY <1>2, <1>13, <1>14

-----------------------------------------------------------------------------
(***************************************************************************)
(* The inductive invariant.                                                *)
(***************************************************************************)
LEMMA InitialInv == Init => DeliveryInv
<1> SUFFICES ASSUME Init PROVE DeliveryInv OBVIOUS
<1> USE DeliveryAssumption
<1>1. Running \in TaskRecord /\ WellFormed(Running) /\ NoRecord \in TaskRecord
  BY InitialWellFormed DEF WellFormed
<1>2. /\ NoFlush \in Flush /\ NoFlush.todo = {} /\ NoFlush.claimed = {} /\ NoFlush.pc = "idle"
      /\ NoFlush.chosen = {}
  BY DEF NoFlush, Flush
<1>3. TypeOK BY <1>1, <1>2 DEF Init, TypeOK
<1>4. Records BY <1>1 DEF Init, Records
<1>5. Placed BY <1>2 DEF Init, Placed, Holds
<1>6. Newest BY <1>2 DEF Init, Newest, Made, Holds
<1>7. Alone /\ InPi BY <1>2 DEF Init, Alone, InPi, Leaving
<1>8. QED BY <1>3, <1>4, <1>5, <1>6, <1>7 DEF DeliveryInv

Settles(t) ==
  /\ ~IsSettled(rec[t]) /\ IsSettled(rec'[t]) /\ ~rec[t].observed
  /\ rec[t].delivery # "delivered" /\ rec'[t].delivery # "delivered"
  /\ \A u \in Task : u # t => rec'[u] = rec[u]
  /\ UNCHANGED branch

\* The four kinds of steps, as the transcripts and the records see them.
Progress ==
  /\ UNCHANGED shared
  /\ \/ UNCHANGED <<rec, branch>>
     \/ Recorded
     \/ \E t \in Task : Settles(t)
     \/ \E p \in Process : \E m \in inflight[p] : ~shared => Arrives(m)

LEMMA InductiveStep ==
  ASSUME DeliveryInv, [Next]_vars PROVE DeliveryInv' /\ Progress
<1>1. ASSUME NEW p \in Process, NEW s \in Session, Bind(p, s) PROVE DeliveryInv' /\ Progress
  BY <1>1, QuietSteps DEF Progress
<1>2. ASSUME NEW p \in Process, Replace(p) \/ IndexReady(p) \/ TimerFires(p)
      PROVE  DeliveryInv' /\ Progress
  BY <1>2, QuietSteps DEF Progress
<1>3. ASSUME NEW p \in Process, NEW t \in Task, SettleTask(p, t) PROVE DeliveryInv' /\ Progress
  BY <1>3, SettleStep DEF Progress, Settles
<1>4. ASSUME NEW p \in Process, NEW t \in Task, Learn(p, t) PROVE DeliveryInv' /\ Progress
  BY <1>4, QuietSteps DEF Progress
<1>5. ASSUME NEW p \in Process, NEW t \in Task, Tool(p, t) PROVE DeliveryInv' /\ Progress
  BY <1>5, ToolStep DEF Progress, Recorded
<1>6. ASSUME NEW p \in Process,
             AgentStart(p) \/ AgentSettled(p) \/ ForeignMessage(p) \/ Touch(p) \/ AfterSend(p)
      PROVE  DeliveryInv' /\ Progress
  BY <1>6, ReconcileSteps DEF Progress, Recorded
<1>7. ASSUME NEW p \in Process, NEW m \in inflight[p], Append(p, m) PROVE DeliveryInv' /\ Progress
  BY <1>7, AppendStep DEF Progress
<1>8. ASSUME NEW p \in Process, FlushStep(p) PROVE DeliveryInv' /\ Progress
  <2>1. CASE FlushBegin(p) BY <2>1, FlushBeginStep DEF Progress, Recorded
  <2>2. CASE FlushDropped(p) BY <2>2, QuietSteps DEF Progress
  <2>3. CASE ClaimNext(p) BY <2>3, ClaimNextStep DEF Progress, Recorded
  <2>4. CASE SendNext(p) BY <2>4, SendNextStep DEF Progress, Recorded
  <2>5. CASE Publish(p) BY <2>5, PublishStep DEF Progress, Recorded
  <2>6. CASE FlushEnd(p) BY <2>6, QuietSteps DEF Progress
  <2>7. QED BY <1>8, <2>1, <2>2, <2>3, <2>4, <2>5, <2>6 DEF FlushStep
<1>9. ASSUME NEW t \in Task, LeaseExpires(t) PROVE DeliveryInv' /\ Progress
  BY <1>9, ExpireStep DEF Progress
<1>10. CASE UNCHANGED vars
  <2>1. UNCHANGED <<rec, branch, shared>> BY <1>10 DEF vars
  <2>2. DeliveryInv'
    BY <1>10 DEF vars, DeliveryInv, TypeOK, Records, Placed, Newest, Made, Holds, Alone, InPi,
         Leaving
  <2>3. QED BY <2>1, <2>2 DEF Progress
<1>11. QED
  BY <1>1, <1>2, <1>3, <1>4, <1>5, <1>6, <1>7, <1>8, <1>9, <1>10 DEF Next

\* Records, messages and transcripts stay in the sets the model gives them.
THEOREM DeliveryTypes == Spec => []TypeOK
<1>1. DeliveryInv => TypeOK BY DEF DeliveryInv
<1>2. QED BY <1>1, InitialInv, InductiveStep, PTL DEF Spec

\* Every record is one the store's parser accepts, so that no scan quarantines a
\* terminal and loses its completion.
THEOREM DeliveredRecordsWellFormed == Spec => [](\A t \in Task : WellFormed(rec[t]))
<1>1. DeliveryInv => \A t \in Task : WellFormed(rec[t]) BY DEF DeliveryInv, Records
<1>2. QED BY <1>1, InitialInv, InductiveStep, PTL DEF Spec

-----------------------------------------------------------------------------
(***************************************************************************)
(* Delivery refines Completion.                                            *)
(***************************************************************************)
LEMMA SeenIsSettled ==
  ASSUME NEW r, WellFormed(r), r.observed \/ r.delivery = "delivered"
  PROVE  IsSettled(r)
<1>1. r.status # "absent"
  <2>1. NoRecord.observed = FALSE /\ NoRecord.delivery = "none" BY DEF NoRecord
  <2>2. QED BY <2>1 DEF WellFormed
<1>2. QED
  BY <1>1 DEF WellFormed, Parses, LifecycleParses, TaskRecord, Status, IsSettled

\* With a session open twice the mapping is constant; otherwise a settlement is
\* Completion's, an arrival is shown, and the other steps record what was seen.
LEMMA ProgressRefines ==
  ASSUME DeliveryInv, DeliveryInv', Progress
  PROVE  [Abstract!Next]_(Abstract!completionVars)
<1> DEFINE S == {t \in Exclusive : IsSettled(rec[t])}
           C == {t \in Exclusive : rec[t].observed}
           K == [t \in Task |-> IF t \in Exclusive THEN Copies(t) ELSE {}]
           A == {t \in Exclusive : rec[t].delivery = "delivered"}
<1>1. UNCHANGED <<S, C, K, A>> => UNCHANGED Abstract!completionVars
  BY DEF Abstract!completionVars
<1>2. shared' = shared BY DEF Progress
<1>3. CASE shared
  <2>1. Exclusive = {} /\ Exclusive' = {} BY <1>2, <1>3 DEF Exclusive
  <2>2. UNCHANGED <<S, C, K, A>> BY <2>1
  <2>3. QED BY <1>1, <2>2
<1>4. CASE ~shared
  <2>1. Exclusive = Task /\ Exclusive' = Task BY <1>2, <1>4 DEF Exclusive
  <2>2. /\ S = {t \in Task : IsSettled(rec[t])} /\ S' = {t \in Task : IsSettled(rec'[t])}
        /\ C = {t \in Task : rec[t].observed} /\ C' = {t \in Task : rec'[t].observed}
        /\ K = [t \in Task |-> Copies(t)] /\ K' = [t \in Task |-> Copies(t)']
        /\ A = {t \in Task : rec[t].delivery = "delivered"}
        /\ A' = {t \in Task : rec'[t].delivery = "delivered"}
    BY <2>1
  <2>3. UNCHANGED branch => \A t \in Task : Copies(t)' = Copies(t) BY DEF Copies
  <2>4. ASSUME NEW t \in Task, WellFormed(rec'[t]), rec'[t].status = rec[t].status,
               rec'[t].observed \/ rec'[t].delivery = "delivered"
        PROVE  IsSettled(rec[t])
    BY <2>4, SeenIsSettled DEF IsSettled
  <2> HIDE DEF S, C, K, A
  <2>5. CASE UNCHANGED <<rec, branch>>
    <3>1. UNCHANGED <<S, C, K, A>> BY <2>2, <2>3, <2>5
    <3>2. QED BY <1>1, <3>1
  <2>6. CASE Recorded
    <3>1. S' = S /\ C \subseteq C' /\ C' \subseteq S /\ A \subseteq A'
      BY <2>2, <2>4, <2>6 DEF Recorded, Remembers, IsSettled
    <3>2. K' = K BY <2>2, <2>3, <2>6 DEF Recorded
    <3>3. ASSUME NEW t \in A' \ A PROVE t \in S /\ K[t] # {}
      <4>1. /\ t \in Task /\ rec'[t].delivery = "delivered" /\ rec[t].delivery # "delivered"
        BY <2>2
      <4>2. t \in S BY <2>2, <2>4, <2>6, <4>1 DEF Recorded, Remembers
      <4>3. PICK k \in Token : <<t, k>> \in branch[Owner[t]] BY <2>6, <4>1 DEF Recorded
      <4>4. <<Owner[t], k>> \in Copies(t) BY <4>1, <4>3, DeliveryAssumption DEF Copies
      <4>5. QED BY <2>2, <4>1, <4>2, <4>4
    <3>4. Abstract!Record BY <3>1, <3>2, <3>3 DEF Abstract!Record, S, C, K, A
    <3>5. QED BY <3>4 DEF Abstract!Next
  <2>7. ASSUME NEW t \in Task, Settles(t) PROVE Abstract!Next
    <3>1. rec'[t].observed \in BOOLEAN BY RecordFields DEF DeliveryInv, Records
    <3>2. /\ t \notin S /\ S' = S \cup {t} /\ A' = A /\ K' = K
          /\ C' = IF rec'[t].observed THEN C \cup {t} ELSE C
      <4>1. K' = K BY <2>2, <2>3, <2>7 DEF Settles
      <4>2. A' = A BY <2>2, <2>7 DEF Settles
      <4>3. t \notin S /\ S' = S \cup {t} BY <2>2, <2>7 DEF Settles
      <4>4. C' = IF rec'[t].observed THEN C \cup {t} ELSE C BY <2>2, <2>7 DEF Settles
      <4>5. QED BY <4>1, <4>2, <4>3, <4>4
    <3>3. PICK silent \in BOOLEAN : silent = rec'[t].observed BY <3>1
    <3>4. Abstract!Settle(t, silent) BY <3>2, <3>3 DEF Abstract!Settle, S, C, K, A
    <3>5. QED BY <3>4 DEF Abstract!Next
  <2>8. ASSUME NEW m, Arrives(m) PROVE Abstract!Next
    <3>1. /\ m[1] \in Task /\ m[2] \in Token /\ m = <<m[1], m[2]>> BY <2>8 DEF Arrives, Receipt
    <3>2. S' = S /\ C' = C /\ A \subseteq A' /\ m[1] \in S /\ m[1] \notin C
      BY <2>2, <2>8, <3>1 DEF Arrives, Remembers, IsSettled
    <3>3. Copies(m[1]) = {} BY <2>8 DEF Arrives, Copies
    <3>4. Copies(m[1])' = {<<Owner[m[1]], m[2]>>}
      <4>1. \A s \in Session : s # Owner[m[1]] => branch'[s] = branch[s]
        BY <2>8 DEF Arrives, DeliveryInv, TypeOK
      <4>2. branch'[Owner[m[1]]] = branch[Owner[m[1]]] \cup {m} /\ Owner[m[1]] \in Session
        BY <2>8 DEF Arrives, DeliveryInv, TypeOK
      <4>3. \A s \in Session, k \in Token : <<m[1], k>> \notin branch[s] BY <2>8 DEF Arrives
      <4>4. \A s \in Session, k \in Token :
              <<m[1], k>> \in branch'[s] <=> s = Owner[m[1]] /\ k = m[2]
        BY <3>1, <4>1, <4>2, <4>3
      <4>5. QED BY <3>1, <4>2, <4>4 DEF Copies
    <3>5. \A t \in Task : t # m[1] => Copies(t)' = Copies(t)
      <4>1. SUFFICES ASSUME NEW t \in Task, t # m[1], NEW s \in Session, NEW k \in Token
                     PROVE  <<t, k>> \in branch'[s] <=> <<t, k>> \in branch[s]
        BY DEF Copies
      <4>2. branch'[s] = branch[s] \/ branch'[s] = branch[s] \cup {m}
        BY <2>8 DEF Arrives, DeliveryInv, TypeOK
      <4>3. <<t, k>> # m BY <3>1, <4>1
      <4>4. QED BY <4>2, <4>3
    <3>6. K' = [K EXCEPT ![m[1]] = {<<Owner[m[1]], m[2]>>}] /\ K[m[1]] = {}
      BY <2>2, <3>1, <3>3, <3>4, <3>5
    <3>7. ASSUME NEW t \in A' \ A PROVE t \in S /\ K'[t] # {}
      <4>1. /\ t \in Task /\ rec'[t].delivery = "delivered" /\ rec[t].delivery # "delivered"
        BY <2>2
      <4>2. t \in S BY <2>2, <2>4, <2>8, <4>1 DEF Arrives, Remembers
      <4>3. PICK k \in Token : <<t, k>> \in branch'[Owner[t]] BY <2>8, <4>1 DEF Arrives
      <4>4. <<Owner[t], k>> \in Copies(t)' BY <4>1, <4>3, DeliveryAssumption DEF Copies
      <4>5. QED BY <2>2, <4>1, <4>2, <4>4
    <3>8. Abstract!Show(m[1], m[2]) BY <3>1, <3>2, <3>6, <3>7 DEF Abstract!Show, S, C, K, A
    <3>9. QED BY <3>1, <3>8 DEF Abstract!Next
  <2>9. QED BY <1>4, <2>5, <2>6, <2>7, <2>8 DEF Progress
<1>5. QED BY <1>3, <1>4

LEMMA InitialRefines == Init => Abstract!Init
<1> SUFFICES ASSUME Init PROVE Abstract!Init OBVIOUS
<1>1. /\ ~IsSettled(Running) /\ Running.observed = FALSE /\ Running.delivery = "none"
  BY DEF Running, Initial, NoRecord, IsSettled, SettledStatus
<1>2. \A t \in Task : rec[t] = Running BY DEF Init
<1>3. Exclusive \subseteq Task BY DEF Exclusive
<1>4. \A t \in Task : Copies(t) = {} BY DEF Init, Copies
<1>5. QED BY <1>1, <1>2, <1>3, <1>4 DEF Abstract!Init

\* At most one message per completion, only in its owner's transcript, never after
\* the result was consumed, and acknowledged only once it is there: whatever
\* processes, sessions, crashes, lost leases and failing store calls there are, as
\* long as no two processes have a session open.
THEOREM DeliversOnceHolds == Spec => DeliversOnce
<1>1. Init => DeliveryInv /\ Abstract!Init BY InitialInv, InitialRefines
<1>2. DeliveryInv /\ [Next]_vars => DeliveryInv' BY InductiveStep
<1>3. DeliveryInv /\ DeliveryInv' /\ [Next]_vars => [Abstract!Next]_(Abstract!completionVars)
  BY InductiveStep, ProgressRefines
<1>4. QED BY <1>1, <1>2, <1>3, PTL DEF Spec, DeliversOnce, Abstract!Spec

-----------------------------------------------------------------------------
(***************************************************************************)
(* Which claim is chosen.                                                  *)
(***************************************************************************)
\* A claim that stands is newer than every other that was made, and only SendNext
\* chooses.
LEMMA ChoosesNewest ==
  ASSUME DeliveryInv, Next, NEW p \in Process, NEW m \in flush'[p].chosen \ flush[p].chosen,
         NEW k \in Token, k > m[2]
  PROVE  ~Made(<<m[1], k>>)
<1> USE DEF DeliveryInv
<1>1. ASSUME NEW r \in Process, SendNext(r)
      PROVE  m \in Receipt /\ StillClaimed(m[1], m[2])
  <2>1. PICK n \in flush[r].claimed :
          \/ \E c : flush' = [flush EXCEPT ![r].claimed = c]
          \/ flush' = [flush EXCEPT ![r] = NoFlush]
          \/ /\ StillClaimed(n[1], n[2])
             /\ flush' = [flush EXCEPT ![r].claimed = flush[r].claimed \ {n}, ![r].chosen = {n}]
    BY <1>1 DEF SendNext, NextToSend, Abandon
  <2>2. n \in Receipt /\ flush \in [Process -> Flush] BY DEF TypeOK, Flush
  <2>3. NoFlush.chosen = {} BY DEF NoFlush
  <2>4. CASE \E c : flush' = [flush EXCEPT ![r].claimed = c] BY <2>2, <2>4 DEF Flush
  <2>5. CASE flush' = [flush EXCEPT ![r] = NoFlush] BY <2>2, <2>3, <2>5
  <2>6. CASE /\ StillClaimed(n[1], n[2])
             /\ flush' = [flush EXCEPT ![r].claimed = flush[r].claimed \ {n}, ![r].chosen = {n}]
    <3>1. m = n BY <2>2, <2>6 DEF Flush
    <3>2. QED BY <2>2, <2>6, <3>1
  <2>7. QED BY <2>1, <2>4, <2>5, <2>6
<1>2. \E r \in Process : SendNext(r)
  <2>1. SUFFICES ASSUME \A r \in Process : ~SendNext(r)
                 PROVE  \A q \in Process : flush'[q].chosen \subseteq flush[q].chosen
    OBVIOUS
  <2>2. ASSUME NEW r \in Process,
               Replace(r) \/ FlushBegin(r) \/ ClaimNext(r) \/ Publish(r) \/ FlushEnd(r)
        PROVE  \A q \in Process : flush'[q].chosen \subseteq flush[q].chosen
    <3>1. flush \in [Process -> Flush] /\ NoFlush.chosen = {} /\ NoFlush \in Flush
      BY DEF TypeOK, NoFlush, Flush
    <3>2. CASE Replace(r) BY <3>1, <3>2 DEF Replace
    <3>3. CASE FlushBegin(r)
      <4>1. PICK c \in {"idle", "claim"}, d \in SUBSET Task :
              UNCHANGED flush \/ flush' = [flush EXCEPT ![r] = [NoFlush EXCEPT !.pc = c, !.todo = d]]
        <5>1. \/ UNCHANGED flush
              \/ flush' = [flush EXCEPT ![r] =
                            [NoFlush EXCEPT !.pc = "claim", !.todo = Owned(bound[r])]]
          BY <3>3 DEF FlushBegin
        <5>2. Owned(bound[r]) \in SUBSET Task BY DEF Owned
        <5>3. QED BY <5>1, <5>2
      <4>2. [NoFlush EXCEPT !.pc = c, !.todo = d].chosen = {} BY DEF NoFlush
      <4>3. QED BY <3>1, <4>1, <4>2
    <3>4. CASE ClaimNext(r)
      <4>1. \/ flush' = [flush EXCEPT ![r].pc = "send", ![r].todo = {}]
            \/ \E t \in flush[r].todo : \E taken \in BOOLEAN :
                 flush' = [flush EXCEPT ![r].todo = @ \ {t},
                             ![r].claimed = IF taken THEN @ \cup {<<t, claims + 1>>} ELSE @]
            \/ flush' = [flush EXCEPT ![r] = NoFlush]
        <5> DEFINE wakes == HasWake(flush[r].claimed)
        <5>1. \/ flush' = [flush EXCEPT ![r].pc = "send", ![r].todo = {}]
              \/ \E t \in flush[r].todo :
                   LET taken == Claimable(rec[t], t, wakes) IN
                   flush' = [flush EXCEPT ![r].todo = @ \ {t},
                               ![r].claimed = IF taken THEN @ \cup {<<t, claims + 1>>} ELSE @]
              \/ flush' = [flush EXCEPT ![r] = NoFlush]
          BY <3>4 DEF ClaimNext, Abandon
        <5>2. \A t : Claimable(rec[t], t, wakes) \in BOOLEAN BY DEF Claimable
        <5> HIDE DEF wakes
        <5>3. QED BY <5>1, <5>2
      <4>2. CASE flush' = [flush EXCEPT ![r].pc = "send", ![r].todo = {}] BY <3>1, <4>2 DEF Flush
      <4>3. ASSUME NEW t \in flush[r].todo, NEW taken \in BOOLEAN,
                   flush' = [flush EXCEPT ![r].todo = @ \ {t},
                               ![r].claimed = IF taken THEN @ \cup {<<t, claims + 1>>} ELSE @]
            PROVE  \A q \in Process : flush'[q].chosen \subseteq flush[q].chosen
        BY <3>1, <4>3 DEF Flush
      <4>4. CASE flush' = [flush EXCEPT ![r] = NoFlush] BY <3>1, <4>4
      <4>5. QED BY <4>1, <4>2, <4>3, <4>4
    <3>5. CASE Publish(r)
      <4>1. \/ \E c : flush' = [flush EXCEPT ![r].claimed = c, ![r].chosen = {}, ![r].published = TRUE]
            \/ flush' = [flush EXCEPT ![r] = NoFlush]
        BY <3>5 DEF Publish, Abandon
      <4>2. ASSUME NEW c,
                   flush' = [flush EXCEPT ![r].claimed = c, ![r].chosen = {}, ![r].published = TRUE]
            PROVE  \A q \in Process : flush'[q].chosen \subseteq flush[q].chosen
        BY <3>1, <4>2 DEF Flush
      <4>3. CASE flush' = [flush EXCEPT ![r] = NoFlush] BY <3>1, <4>3
      <4>4. QED BY <4>1, <4>2, <4>3
    <3>6. CASE FlushEnd(r) BY <3>1, <3>6 DEF FlushEnd
    <3>7. QED BY <2>2, <3>2, <3>3, <3>4, <3>5, <3>6
  <2>3. ASSUME NEW r \in Process,
               \/ IndexReady(r) \/ AgentStart(r) \/ AgentSettled(r) \/ ForeignMessage(r)
               \/ Touch(r) \/ TimerFires(r) \/ AfterSend(r) \/ FlushDropped(r)
               \/ \E n \in inflight[r] : Append(r, n)
               \/ \E s \in Session : Bind(r, s)
               \/ \E t \in Task : SettleTask(r, t) \/ Learn(r, t) \/ Tool(r, t)
        PROVE  UNCHANGED flush
    BY <2>3 DEF IndexReady, AgentStart, AgentSettled, ForeignMessage, Touch, TimerFires,
         AfterSend, FlushDropped, Append, Bind, SettleTask, Learn, Tool
  <2>4. ASSUME NEW t \in Task, LeaseExpires(t) PROVE UNCHANGED flush
    BY <2>4 DEF LeaseExpires, coordinator
  <2>5. QED BY <2>1, <2>2, <2>3, <2>4 DEF Next, FlushStep
<1>3. m \in Receipt /\ rec[m[1]].token = m[2] /\ m[1] \in Task /\ m[2] \in Token
  BY <1>1, <1>2 DEF StillClaimed, Receipt
<1>4. SUFFICES ASSUME Made(<<m[1], k>>) PROVE FALSE OBVIOUS
<1>5. <<m[1], k>> \in Receipt /\ <<m[1], k>>[1] = m[1] /\ <<m[1], k>>[2] = k
  BY <1>3 DEF Receipt
<1>6. rec[m[1]].token # NoToken /\ m[2] \in Nat /\ k \in Nat BY <1>3 DEF Token, NoToken
<1>7. k <= m[2] BY <1>3, <1>4, <1>5, <1>6 DEF Newest
<1>8. QED BY <1>6, <1>7

\* Nothing goes to Pi but what was chosen.
LEMMA PublishesChosen ==
  ASSUME TypeOK, Next, NEW p \in Process
  PROVE  inflight'[p] \ inflight[p] \subseteq flush[p].chosen
<1>1. ASSUME NEW r \in Process, Replace(r) \/ Publish(r)
      PROVE  inflight'[p] \ inflight[p] \subseteq flush[p].chosen
  <2>1. \/ inflight' = [inflight EXCEPT ![r] = {}] \/ UNCHANGED inflight
        \/ \E m \in flush[r].chosen : inflight' = [inflight EXCEPT ![r] = @ \cup {m}]
    BY <1>1 DEF Replace, Publish
  <2>2. QED BY <2>1 DEF TypeOK
<1>2. ASSUME NEW r \in Process, NEW n \in inflight[r], Append(r, n)
      PROVE  inflight'[p] \ inflight[p] \subseteq flush[p].chosen
  BY <1>2 DEF Append, TypeOK
<1>3. ASSUME NEW r \in Process,
             \/ IndexReady(r) \/ AgentStart(r) \/ AgentSettled(r) \/ ForeignMessage(r)
             \/ Touch(r) \/ TimerFires(r) \/ AfterSend(r)
             \/ \E s \in Session : Bind(r, s)
             \/ \E t \in Task : SettleTask(r, t) \/ Learn(r, t) \/ Tool(r, t)
      PROVE  UNCHANGED inflight
  BY <1>3 DEF IndexReady, AgentStart, AgentSettled, ForeignMessage, Touch, TimerFires,
       AfterSend, Bind, SettleTask, Learn, Tool
<1>4. ASSUME NEW r \in Process,
             FlushBegin(r) \/ FlushDropped(r) \/ ClaimNext(r) \/ SendNext(r) \/ FlushEnd(r)
      PROVE  UNCHANGED inflight
  BY <1>4 DEF FlushBegin, FlushDropped, ClaimNext, SendNext, FlushEnd
<1>5. ASSUME NEW t \in Task, LeaseExpires(t) PROVE UNCHANGED inflight
  BY <1>5 DEF LeaseExpires
<1>6. QED BY <1>1, <1>2, <1>3, <1>4, <1>5 DEF Next, FlushStep

\* A coordinator chooses a message only while no newer claim of its terminal was
\* made, and it publishes nothing else: also in a session open in any number of
\* processes, whatever leases run out and crashes happen.
THEOREM NewestClaimDecidesHolds == Spec => NewestClaimDecides
<1>1. DeliveryInv /\ [Next]_vars =>
        [\A p \in Process :
           /\ \A m \in flush'[p].chosen \ flush[p].chosen :
                \A k \in Token : k > m[2] => ~Made(<<m[1], k>>)
           /\ inflight'[p] \ inflight[p] \subseteq flush[p].chosen]_vars
  BY ChoosesNewest, PublishesChosen DEF DeliveryInv
<1>2. QED BY <1>1, InitialInv, InductiveStep, PTL DEF Spec, NewestClaimDecides

=============================================================================
