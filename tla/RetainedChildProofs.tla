-------------------------- MODULE RetainedChildProofs --------------------------
(***************************************************************************)
(* Proofs about RetainedChild, for every set of managers and processes.    *)
(*                                                                         *)
(* The lease of control is what the argument rests on: whoever acts for    *)
(* the child holds it, and it is taken only from nobody or from a dead     *)
(* process (Holders).  So the slot a manager fills while it delivers is    *)
(* touched by no other one until it dies (Delivering).                     *)
(***************************************************************************)
EXTENDS RetainedChild, FiniteSetTheorems, TLAPS

\* A manager that acts for the child holds control, one that asked to be
\* replaced no longer acts, and before control is granted nobody acts.
Holders ==
  /\ \A m \in Manager : view[m] = "bound" /\ Alive(m) => rec.control.by = m
  /\ \A f, t \in Manager : <<f, t>> \in request => view[f] = "detached"
  /\ owner \in {"new", "attached"} =>
       /\ rec.control.by = None
       /\ \A m \in Manager :
            /\ view[m] \notin {"bound", "acquiring"}
            /\ read[m] # None => read[m].control.by = None

\* A supervisor that works holds the record, and no loss is recorded over it.
Outcome ==
  /\ Works /\ owner # "new" => rec.writer.by = Owner
  /\ rec.status = "settled" => owner \in {"settled", "disposed"}
  /\ rec.delivery.state # "none" => rec.status = "settled"
  /\ LossIsReal

\* What was handed to Pi before and after pi.sendMessage.
Before(kind) == IF kind = "notice" THEN Results ELSE {<<>>}
After(kind) == IF kind = "notice" THEN Noticed ELSE {<<"result">>}

\* The slot of a manager in deliver() is its own.
Delivering ==
  \A m \in Manager :
    step[m] \in {"admitted", "submitted"} /\ Alive(m) =>
      /\ view[m] = "bound" /\ rec.status = "settled" /\ Pending(rec) = Sending(rec)
      /\ messages \in (IF step[m] = "admitted" THEN Before(Message(rec)) ELSE After(Message(rec)))

RetainedInv == TypeOK /\ Holders /\ Outcome /\ Delivering /\ RecordTellsTruth

-----------------------------------------------------------------------------
\* The records an operation of the registry writes.
LEMMA LeaseTypes ==
  /\ NoLease \in Lease /\ Held(Owner) \in Lease
  /\ \A m \in Manager : Held(m) \in Lease
BY DEF Lease, NoLease, Held

LEMMA SlotTypes ==
  ASSUME NEW r \in Record
  PROVE  /\ Sending(r) \in Slot
         /\ \A s \in {"none", "undelivered", "sent", "uncertain"} : Empty(s) \in Slot
BY DEF Slot, Record, Sending, Empty

LEMMA RecordTypes ==
  ASSUME NEW r \in Record, NEW m \in Manager
  PROVE  /\ Granted(r, m) \in Record /\ Succeeded(r, m) \in Record
         /\ Reserved(r, m) \in Record /\ Recovered(r, m) \in Record
         /\ HandedOff(r, m) \in Record /\ Doubted(r) \in Record
         /\ [HandedOff(r, m) EXCEPT !.status = "lost"] \in Record
<1>1. NoLease \in Lease /\ Held(m) \in Lease BY LeaseTypes
<1>2. Empty("uncertain") \in Slot /\ Empty("undelivered") \in Slot BY SlotTypes
<1>3. r.generation + 1 \in Nat BY DEF Record
<1>4. Granted(r, m) \in Record BY <1>1 DEF Record, Granted
<1>5. Succeeded(r, m) \in Record BY <1>1, <1>3 DEF Record, Succeeded
<1>6. Reserved(r, m) \in Record BY <1>1 DEF Record, Reserved
<1>7. Recovered(r, m) \in Record BY <1>1, <1>3 DEF Record, Recovered
<1>8. HandedOff(r, m) \in Record BY <1>1, <1>3 DEF Record, HandedOff
<1>9. Doubted(r) \in Record BY <1>2 DEF Record, Doubted
<1>10. [HandedOff(r, m) EXCEPT !.status = "lost"] \in Record BY <1>8 DEF Record
<1>11. QED BY <1>4, <1>5, <1>6, <1>7, <1>8, <1>9, <1>10

LEMMA FilledType ==
  ASSUME NEW r \in Record, NEW kind, NEW slot \in Slot
  PROVE  Filled(r, kind, slot) \in Record
BY DEF Record, Filled

LEMMA InitTypes == Init => TypeOK
<1>1. NewRecord \in Record
  BY RetainedAssumption, LeaseTypes DEF NewRecord, Record, Empty, Slot
<1>2. lapses = 0 => lapses \in 0..MaxLapses BY RetainedAssumption
<1>3. <<>> \in Seq({"result", "notice"}) OBVIOUS
<1>4. QED BY <1>1, <1>2, <1>3 DEF Init, TypeOK

LEMMA SupervisorTypes ==
  ASSUME TypeOK, Supervisor
  PROVE  TypeOK'
<1>1. rec \in Record BY DEF TypeOK
<1>2. Held(Owner) \in Lease /\ Empty("undelivered") \in Slot BY <1>1, LeaseTypes, SlotTypes
<1>3. ASSUME Unchanged, rec' \in Record, child' \in {"none", "up", "gone"},
             owner' \in {"new", "attached", "granted", "admitted", "anchored", "running",
                         "settling", "settled", "stopped", "disposed"}
      PROVE  TypeOK'
  BY <1>3 DEF TypeOK, Unchanged
<1>4. CASE Attach /\ Unchanged
  <2>1. [rec EXCEPT !.writer = Held(Owner)] \in Record BY <1>1, <1>2 DEF Record
  <2>2. QED BY <1>3, <1>4, <2>1 DEF Attach, TypeOK
<1>5. CASE Grant /\ Unchanged
  BY <1>1, <1>3, <1>5, RecordTypes, RetainedAssumption DEF Grant, TypeOK
<1>6. CASE BeforeSpawn /\ Unchanged
  <2>1. [rec EXCEPT !.launch = "intent"] \in Record BY <1>1 DEF Record
  <2>2. QED BY <1>3, <1>6, <2>1 DEF BeforeSpawn, TypeOK
<1>7. CASE BeforePrompt /\ Unchanged
  <2>1. [rec EXCEPT !.launch = "child"] \in Record BY <1>1 DEF Record
  <2>2. QED BY <1>3, <1>7, <2>1 DEF BeforePrompt, TypeOK
<1>8. CASE Release /\ Unchanged
  <2>1. [rec EXCEPT !.status = "running"] \in Record BY <1>1 DEF Record
  <2>2. QED BY <1>3, <1>8, <2>1 DEF Release, TypeOK
<1>9. CASE Settling /\ Unchanged
  <2>1. [rec EXCEPT !.status = "settling"] \in Record BY <1>1 DEF Record
  <2>2. QED BY <1>3, <1>9, <2>1 DEF Settling, TypeOK
<1>10. CASE Settled /\ Unchanged
  <2>1. [rec EXCEPT !.status = "settled", !.delivery = Empty("undelivered")] \in Record
    BY <1>1, <1>2 DEF Record
  <2>2. QED BY <1>3, <1>10, <2>1 DEF Settled, TypeOK
<1>11. CASE Disposes /\ Unchanged BY <1>1, <1>3, <1>11 DEF Disposes, TypeOK
<1>12. ASSUME NEW status \in {"lost", "ambiguous"}, Fails(status), Unchanged PROVE TypeOK'
  <2>1. [rec EXCEPT !.status = status] \in Record BY <1>1 DEF Record
  <2>2. QED BY <1>1, <1>3, <1>12, <2>1 DEF Fails, TypeOK
<1>13. ASSUME NEW f \in Manager, NEW t \in Manager, Serves(f, t) PROVE TypeOK'
  <2>1. [rec EXCEPT !.status = "ambiguous"] \in Record /\ Reserved(rec, t) \in Record
    BY <1>1, RecordTypes DEF Record
  <2>2. rec' \in Record /\ (owner' = owner \/ owner' = "stopped") BY <1>13, <2>1 DEF Serves
  <2>3. request' \subseteq Manager \X Manager BY <1>13 DEF Serves, TypeOK
  <2>4. QED BY <1>13, <2>2, <2>3 DEF Serves, TypeOK
<1>14. QED
  BY <1>4, <1>5, <1>6, <1>7, <1>8, <1>9, <1>10, <1>11, <1>12, <1>13 DEF Supervisor

LEMMA ControlTypes ==
  ASSUME TypeOK, NEW m \in Manager, Control(m)
  PROVE  TypeOK'
<1>1. rec \in Record BY DEF TypeOK
<1>2. CASE Confirms(m) BY <1>2 DEF Confirms, Sees, OnlyView, TypeOK
<1>3. CASE Blocks(m) BY <1>3 DEF Blocks, Sees, OnlyView, TypeOK
<1>4. CASE Acquires(m)
  <2>1. rec' \in Record BY <1>1, <1>4, RecordTypes DEF Acquires
  <2>2. QED BY <1>4, <2>1 DEF Acquires, Sees, TypeOK
<1>5. CASE Inspects(m) BY <1>1, <1>5 DEF Inspects, TypeOK
<1>6. CASE Decides(m)
  <2>1. rec' \in Record
    BY <1>1, <1>6, RecordTypes DEF Decides, Buries, Adopts, Mirrors
  <2>2. view' = view \/ \E v \in {"bound", "mirror", "blocked"} : Learns(m, v)
    BY <1>6 DEF Decides, Buries, Adopts, Mirrors
  <2>3. view' \in [Manager -> {"none", "launching", "refused", "bound", "mirror", "blocked",
                               "acquiring", "detached"}]
    BY <2>2 DEF Learns, Sees, TypeOK
  <2>4. read' \in [Manager -> Record \cup {None}] BY <1>6 DEF Decides, TypeOK
  <2>5. QED BY <1>6, <2>1, <2>3, <2>4 DEF Decides, TypeOK
<1>7. QED BY <1>2, <1>3, <1>4, <1>5, <1>6 DEF Control

LEMMA DeliveryTypes ==
  ASSUME TypeOK, NEW m \in Manager, Delivery(m)
  PROVE  TypeOK'
<1>1. rec \in Record /\ messages \in Seq({"result", "notice"}) BY DEF TypeOK
<1>2. Sending(rec) \in Slot /\ Empty("sent") \in Slot /\ Empty("uncertain") \in Slot
  BY <1>1, SlotTypes
<1>3. Doubted(rec) \in Record BY <1>1, RecordTypes
<1>4. rec' \in Record
  BY <1>1, <1>2, <1>3, FilledType
  DEF Delivery, Doubts, Admits, Submits, Acknowledges, Misses
<1>5. Message(rec) \in {"result", "notice"} BY DEF Message
<1>6. messages' \in Seq({"result", "notice"})
  BY <1>1, <1>5 DEF Delivery, Doubts, Admits, Submits, Acknowledges, Misses
<1>7. step' = step \/ \E s \in {"admitted", "submitted", "done"} : Goes(m, s)
  BY DEF Delivery, Doubts, Admits, Submits, Acknowledges, Misses
<1>8. step' \in [Manager -> {"idle", "admitted", "submitted", "done"}]
  BY <1>7 DEF Goes, TypeOK
<1>9. UNCHANGED <<owner, child, up, view, read, request, lapses>>
  BY DEF Delivery, Doubts, Admits, Submits, Acknowledges, Misses, DeliveryOnly
<1>10. QED BY <1>4, <1>6, <1>8, <1>9 DEF TypeOK

LEMMA WorldTypes ==
  ASSUME TypeOK,
         \/ ChildExits \/ Lapses
         \/ \E f, t \in Manager : Replaced(f, t)
         \/ \E p \in Host \cup {Owner} : Dies(p)
  PROVE  TypeOK'
<1>1. CASE ChildExits BY <1>1 DEF ChildExits, TypeOK
<1>2. CASE Lapses
  <2>1. ASSUME NEW l \in Lease PROVE [l EXCEPT !.fresh = FALSE] \in Lease BY DEF Lease
  <2>2. rec \in Record /\ rec.writer \in Lease /\ rec.control \in Lease BY DEF TypeOK, Record
  <2>3. \/ rec' = [rec EXCEPT !.writer = [rec.writer EXCEPT !.fresh = FALSE]]
        \/ rec' = [rec EXCEPT !.control = [rec.control EXCEPT !.fresh = FALSE]]
    BY <1>2 DEF Lapses
  <2>4. rec' \in Record BY <2>1, <2>2, <2>3 DEF Record
  <2>5. lapses' \in 0..MaxLapses BY <1>2, RetainedAssumption DEF Lapses, TypeOK
  <2>6. QED BY <1>2, <2>4, <2>5 DEF Lapses, TypeOK
<1>3. ASSUME NEW f \in Manager, NEW t \in Manager, Replaced(f, t) PROVE TypeOK'
  <2>1. request' \subseteq Manager \X Manager BY <1>3 DEF Replaced, TypeOK
  <2>2. view' \in [Manager -> {"none", "launching", "refused", "bound", "mirror", "blocked",
                               "acquiring", "detached"}]
    BY <1>3 DEF Replaced, TypeOK
  <2>3. QED BY <1>3, <2>1, <2>2 DEF Replaced, TypeOK
<1>4. ASSUME NEW p \in Host \cup {Owner}, Dies(p) PROVE TypeOK'
  BY <1>4 DEF Dies, TypeOK
<1>5. QED BY <1>1, <1>2, <1>3, <1>4

LEMMA TypesKept == TypeOK /\ [Next]_vars => TypeOK'
<1>1. ASSUME TypeOK, UNCHANGED vars PROVE TypeOK' BY <1>1 DEF TypeOK, vars
<1>2. QED BY <1>1, SupervisorTypes, ControlTypes, DeliveryTypes, WorldTypes DEF Next

-----------------------------------------------------------------------------
\* Control is held by whoever acts for the child.

\* Nobody takes control while a manager that acts for the child lives.
LEMMA NotFree ==
  ASSUME Holders, NEW m \in Manager, view[m] = "bound", Alive(m)
  PROVE  ~Free(rec.control)
<1>1. rec.control.by = m BY DEF Holders
<1>2. m # None BY RetainedAssumption
<1>3. QED BY <1>1, <1>2 DEF Free

LEMMA AliveBefore ==
  ASSUME NEW w, up' \subseteq up, Alive(w)'
  PROVE  Alive(w)
BY DEF Alive

LEMMA FreeTakes ==
  ASSUME NEW r \in Record, NEW m \in Manager
  PROVE  /\ CanSucceed(r, m) \/ CanRecover(r) \/ CanHandOff(r) => Free(r.control)
         /\ Granted(r, m).control.by = m /\ Succeeded(r, m).control.by = m
         /\ Recovered(r, m).control.by = m /\ HandedOff(r, m).control.by = m
         /\ [HandedOff(r, m) EXCEPT !.status = "lost"].control.by = m
BY DEF CanSucceed, CanRecover, CanHandOff, Granted, Succeeded, Recovered, HandedOff, Held, Record

LEMMA InitHolders == Init => Holders
BY DEF Init, Holders, NewRecord, NoLease

\* A step that leaves views and requests alone keeps Holders if it leaves
\* control alone.
LEMMA ControlUntouched ==
  ASSUME Holders, UNCHANGED <<view, read, request>>, up' \subseteq up,
         rec'.control.by = rec.control.by,
         owner' \in {"new", "attached"} => owner \in {"new", "attached"}
  PROVE  Holders'
<1>1. ASSUME NEW m \in Manager, view'[m] = "bound", Alive(m)' PROVE rec'.control.by = m
  BY <1>1, AliveBefore DEF Holders
<1>2. QED BY <1>1 DEF Holders

LEMMA SupervisorHolders ==
  ASSUME TypeOK, Holders, Supervisor
  PROVE  Holders'
<1>1. rec \in Record BY DEF TypeOK
<1>2. ASSUME Unchanged, rec'.control = rec.control,
             owner' \in {"new", "attached"} => owner \in {"new", "attached"}
      PROVE  Holders'
  BY <1>2, ControlUntouched DEF Unchanged
<1>3. CASE Attach /\ Unchanged BY <1>1, <1>2, <1>3 DEF Attach, Record
<1>4. CASE Grant /\ Unchanged
  <2>1. \A m \in Manager : view'[m] # "bound" BY <1>4 DEF Grant, Unchanged, Holders
  <2>2. QED BY <1>4, <2>1 DEF Grant, Unchanged, Holders
<1>5. CASE BeforeSpawn /\ Unchanged BY <1>1, <1>2, <1>5 DEF BeforeSpawn, Record
<1>6. CASE BeforePrompt /\ Unchanged BY <1>1, <1>2, <1>6 DEF BeforePrompt, Record
<1>7. CASE Release /\ Unchanged BY <1>1, <1>2, <1>7 DEF Release, Record
<1>8. CASE Settling /\ Unchanged BY <1>1, <1>2, <1>8 DEF Settling, Record
<1>9. CASE Settled /\ Unchanged BY <1>1, <1>2, <1>9 DEF Settled, Record
<1>10. CASE Disposes /\ Unchanged BY <1>1, <1>2, <1>10 DEF Disposes
<1>11. ASSUME NEW status \in {"lost", "ambiguous"}, Fails(status), Unchanged PROVE Holders'
  BY <1>1, <1>2, <1>11 DEF Fails, Record
<1>12. ASSUME NEW f \in Manager, NEW t \in Manager, Serves(f, t) PROVE Holders'
  <2>1. rec.control.by = f /\ view[f] = "detached" BY <1>12 DEF Serves, CanReserve, Holders
  <2>2. \A m \in Manager : ~(view[m] = "bound" /\ Alive(m)) BY <2>1 DEF Holders
  <2>3. up' = up /\ view' = view /\ request' \subseteq request BY <1>12 DEF Serves
  <2>4. \A m \in Manager : ~(view'[m] = "bound" /\ Alive(m)') BY <2>2, <2>3 DEF Alive
  <2>5. owner' \notin {"new", "attached"} BY <1>12 DEF Serves
  <2>6. QED BY <2>3, <2>4, <2>5 DEF Holders
<1>13. QED
  BY <1>3, <1>4, <1>5, <1>6, <1>7, <1>8, <1>9, <1>10, <1>11, <1>12 DEF Supervisor

\* A manager that takes control, or whose view changes otherwise than to
\* acting for the child.
LEMMA OneViewHolders ==
  ASSUME TypeOK, Holders, NEW m \in Manager, owner \notin {"new", "attached"},
         UNCHANGED <<owner, up, request>>, view[m] # "detached",
         NEW v \in {"none", "bound", "mirror", "blocked", "refused"}, Sees(m, v),
         \/ rec' = rec /\ (v = "bound" => rec.control.by = m)
         \/ Free(rec.control) /\ rec'.control.by = m
  PROVE  Holders'
<1>1. \A n \in Manager : view'[n] = IF n = m THEN v ELSE view[n] BY DEF Sees, TypeOK
<1>2. ASSUME NEW n \in Manager, view'[n] = "bound", Alive(n)' PROVE rec'.control.by = n
  <2>1. Alive(n) BY <1>2 DEF Alive
  <2>2. CASE n = m BY <1>1, <1>2, <2>2
  <2>3. CASE n # m
    <3>1. view[n] = "bound" BY <1>1, <1>2, <2>3
    <3>2. ~Free(rec.control) /\ rec.control.by = n BY <2>1, <3>1, NotFree DEF Holders
    <3>3. QED BY <3>2
  <2>4. QED BY <2>2, <2>3
<1>3. ASSUME NEW f \in Manager, NEW t \in Manager, <<f, t>> \in request'
      PROVE  view'[f] = "detached"
  <2>1. view[f] = "detached" BY <1>3 DEF Holders
  <2>2. QED BY <1>1, <2>1
<1>4. QED BY <1>2, <1>3 DEF Holders

LEMMA ConfirmsHolders ==
  ASSUME TypeOK, Holders, NEW m \in Manager, Confirms(m) \/ Blocks(m)
  PROVE  Holders'
<1>1. view[m] \in {"launching", "bound"} BY DEF Confirms, Blocks
<1>2. UNCHANGED <<rec, owner, up, read, request>> BY DEF Confirms, Blocks, OnlyView
<1>3. \/ Controls(m) /\ Sees(m, "bound")
      \/ Sees(m, "refused") \/ Sees(m, "blocked")
  BY DEF Confirms, Blocks
<1>4. \A v : Sees(m, v) => view' = [view EXCEPT ![m] = v] BY DEF Sees
<1>5. CASE owner \in {"new", "attached"}
  <2>1. rec.control.by = None /\ m # None BY <1>5, RetainedAssumption DEF Holders
  <2>2. ~Controls(m) BY <2>1 DEF Controls
  <2>3. \A n \in Manager : view'[n] \in {view[n], "refused", "blocked"}
    BY <1>3, <1>4, <2>2 DEF TypeOK
  <2>4. view'[m] # "detached" /\ \A n \in Manager : view[n] = "detached" => view'[n] = "detached"
    BY <1>1, <1>3, <1>4, <2>2 DEF TypeOK
  <2>5. \A n \in Manager : view'[n] \notin {"bound", "acquiring"}
    BY <1>5, <2>3 DEF Holders
  <2>6. QED BY <1>2, <1>5, <2>4, <2>5 DEF Holders
<1>6. CASE owner \notin {"new", "attached"}
  <2>1. CASE Controls(m) /\ Sees(m, "bound")
    BY <1>1, <1>2, <1>6, <2>1, OneViewHolders DEF Controls
  <2>2. CASE Sees(m, "refused") BY <1>1, <1>2, <1>6, <2>2, OneViewHolders
  <2>3. CASE Sees(m, "blocked") BY <1>1, <1>2, <1>6, <2>3, OneViewHolders
  <2>4. QED BY <1>3, <2>1, <2>2, <2>3
<1>7. QED BY <1>5, <1>6

LEMMA AcquiresHolders ==
  ASSUME TypeOK, Holders, NEW m \in Manager, Acquires(m)
  PROVE  Holders'
<1>1. rec \in Record BY DEF TypeOK
<1>2. owner \notin {"new", "attached"} BY DEF Acquires, Holders
<1>3. UNCHANGED <<owner, up, request>> /\ view[m] # "detached" BY DEF Acquires
<1>4. CASE CanSucceed(rec, m) /\ rec' = Succeeded(rec, m) /\ Sees(m, "bound")
  <2>1. Free(rec.control) /\ rec'.control.by = m BY <1>1, <1>4, FreeTakes
  <2>2. QED BY <1>2, <1>3, <1>4, <2>1, OneViewHolders
<1>5. CASE Sees(m, "blocked") /\ UNCHANGED rec BY <1>2, <1>3, <1>5, OneViewHolders
<1>6. QED BY <1>4, <1>5 DEF Acquires

LEMMA InspectsHolders ==
  ASSUME TypeOK, Holders, NEW m \in Manager, Inspects(m)
  PROVE  Holders'
<1>1. UNCHANGED <<rec, owner, up, view, request>> BY DEF Inspects
<1>2. \A n \in Manager : read'[n] \in {read[n], rec} BY DEF Inspects, TypeOK
<1>3. \A n \in Manager : view'[n] = "bound" /\ Alive(n)' => rec'.control.by = n
  BY <1>1 DEF Holders, Alive
<1>4. QED BY <1>1, <1>2, <1>3 DEF Holders

LEMMA DecidesHolders ==
  ASSUME TypeOK, Holders, NEW m \in Manager, Decides(m)
  PROVE  Holders'
<1>1. rec \in Record BY DEF TypeOK
<1>2. UNCHANGED <<owner, up, request>> BY DEF Decides
<1>3. \A n \in Manager : read'[n] \in {read[n], None} BY DEF Decides, TypeOK
<1>4. CASE read[m].control.by = None
  <2>1. UNCHANGED <<rec, view>> BY <1>4 DEF Decides
  <2>2. \A n \in Manager : view'[n] = "bound" /\ Alive(n)' => rec'.control.by = n
    BY <1>2, <2>1 DEF Holders, Alive
  <2>3. QED BY <1>2, <1>3, <2>1, <2>2 DEF Holders
<1>5. CASE read[m].control.by # None
  <2>1. owner \notin {"new", "attached"} BY <1>5 DEF Decides, Holders
  <2>2. ASSUME NEW v \in {"bound", "mirror", "blocked"}, Learns(m, v),
               \/ rec' = rec /\ v # "bound"
               \/ Free(rec.control) /\ rec'.control.by = m
        PROVE  Holders'
    <3>1. CASE view[m] = "none"
      <4>1. Sees(m, v) /\ view[m] # "detached" BY <2>2, <3>1 DEF Learns
      <4>2. QED BY <1>2, <2>1, <2>2, <4>1, OneViewHolders
    <3>2. CASE view[m] # "none"
      <4>1. view' = view BY <2>2, <3>2 DEF Learns, Sees, TypeOK
      <4>2. ASSUME NEW n \in Manager, view'[n] = "bound", Alive(n)' PROVE rec'.control.by = n
        <5>1. view[n] = "bound" /\ Alive(n) BY <1>2, <4>1, <4>2 DEF Alive
        <5>2. ~Free(rec.control) BY <5>1, NotFree
        <5>3. QED BY <2>2, <5>1, <5>2 DEF Holders
      <4>3. QED BY <1>2, <2>1, <4>1, <4>2 DEF Holders
    <3>3. QED BY <3>1, <3>2
  <2>3. CASE Buries(m)
    <3>1. Free(rec.control) BY <2>3 DEF Buries, CanHandOff
    <3>2. rec' = HandedOff(rec, m) \/ rec' = [HandedOff(rec, m) EXCEPT !.status = "lost"]
      BY <2>3 DEF Buries
    <3>3. rec'.control.by = m BY <1>1, <3>2, FreeTakes
    <3>4. Learns(m, "bound") \/ Learns(m, "blocked") BY <2>3 DEF Buries
    <3>5. QED BY <2>2, <3>1, <3>3, <3>4
  <2>4. CASE Adopts(m)
    <3>1. Free(rec.control) /\ rec'.control.by = m BY <1>1, <2>4, FreeTakes DEF Adopts
    <3>2. Learns(m, "bound") BY <2>4 DEF Adopts
    <3>3. QED BY <2>2, <3>1, <3>2
  <2>5. CASE Mirrors(m) BY <2>2, <2>5 DEF Mirrors
  <2>6. CASE Learns(m, "blocked") /\ UNCHANGED rec BY <2>2, <2>6
  <2>7. QED BY <1>5, <2>3, <2>4, <2>5, <2>6 DEF Decides
<1>6. QED BY <1>4, <1>5

LEMMA DeliveryHolders ==
  ASSUME TypeOK, Holders, NEW m \in Manager, Delivery(m)
  PROVE  Holders'
<1>1. rec \in Record BY DEF TypeOK
<1>2. UNCHANGED <<owner, up, view, read, request>>
  BY DEF Delivery, Doubts, Admits, Submits, Acknowledges, Misses, DeliveryOnly
<1>3. \A kind, slot : Filled(rec, kind, slot).control = rec.control
  BY <1>1 DEF Filled, Record
<1>4. Doubted(rec).control = rec.control BY <1>1 DEF Doubted, Record
<1>5. rec'.control = rec.control
  BY <1>3, <1>4 DEF Delivery, Doubts, Admits, Submits, Acknowledges, Misses
<1>6. QED BY <1>2, <1>5, ControlUntouched

LEMMA ReplacedHolders ==
  ASSUME TypeOK, Holders, NEW f \in Manager, NEW t \in Manager, Replaced(f, t)
  PROVE  Holders'
<1>1. UNCHANGED <<rec, owner, up, read>> /\ view[t] = "none" /\ view[f] # "none" /\ f # t
  BY DEF Replaced
<1>2. view'[f] = "detached" /\ view'[t] = (IF view[f] = "bound" THEN "acquiring" ELSE "blocked")
  BY <1>1 DEF Replaced, TypeOK
<1>3. \A n \in Manager \ {f, t} : view'[n] = view[n] BY DEF Replaced, TypeOK
<1>4. request' \subseteq request \cup {<<f, t>>} BY DEF Replaced
<1>5. ASSUME NEW n \in Manager, view'[n] = "bound", Alive(n)' PROVE rec'.control.by = n
  <2>1. view[n] = "bound" /\ Alive(n) BY <1>1, <1>2, <1>3, <1>5 DEF Alive
  <2>2. QED BY <1>1, <2>1 DEF Holders
<1>6. ASSUME NEW g \in Manager, NEW s \in Manager, <<g, s>> \in request'
      PROVE  view'[g] = "detached"
  <2>1. g = f \/ view[g] = "detached" BY <1>4, <1>6 DEF Holders
  <2>2. QED BY <1>1, <1>2, <1>3, <2>1
<1>7. ASSUME NEW n \in Manager, owner' \in {"new", "attached"}
      PROVE  view'[n] \notin {"bound", "acquiring"}
  <2>1. view[n] \notin {"bound", "acquiring"} /\ view[f] # "bound" BY <1>1, <1>7 DEF Holders
  <2>2. QED BY <1>2, <1>3, <2>1
<1>8. QED BY <1>1, <1>5, <1>6, <1>7 DEF Holders

LEMMA HoldersKept == TypeOK /\ Holders /\ [Next]_vars => Holders'
<1> SUFFICES ASSUME TypeOK, Holders, [Next]_vars PROVE Holders' OBVIOUS
<1>1. CASE UNCHANGED vars BY <1>1, ControlUntouched DEF vars
<1>2. CASE ChildExits BY <1>2, ControlUntouched DEF ChildExits
<1>3. CASE Lapses
  <2>1. rec'.control.by = rec.control.by BY <1>3 DEF Lapses, TypeOK, Record, Lease
  <2>2. QED BY <1>3, <2>1, ControlUntouched DEF Lapses
<1>4. ASSUME NEW p \in Host \cup {Owner}, Dies(p) PROVE Holders'
  BY <1>4, ControlUntouched DEF Dies
<1>5. ASSUME NEW m \in Manager, Control(m) PROVE Holders'
  BY <1>5, ConfirmsHolders, AcquiresHolders, InspectsHolders, DecidesHolders DEF Control
<1>6. QED
  BY <1>1, <1>2, <1>3, <1>4, <1>5, SupervisorHolders, DeliveryHolders, ReplacedHolders DEF Next

-----------------------------------------------------------------------------
\* The outcome of the child.

LEMMA OwnerAlive ==
  ASSUME Works
  PROVE  /\ Alive(Owner) /\ Owner # None
         /\ \A l : l.by = Owner => ~Free(l)
BY RetainedAssumption DEF Works, Alive, Free

LEMMA InitOutcome == Init => Outcome
BY DEF Init, Outcome, LossIsReal, NewRecord, Empty

LEMMA OutcomeUntouched ==
  ASSUME Outcome, UNCHANGED owner, up' \subseteq up, rec'.status = rec.status,
         rec'.writer.by = rec.writer.by, rec'.delivery.state # "none" => rec.status = "settled"
  PROVE  Outcome'
<1>1. Works' => Works BY DEF Works
<1>2. QED BY <1>1 DEF Outcome, LossIsReal

LEMMA SupervisorOutcome ==
  ASSUME TypeOK, Outcome, Supervisor
  PROVE  Outcome' /\ (rec.status = "settled" => rec'.status = "settled")
<1>1. rec \in Record BY DEF TypeOK
<1>2. ASSUME Works, up' = up, rec'.writer = rec.writer, rec'.delivery = rec.delivery,
             rec.status # "settled", rec'.status # "settled",
             rec'.status \in {"lost", "ambiguous"} => owner' = "stopped",
             owner # "new", owner' \notin {"settled", "disposed"}
      PROVE  Outcome' /\ (rec.status = "settled" => rec'.status = "settled")
  BY <1>2 DEF Outcome, LossIsReal, Works
<1>3. Works => rec.status \notin {"lost", "ambiguous"} BY DEF Outcome, LossIsReal
<1>4. owner \notin {"settled", "disposed"} => rec.status # "settled" BY DEF Outcome
<1>5. CASE Attach /\ Unchanged
  <2>1. rec'.writer.by = Owner /\ rec'.status = rec.status /\ rec'.delivery = rec.delivery
    BY <1>1, <1>5 DEF Attach, Held, Record
  <2>2. rec.status # "settled" /\ rec.status \notin {"lost", "ambiguous"}
    BY <1>3, <1>4, <1>5 DEF Attach
  <2>3. QED BY <1>5, <2>1, <2>2 DEF Attach, Outcome, LossIsReal
<1>6. CASE Grant /\ Unchanged
  BY <1>1, <1>2, <1>3, <1>4, <1>6 DEF Grant, Writes, Granted, Record, Unchanged
<1>7. CASE BeforeSpawn /\ Unchanged
  BY <1>1, <1>2, <1>3, <1>4, <1>7 DEF BeforeSpawn, Writes, Record, Unchanged
<1>8. CASE BeforePrompt /\ Unchanged
  BY <1>1, <1>2, <1>3, <1>4, <1>8 DEF BeforePrompt, Writes, Record, Unchanged
<1>9. CASE Release /\ Unchanged
  BY <1>1, <1>2, <1>3, <1>4, <1>9 DEF Release, Writes, Record, Unchanged
<1>10. CASE Settling /\ Unchanged
  BY <1>1, <1>2, <1>3, <1>4, <1>10 DEF Settling, Writes, Record, Unchanged
<1>11. CASE Settled /\ Unchanged
  <2>1. rec'.writer = rec.writer /\ rec'.status = "settled" /\ owner' = "settled"
    BY <1>1, <1>11 DEF Settled, Record
  <2>2. rec.writer.by = Owner BY <1>11 DEF Settled, Writes, Held
  <2>3. QED BY <2>1, <2>2 DEF Outcome, LossIsReal
<1>12. CASE Disposes /\ Unchanged
  BY <1>3, <1>12 DEF Disposes, Outcome, LossIsReal, Works
<1>13. ASSUME NEW status \in {"lost", "ambiguous"}, Fails(status), Unchanged
       PROVE  Outcome' /\ (rec.status = "settled" => rec'.status = "settled")
  <2>1. owner \notin {"settled", "disposed"} /\ Works /\ owner # "new" /\ owner' = "stopped"
    BY <1>13 DEF Fails, Works
  <2>2. rec' = rec \/ rec' = [rec EXCEPT !.status = status] BY <1>13 DEF Fails
  <2>3. rec'.writer = rec.writer /\ rec'.delivery = rec.delivery /\ rec'.status # "settled"
    BY <1>1, <1>4, <2>1, <2>2 DEF Record
  <2>4. QED BY <1>2, <1>4, <1>13, <2>1, <2>3 DEF Unchanged
<1>14. ASSUME NEW f \in Manager, NEW t \in Manager, Serves(f, t)
       PROVE  Outcome' /\ (rec.status = "settled" => rec'.status = "settled")
  <2>1. CASE rec' = Reserved(rec, t) /\ UNCHANGED owner
    <3>1. rec'.status = rec.status /\ rec'.writer = rec.writer /\ rec'.delivery = rec.delivery
      BY <1>1, <2>1 DEF Reserved, Record
    <3>2. up' = up BY <1>14 DEF Serves
    <3>3. QED BY <2>1, <3>1, <3>2, OutcomeUntouched DEF Outcome
  <2>2. CASE owner = "running" /\ owner' = "stopped"
             /\ rec' = [rec EXCEPT !.status = "ambiguous"]
    <3>1. rec'.status = "ambiguous" /\ rec'.writer = rec.writer /\ rec'.delivery = rec.delivery
      BY <1>1, <2>2 DEF Record
    <3>2. Works /\ up' = up BY <1>14 DEF Serves, Writes
    <3>3. QED BY <1>2, <1>4, <2>2, <3>1, <3>2
  <2>3. QED BY <1>14, <2>1, <2>2 DEF Serves
<1>15. QED
  BY <1>5, <1>6, <1>7, <1>8, <1>9, <1>10, <1>11, <1>12, <1>13, <1>14 DEF Supervisor

LEMMA DecidesOutcome ==
  ASSUME TypeOK, Holders, Outcome, NEW m \in Manager, Decides(m)
  PROVE  Outcome' /\ (rec.status = "settled" => rec'.status = "settled")
<1>1. rec \in Record BY DEF TypeOK
<1>2. UNCHANGED <<owner, up>> BY DEF Decides
<1>3. CASE UNCHANGED rec BY <1>2, <1>3, OutcomeUntouched DEF Outcome
<1>4. CASE read[m].control.by # None /\ Buries(m)
  <2>1. owner # "new" BY <1>4 DEF Decides, Holders
  <2>2. ~Works BY <1>4, <2>1, OwnerAlive DEF Buries, Outcome
  <2>3. \/ rec' = HandedOff(rec, m) /\ rec.status = "settled"
        \/ rec' = [HandedOff(rec, m) EXCEPT !.status = "lost"] /\ rec.status # "settled"
    BY <1>4 DEF Buries
  <2>4. rec'.delivery = rec.delivery /\ rec'.status \in {rec.status, "lost"}
        /\ (rec.status = "settled" => rec'.status = "settled")
    BY <1>1, <2>3 DEF HandedOff, Record
  <2>5. QED BY <1>2, <2>2, <2>4 DEF Outcome, LossIsReal, Works
<1>5. CASE read[m].control.by # None /\ Adopts(m)
  <2>1. owner # "new" BY <1>5 DEF Decides, Holders
  <2>2. CASE rec' = Recovered(rec, m)
    <3>1. rec'.status = rec.status /\ rec'.writer = rec.writer /\ rec'.delivery = rec.delivery
      BY <1>1, <2>2 DEF Recovered, Record
    <3>2. QED BY <1>2, <3>1, OutcomeUntouched DEF Outcome
  <2>3. CASE CanHandOff(rec) /\ rec' = HandedOff(rec, m)
    <3>1. rec'.status = rec.status /\ rec'.delivery = rec.delivery
      BY <1>1, <2>3 DEF HandedOff, Record
    <3>2. ~Works BY <2>1, <2>3, OwnerAlive DEF CanHandOff, Outcome
    <3>3. QED BY <1>2, <3>1, <3>2 DEF Outcome, LossIsReal, Works
  <2>4. QED BY <1>5, <2>2, <2>3 DEF Adopts
<1>6. QED BY <1>3, <1>4, <1>5 DEF Decides, Mirrors

LEMMA ControlOutcome ==
  ASSUME TypeOK, Holders, Outcome, NEW m \in Manager, Control(m)
  PROVE  Outcome' /\ (rec.status = "settled" => rec'.status = "settled")
<1>1. rec \in Record BY DEF TypeOK
<1>2. CASE UNCHANGED <<rec, owner, up>> BY <1>2, OutcomeUntouched DEF Outcome
<1>3. CASE Acquires(m)
  <2>1. UNCHANGED <<owner, up>> BY <1>3 DEF Acquires
  <2>2. rec' = Succeeded(rec, m) \/ rec' = rec BY <1>3 DEF Acquires
  <2>3. rec'.status = rec.status /\ rec'.writer = rec.writer /\ rec'.delivery = rec.delivery
    BY <1>1, <2>2 DEF Succeeded, Record
  <2>4. QED BY <2>1, <2>3, OutcomeUntouched DEF Outcome
<1>4. CASE Decides(m) BY <1>4, DecidesOutcome
<1>5. QED BY <1>2, <1>3, <1>4 DEF Control, Confirms, Blocks, Inspects, OnlyView

LEMMA DeliveryOutcome ==
  ASSUME TypeOK, Outcome, NEW m \in Manager, Delivery(m)
  PROVE  Outcome' /\ (rec.status = "settled" => rec'.status = "settled")
<1>1. rec \in Record BY DEF TypeOK
<1>2. UNCHANGED <<owner, up>>
  BY DEF Delivery, Doubts, Admits, Submits, Acknowledges, Misses, DeliveryOnly
<1>3. CASE UNCHANGED rec BY <1>2, <1>3, OutcomeUntouched DEF Outcome
<1>4. ASSUME NEW kind, NEW slot, rec' = Filled(rec, kind, slot) \/ rec' = Doubted(rec)
      PROVE  rec'.status = rec.status /\ rec'.writer = rec.writer
  BY <1>1, <1>4 DEF Filled, Doubted, Record
<1>5. CASE rec.status = "settled" /\ (Doubts(m) \/ Admits(m))
  <2>1. rec'.status = rec.status /\ rec'.writer = rec.writer
    BY <1>4, <1>5 DEF Doubts, Admits
  <2>2. QED BY <1>2, <1>5, <2>1, OutcomeUntouched
<1>6. CASE Pending(rec) = Sending(rec) /\ rec' = Filled(rec, Message(rec), Empty("sent"))
  <2>1. rec'.status = rec.status /\ rec'.writer = rec.writer BY <1>4, <1>6
  <2>2. rec.delivery.state # "none" BY <1>6 DEF Pending, Sending
  <2>3. rec.status = "settled" BY <2>2 DEF Outcome
  <2>4. QED BY <1>2, <2>1, <2>3, OutcomeUntouched
<1>7. QED
  BY <1>3, <1>5, <1>6
  DEF Delivery, Doubts, Admits, Submits, Acknowledges, Misses, Delivers

LEMMA OutcomeKept ==
  TypeOK /\ Holders /\ Outcome /\ [Next]_vars =>
    Outcome' /\ (rec.status = "settled" => rec'.status = "settled")
<1> SUFFICES ASSUME TypeOK, Holders, Outcome, [Next]_vars
             PROVE  Outcome' /\ (rec.status = "settled" => rec'.status = "settled")
  OBVIOUS
<1>1. CASE UNCHANGED rec /\ UNCHANGED owner /\ up' \subseteq up
  BY <1>1, OutcomeUntouched DEF Outcome
<1>2. CASE Lapses
  <2>1. rec'.status = rec.status /\ rec'.writer.by = rec.writer.by
        /\ rec'.delivery = rec.delivery
    BY <1>2 DEF Lapses, TypeOK, Record, Lease
  <2>2. UNCHANGED <<owner, up>> BY <1>2 DEF Lapses
  <2>3. QED BY <2>1, <2>2, OutcomeUntouched DEF Outcome
<1>3. QED
  BY <1>1, <1>2, SupervisorOutcome, ControlOutcome, DeliveryOutcome
  DEF Next, vars, ChildExits, Replaced, Dies

-----------------------------------------------------------------------------
\* The delivery of the result.

LEMMA InitDelivering == Init => Delivering /\ RecordTellsTruth
<1>1. ASSUME Init PROVE rec.delivery.state = "none" /\ messages = <<>>
  BY <1>1 DEF Init, NewRecord, Empty
<1>2. Init => RecordTellsTruth BY <1>1 DEF RecordTellsTruth
<1>3. Init => Delivering BY DEF Init, Delivering
<1>4. QED BY <1>2, <1>3

\* The slots, the messages and the steps of managers stay as they are, and
\* control passes to another manager only when no manager delivers.
LEMMA DeliveringUntouched ==
  ASSUME Holders, Delivering, RecordTellsTruth, UNCHANGED <<step, messages>>, up' \subseteq up,
         rec'.delivery = rec.delivery, rec'.notice = rec.notice,
         rec'.generation = rec.generation \/ Free(rec.control),
         rec.status = "settled" => rec'.status = "settled",
         \A m \in Manager :
           step[m] \in {"admitted", "submitted"} /\ view[m] = "bound" => view'[m] = "bound"
  PROVE  Delivering' /\ RecordTellsTruth'
<1>1. RecordTellsTruth' BY DEF RecordTellsTruth
<1>2. ASSUME NEW m \in Manager, step'[m] \in {"admitted", "submitted"}, Alive(m)'
      PROVE  /\ view'[m] = "bound" /\ rec'.status = "settled"
             /\ Pending(rec)' = Sending(rec)'
             /\ messages' \in (IF step'[m] = "admitted" THEN Before(Message(rec))'
                                                        ELSE After(Message(rec))')
  <2>1. step[m] \in {"admitted", "submitted"} /\ Alive(m) BY <1>2, AliveBefore
  <2>2. /\ view[m] = "bound" /\ rec.status = "settled" /\ Pending(rec) = Sending(rec)
        /\ messages \in (IF step[m] = "admitted" THEN Before(Message(rec)) ELSE After(Message(rec)))
    BY <2>1 DEF Delivering
  <2>3. rec'.generation = rec.generation BY <2>1, <2>2, NotFree
  <2>4. Pending(rec)' = Pending(rec) /\ Sending(rec)' = Sending(rec)
    BY <2>3 DEF Pending, Sending
  <2>5. Before(Message(rec))' = Before(Message(rec)) /\ After(Message(rec))' = After(Message(rec))
    BY DEF Message, Before, After
  <2>6. QED BY <2>1, <2>2, <2>4, <2>5
<1>3. QED BY <1>1, <1>2 DEF Delivering

\* While a manager that holds control delivers, no other one does.
LEMMA OneDelivers ==
  ASSUME Holders, Delivering, NEW m \in Manager, rec.control.by = m,
         NEW n \in Manager, step[n] \in {"admitted", "submitted"}, Alive(n)
  PROVE  n = m
<1>1. view[n] = "bound" BY DEF Delivering
<1>2. QED BY <1>1 DEF Holders

LEMMA SupervisorDelivering ==
  ASSUME TypeOK, Holders, Outcome, Delivering, RecordTellsTruth, Supervisor
  PROVE  Delivering' /\ RecordTellsTruth'
<1>1. rec \in Record BY DEF TypeOK
<1>2. ASSUME UNCHANGED <<up, view, step, messages>>, rec'.delivery = rec.delivery,
             rec'.notice = rec.notice, rec'.generation = rec.generation
      PROVE  Delivering' /\ RecordTellsTruth'
  BY <1>2, SupervisorOutcome, DeliveringUntouched
<1>3. CASE Attach /\ Unchanged BY <1>1, <1>2, <1>3 DEF Attach, Record, Unchanged
<1>4. CASE Grant /\ Unchanged BY <1>1, <1>2, <1>4 DEF Grant, Granted, Record, Unchanged
<1>5. CASE BeforeSpawn /\ Unchanged BY <1>1, <1>2, <1>5 DEF BeforeSpawn, Record, Unchanged
<1>6. CASE BeforePrompt /\ Unchanged BY <1>1, <1>2, <1>6 DEF BeforePrompt, Record, Unchanged
<1>7. CASE Release /\ Unchanged BY <1>1, <1>2, <1>7 DEF Release, Record, Unchanged
<1>8. CASE Settling /\ Unchanged BY <1>1, <1>2, <1>8 DEF Settling, Record, Unchanged
<1>9. CASE Settled /\ Unchanged
  <2>1. rec.status # "settled" /\ rec.delivery.state = "none" BY <1>9 DEF Settled, Outcome
  <2>2. messages = <<>> BY <2>1 DEF RecordTellsTruth
  <2>3. rec'.delivery.state = "undelivered" BY <1>1, <1>9 DEF Settled, Empty, Record
  <2>4. RecordTellsTruth' BY <1>9, <2>2, <2>3 DEF RecordTellsTruth, Unchanged
  <2>5. \A m \in Manager : ~(step'[m] \in {"admitted", "submitted"} /\ Alive(m)')
    BY <1>9, <2>1 DEF Delivering, Unchanged, Alive
  <2>6. QED BY <2>4, <2>5 DEF Delivering
<1>10. CASE Disposes /\ Unchanged BY <1>2, <1>10 DEF Disposes, Unchanged
<1>11. ASSUME NEW status \in {"lost", "ambiguous"}, Fails(status), Unchanged
       PROVE  Delivering' /\ RecordTellsTruth'
  BY <1>1, <1>2, <1>11 DEF Fails, Record, Unchanged
<1>12. ASSUME NEW f \in Manager, NEW t \in Manager, Serves(f, t)
       PROVE  Delivering' /\ RecordTellsTruth'
  <2>1. rec' = Reserved(rec, t) \/ rec' = [rec EXCEPT !.status = "ambiguous"]
    BY <1>12 DEF Serves
  <2>2. rec'.delivery = rec.delivery /\ rec'.notice = rec.notice
        /\ rec'.generation = rec.generation
    BY <1>1, <2>1 DEF Reserved, Record
  <2>3. QED BY <1>2, <1>12, <2>2 DEF Serves
<1>13. QED
  BY <1>3, <1>4, <1>5, <1>6, <1>7, <1>8, <1>9, <1>10, <1>11, <1>12 DEF Supervisor

LEMMA ControlDelivering ==
  ASSUME TypeOK, Holders, Outcome, Delivering, RecordTellsTruth,
         NEW m \in Manager, Control(m)
  PROVE  Delivering' /\ RecordTellsTruth'
<1>1. rec \in Record BY DEF TypeOK
<1>2. rec.status = "settled" => rec'.status = "settled" BY ControlOutcome
<1>3. UNCHANGED <<up, step, messages>>
  BY DEF Control, Confirms, Blocks, Acquires, Inspects, Decides, OnlyView
<1>4. CASE Confirms(m) \/ Blocks(m) \/ Inspects(m)
  <2>1. rec' = rec BY <1>4 DEF Confirms, Blocks, Inspects, OnlyView
  <2>2. \A n \in Manager :
          step[n] \in {"admitted", "submitted"} /\ view[n] = "bound" => view'[n] = "bound"
    BY <1>4 DEF Confirms, Blocks, Inspects, Sees, TypeOK
  <2>3. QED BY <1>3, <2>1, <2>2, DeliveringUntouched
<1>5. CASE Acquires(m)
  <2>1. rec' = rec \/ (rec' = Succeeded(rec, m) /\ Free(rec.control))
    BY <1>5 DEF Acquires, CanSucceed
  <2>2. rec'.delivery = rec.delivery /\ rec'.notice = rec.notice
        /\ (rec'.generation = rec.generation \/ Free(rec.control))
    BY <1>1, <2>1 DEF Succeeded, Record
  <2>3. \A n \in Manager : view[n] = "bound" => view'[n] = "bound"
    BY <1>5 DEF Acquires, Sees, TypeOK
  <2>4. QED BY <1>2, <1>3, <2>2, <2>3, DeliveringUntouched
<1>6. CASE Decides(m)
  <2>1. \/ rec' = rec
        \/ Free(rec.control) /\ rec' = Recovered(rec, m)
        \/ /\ Free(rec.control)
           /\ \/ rec' = HandedOff(rec, m)
              \/ rec' = [HandedOff(rec, m) EXCEPT !.status = "lost"]
    BY <1>6 DEF Decides, Buries, Adopts, Mirrors, CanHandOff, CanRecover
  <2>2. rec'.delivery = rec.delivery /\ rec'.notice = rec.notice
        /\ (rec'.generation = rec.generation \/ Free(rec.control))
    BY <1>1, <2>1 DEF Recovered, HandedOff, Record
  <2>3. view' = view \/ \E v : Learns(m, v)
    BY <1>6 DEF Decides, Buries, Adopts, Mirrors
  <2>4. \A n \in Manager : view[n] = "bound" => view'[n] = "bound"
    BY <2>3 DEF Learns, Sees, TypeOK
  <2>5. QED BY <1>2, <1>3, <2>2, <2>4, DeliveringUntouched
<1>7. QED BY <1>4, <1>5, <1>6 DEF Control

\* The record after a slot was filled.
LEMMA FilledFields ==
  ASSUME NEW r \in Record, NEW slot \in Slot
  PROVE  /\ Filled(r, "notice", slot).notice = slot
         /\ Filled(r, "notice", slot).delivery = r.delivery
         /\ Filled(r, "result", slot).delivery = slot
         /\ Filled(r, "result", slot).notice = r.notice
         /\ \A kind : /\ Filled(r, kind, slot).generation = r.generation
                      /\ Filled(r, kind, slot).status = r.status
BY DEF Filled, Record

\* What is sent next is the notice once the result is in doubt.
LEMMA MessageFields ==
  ASSUME NEW r \in Record
  PROVE  /\ r.delivery.state = "uncertain" => Message(r) = "notice" /\ Pending(r) = r.notice
         /\ r.delivery.state # "uncertain" => Message(r) = "result" /\ Pending(r) = r.delivery
BY DEF Message, Pending

LEMMA SlotStates ==
  ASSUME NEW r \in Record
  PROVE  /\ Sending(r).state = "sending" /\ Sending(r).generation = r.generation
         /\ \A state : Empty(state).state = state
BY DEF Sending, Empty

\* A message that is sent takes what Pi was handed from Before to After.
LEMMA Sends ==
  ASSUME NEW kind \in {"result", "notice"}, messages \in Before(kind)
  PROVE  Append(messages, kind) \in After(kind)
<1>1. CASE kind = "notice" BY <1>1 DEF Before, After, Noticed
<1>2. CASE kind = "result" BY <1>2 DEF Before, After
<1>3. QED BY <1>1, <1>2

\* While m holds control, what Delivering says is about m only.
LEMMA DeliveringAlone ==
  ASSUME Holders, Delivering, NEW m \in Manager, rec.control.by = m,
         UNCHANGED <<up, view>>, \A n \in Manager \ {m} : step'[n] = step[n],
         step'[m] \in {"admitted", "submitted"} /\ Alive(m)' =>
           /\ view'[m] = "bound" /\ rec'.status = "settled" /\ Pending(rec)' = Sending(rec)'
           /\ messages' \in (IF step'[m] = "admitted" THEN Before(Message(rec))'
                                                      ELSE After(Message(rec))')
  PROVE  Delivering'
<1>1. ASSUME NEW n \in Manager, step'[n] \in {"admitted", "submitted"}, Alive(n)' PROVE n = m
  BY <1>1, OneDelivers DEF Alive
<1>2. QED BY <1>1 DEF Delivering

LEMMA DoubtsDelivering ==
  ASSUME TypeOK, Holders, Delivering, RecordTellsTruth, NEW m \in Manager, Doubts(m)
  PROVE  Delivering' /\ RecordTellsTruth'
<1>1. rec \in Record /\ Empty("uncertain") \in Slot BY SlotTypes DEF TypeOK
<1>2. rec.control.by = m /\ UNCHANGED <<up, view, messages>> /\ Pending(rec).state = "sending"
  BY DEF Doubts, Controls, DeliveryOnly, Stale
<1>3. step'[m] \notin {"admitted", "submitted"} /\ \A n \in Manager \ {m} : step'[n] = step[n]
  BY DEF Doubts, Goes, TypeOK
<1>4. Delivering' BY <1>2, <1>3, DeliveringAlone
<1>5. CASE Message(rec) = "notice"
  <2>1. rec.delivery.state = "uncertain" BY <1>1, <1>5, MessageFields
  <2>2. rec' = Filled(rec, "notice", Empty("uncertain")) BY <1>5 DEF Doubts
  <2>3. rec'.delivery = rec.delivery /\ rec'.notice.state = "uncertain"
    BY <1>1, <2>2, FilledFields, SlotStates
  <2>4. messages \in Results \cup Noticed BY <2>1 DEF RecordTellsTruth, Noticed
  <2>5. QED BY <1>2, <1>4, <2>1, <2>3, <2>4 DEF RecordTellsTruth
<1>6. CASE Message(rec) # "notice"
  <2>1. rec.delivery.state = "sending" BY <1>1, <1>2, <1>6, MessageFields
  <2>2. rec' = Doubted(rec) BY <1>6 DEF Doubts
  <2>3. rec'.delivery.state = "uncertain" /\ rec'.notice.state = "undelivered"
    BY <1>1, <2>2, SlotStates DEF Doubted, Record
  <2>4. messages \in Results BY <2>1 DEF RecordTellsTruth
  <2>5. QED BY <1>2, <1>4, <2>3, <2>4 DEF RecordTellsTruth
<1>7. QED BY <1>5, <1>6

LEMMA AdmitsDelivering ==
  ASSUME TypeOK, Holders, Delivering, RecordTellsTruth, NEW m \in Manager, Admits(m)
  PROVE  Delivering' /\ RecordTellsTruth'
<1>1. rec \in Record /\ Sending(rec) \in Slot BY SlotTypes DEF TypeOK
<1>2. rec.control.by = m /\ UNCHANGED <<up, view, messages>> /\ Pending(rec).state = "undelivered"
  BY DEF Admits, Controls, DeliveryOnly
<1>3. view[m] = "bound" /\ rec.status = "settled" BY DEF Admits, Delivers
<1>4. step'[m] = "admitted" /\ \A n \in Manager \ {m} : step'[n] = step[n]
  BY DEF Admits, Goes, TypeOK
<1>5. rec' = Filled(rec, Message(rec), Sending(rec)) BY DEF Admits
<1>6. rec'.status = "settled" /\ Sending(rec)' = Sending(rec)
  BY <1>1, <1>3, <1>5, FilledFields DEF Sending
<1>7. CASE rec.delivery.state = "uncertain"
  <2>1. Message(rec) = "notice" /\ rec.notice.state = "undelivered"
    BY <1>1, <1>2, <1>7, MessageFields
  <2>2. rec'.delivery = rec.delivery /\ rec'.notice = Sending(rec)
    BY <1>1, <1>5, <2>1, FilledFields
  <2>3. messages \in Results BY <1>7, <2>1 DEF RecordTellsTruth
  <2>4. Message(rec)' = "notice" /\ Pending(rec)' = Sending(rec)'
    BY <1>6, <1>7, <2>2 DEF Message, Pending
  <2>5. Delivering'
    BY <1>2, <1>3, <1>4, <1>6, <2>3, <2>4, DeliveringAlone DEF Before
  <2>6. RecordTellsTruth' BY <1>1, <1>2, <1>7, <2>2, <2>3, SlotStates DEF RecordTellsTruth
  <2>7. QED BY <2>5, <2>6
<1>8. CASE rec.delivery.state # "uncertain"
  <2>1. Message(rec) = "result" /\ rec.delivery.state = "undelivered"
    BY <1>1, <1>2, <1>8, MessageFields
  <2>2. rec'.delivery = Sending(rec) BY <1>1, <1>5, <2>1, FilledFields
  <2>3. messages = <<>> BY <2>1 DEF RecordTellsTruth
  <2>4. rec'.delivery.state = "sending" BY <1>1, <2>2, SlotStates
  <2>5. Message(rec)' = "result" /\ Pending(rec)' = Sending(rec)'
    BY <1>6, <2>2, <2>4 DEF Message, Pending
  <2>6. Delivering'
    BY <1>2, <1>3, <1>4, <1>6, <2>3, <2>5, DeliveringAlone DEF Before
  <2>7. RecordTellsTruth' BY <1>2, <2>3, <2>4 DEF RecordTellsTruth, Results
  <2>8. QED BY <2>6, <2>7
<1>9. QED BY <1>7, <1>8

LEMMA SubmitsDelivering ==
  ASSUME TypeOK, Holders, Delivering, RecordTellsTruth, NEW m \in Manager, Submits(m)
  PROVE  Delivering' /\ RecordTellsTruth'
<1>1. rec \in Record BY DEF TypeOK
<1>2. UNCHANGED <<rec, up, view>> /\ step[m] = "admitted" /\ Alive(m)
  BY DEF Submits, DeliveryOnly
<1>3. step'[m] = "submitted" /\ \A n \in Manager \ {m} : step'[n] = step[n]
  BY DEF Submits, Goes, TypeOK
<1>4. /\ view[m] = "bound" /\ rec.status = "settled" /\ Pending(rec) = Sending(rec)
      /\ messages \in Before(Message(rec))
  BY <1>2 DEF Delivering
<1>5. rec.control.by = m BY <1>2, <1>4 DEF Holders
<1>6. messages' \in After(Message(rec))
  <2>1. Message(rec) \in {"result", "notice"} BY DEF Message
  <2>2. messages' = Append(messages, Message(rec)) BY DEF Submits
  <2>3. QED BY <1>4, <2>1, <2>2, Sends
<1>7. Delivering'
  <2>1. After(Message(rec))' = After(Message(rec)) /\ Pending(rec)' = Sending(rec)'
    BY <1>2, <1>4 DEF After, Message, Pending, Sending
  <2>2. QED BY <1>2, <1>3, <1>4, <1>5, <1>6, <2>1, DeliveringAlone
<1>8. Pending(rec).state = "sending" BY <1>1, <1>4, SlotStates
<1>9. CASE rec.delivery.state = "uncertain"
  <2>1. Message(rec) = "notice" /\ rec.notice.state = "sending"
    BY <1>1, <1>8, <1>9, MessageFields
  <2>2. messages' \in Noticed BY <1>6, <2>1 DEF After
  <2>3. QED BY <1>2, <1>7, <1>9, <2>1, <2>2 DEF RecordTellsTruth
<1>10. CASE rec.delivery.state # "uncertain"
  <2>1. Message(rec) = "result" /\ rec.delivery.state = "sending"
    BY <1>1, <1>8, <1>10, MessageFields
  <2>2. messages' \in Results BY <1>6, <2>1 DEF After, Results
  <2>3. QED BY <1>2, <1>7, <2>1, <2>2 DEF RecordTellsTruth
<1>11. QED BY <1>9, <1>10

\* A manager that leaves deliver() without a write.
LEMMA LeavesDelivering ==
  ASSUME Delivering, RecordTellsTruth, UNCHANGED <<rec, up, view, messages>>,
         \A n \in Manager : step'[n] \in {step[n], "done"}
  PROVE  Delivering' /\ RecordTellsTruth'
<1>1. RecordTellsTruth' BY DEF RecordTellsTruth
<1>2. ASSUME NEW n \in Manager, step'[n] \in {"admitted", "submitted"}, Alive(n)'
      PROVE  /\ view'[n] = "bound" /\ rec'.status = "settled"
             /\ Pending(rec)' = Sending(rec)'
             /\ messages' \in (IF step'[n] = "admitted" THEN Before(Message(rec))'
                                                        ELSE After(Message(rec))')
  <2>1. step'[n] = step[n] /\ Alive(n) BY <1>2 DEF Alive
  <2>2. /\ Pending(rec)' = Pending(rec) /\ Sending(rec)' = Sending(rec)
        /\ Before(Message(rec))' = Before(Message(rec))
        /\ After(Message(rec))' = After(Message(rec))
    BY DEF Pending, Sending, Message, Before, After
  <2>3. QED BY <1>2, <2>1, <2>2 DEF Delivering
<1>3. QED BY <1>1, <1>2 DEF Delivering

LEMMA AcknowledgesDelivering ==
  ASSUME TypeOK, Holders, Delivering, RecordTellsTruth, NEW m \in Manager, Acknowledges(m)
  PROVE  Delivering' /\ RecordTellsTruth'
<1>1. rec \in Record /\ Empty("sent") \in Slot BY SlotTypes DEF TypeOK
<1>2. UNCHANGED <<up, view, messages>> /\ step[m] = "submitted" /\ Alive(m)
  BY DEF Acknowledges, DeliveryOnly
<1>3. step'[m] = "done" /\ \A n \in Manager \ {m} : step'[n] = step[n]
  BY DEF Acknowledges, Goes, TypeOK
<1>4. CASE UNCHANGED rec BY <1>2, <1>3, <1>4, LeavesDelivering
<1>5. CASE /\ Controls(m) /\ Pending(rec) = Sending(rec)
           /\ rec' = Filled(rec, Message(rec), Empty("sent"))
  <2>1. rec.control.by = m BY <1>5 DEF Controls
  <2>2. Delivering' BY <1>2, <1>3, <2>1, DeliveringAlone
  <2>3. messages \in After(Message(rec)) BY <1>2 DEF Delivering
  <2>4. CASE rec.delivery.state = "uncertain"
    <3>1. Message(rec) = "notice" BY <1>1, <2>4, MessageFields
    <3>2. rec'.delivery = rec.delivery /\ rec'.notice.state = "sent"
      BY <1>1, <1>5, <3>1, FilledFields, SlotStates
    <3>3. messages \in Noticed BY <2>3, <3>1 DEF After
    <3>4. QED BY <1>2, <2>2, <2>4, <3>2, <3>3 DEF RecordTellsTruth
  <2>5. CASE rec.delivery.state # "uncertain"
    <3>1. Message(rec) = "result" BY <1>1, <2>5, MessageFields
    <3>2. rec'.delivery.state = "sent" BY <1>1, <1>5, <3>1, FilledFields, SlotStates
    <3>3. messages = <<"result">> BY <2>3, <3>1 DEF After
    <3>4. QED BY <1>2, <2>2, <3>2, <3>3 DEF RecordTellsTruth
  <2>6. QED BY <2>4, <2>5
<1>6. QED BY <1>4, <1>5 DEF Acknowledges

LEMMA DeliveryDelivering ==
  ASSUME TypeOK, Holders, Delivering, RecordTellsTruth, NEW m \in Manager, Delivery(m)
  PROVE  Delivering' /\ RecordTellsTruth'
<1>1. CASE Misses(m)
  <2>1. \A n \in Manager : step'[n] \in {step[n], "done"} BY <1>1 DEF Misses, Goes, TypeOK
  <2>2. QED BY <1>1, <2>1, LeavesDelivering DEF Misses, DeliveryOnly
<1>2. QED
  BY <1>1, DoubtsDelivering, AdmitsDelivering, SubmitsDelivering, AcknowledgesDelivering
  DEF Delivery

LEMMA DeliveringKept ==
  TypeOK /\ Holders /\ Outcome /\ Delivering /\ RecordTellsTruth /\ [Next]_vars =>
    Delivering' /\ RecordTellsTruth'
<1> SUFFICES ASSUME TypeOK, Holders, Outcome, Delivering, RecordTellsTruth, [Next]_vars
             PROVE  Delivering' /\ RecordTellsTruth'
  OBVIOUS
<1>1. CASE UNCHANGED vars \/ ChildExits \/ \E p \in Host \cup {Owner} : Dies(p)
  BY <1>1, DeliveringUntouched DEF vars, ChildExits, Dies
<1>2. CASE Lapses
  <2>1. rec'.status = rec.status /\ rec'.generation = rec.generation
        /\ rec'.delivery = rec.delivery /\ rec'.notice = rec.notice
    BY <1>2 DEF Lapses, TypeOK, Record
  <2>2. UNCHANGED <<up, view, step, messages>> BY <1>2 DEF Lapses
  <2>3. QED BY <2>1, <2>2, DeliveringUntouched
<1>3. ASSUME NEW f \in Manager, NEW t \in Manager, Replaced(f, t)
      PROVE  Delivering' /\ RecordTellsTruth'
  <2>1. UNCHANGED <<rec, up, step, messages>> BY <1>3 DEF Replaced
  <2>2. step[f] \notin {"admitted", "submitted"} /\ view[t] # "bound" BY <1>3 DEF Replaced
  <2>3. \A n \in Manager \ {f, t} : view'[n] = view[n] BY <1>3 DEF Replaced, TypeOK
  <2>4. QED BY <2>1, <2>2, <2>3, DeliveringUntouched
<1>4. QED
  BY <1>1, <1>2, <1>3, SupervisorDelivering, ControlDelivering, DeliveryDelivering DEF Next

-----------------------------------------------------------------------------
\* The invariant and what follows from it.

LEMMA InitRetained == Init => RetainedInv
BY InitTypes, InitHolders, InitOutcome, InitDelivering DEF RetainedInv

LEMMA RetainedKept == RetainedInv /\ [Next]_vars => RetainedInv'
BY TypesKept, HoldersKept, OutcomeKept, DeliveringKept DEF RetainedInv

LEMMA RetainedHolds == Spec => []RetainedInv
BY InitRetained, RetainedKept, PTL DEF Spec

\* Every variable keeps its type, whatever dies, lapses or is replaced.
THEOREM RetainedTypes == Spec => []TypeOK
<1>1. RetainedInv => TypeOK BY DEF RetainedInv
<1>2. QED BY <1>1, RetainedHolds, PTL

\* For any number of managers and processes, at most one manager that lives acts
\* for a child: it renews its lease, polls it and delivers its result.
THEOREM OneControllerHolds == Spec => []OneController
<1>1. RetainedInv => OneController
  <2> SUFFICES ASSUME RetainedInv PROVE OneController OBVIOUS
  <2> DEFINE S == {m \in Manager : view[m] = "bound" /\ Alive(m)}
  <2>1. S \subseteq {rec.control.by} BY DEF RetainedInv, Holders
  <2>2. IsFiniteSet({rec.control.by}) /\ Cardinality({rec.control.by}) = 1 BY FS_Singleton
  <2>3. IsFiniteSet(S) /\ Cardinality(S) <= 1 BY <2>1, <2>2, FS_Subset
  <2>4. QED BY <2>3 DEF OneController
<1>2. QED BY <1>1, RetainedHolds, PTL

\* What the record says of the delivery is what Pi was handed, over the crash of
\* any controller between the admission, the message and its acknowledgement.
THEOREM RecordTellsTruthHolds == Spec => []RecordTellsTruth
<1>1. RetainedInv => RecordTellsTruth BY DEF RetainedInv
<1>2. QED BY <1>1, RetainedHolds, PTL

\* No manager records the loss of a child whose supervisor still works.
THEOREM LossIsRealHolds == Spec => []LossIsReal
<1>1. RetainedInv => LossIsReal BY DEF RetainedInv, Outcome
<1>2. QED BY <1>1, RetainedHolds, PTL

\* No step of a supervisor or a manager takes back a settled result.
THEOREM ResultIsKeptHolds == Spec => ResultIsKept
<1>1. RetainedInv /\ [Next]_vars => [rec.status = "settled" => rec'.status = "settled"]_vars
  BY OutcomeKept DEF RetainedInv
<1>2. QED BY <1>1, RetainedHolds, PTL DEF Spec, ResultIsKept
=============================================================================
