--------------------------- MODULE TerminalRecord ---------------------------
(***************************************************************************)
(* The durable record of one managed terminal (background-tasks) and every *)
(* update closure that TerminalTaskManager hands to the store's locked     *)
(* transition.  A closure that returns undefined in the code (a no-op      *)
(* decision) is an operator that returns its argument.                     *)
(*                                                                         *)
(* Data kept: lifecycle status, delivery disposition, the presence of the  *)
(* process identity and of the completion id, which process-tree anchors   *)
(* are persisted, and the claim token.  Timestamps are reduced to the one  *)
(* bit the code branches on, set or unset.                                 *)
(***************************************************************************)
EXTENDS Naturals

ActiveStatus == {"starting", "running", "stopping"}
SettledStatus == {"completed", "failed", "cancelled", "lost"}

\* "absent" stands for "no record on disk" (the code's undefined).
Status == {"absent"} \cup ActiveStatus \cup SettledStatus
Delivery == {"none", "pending", "claimed", "delivered", "suppressed"}

\* exitCode: undefined, null, 0, or any other integer.
ExitCode == {"unset", "null", "zero", "nonzero"}

\* processTreeVerification: missing, taken when only the leader was in the
\* group, or covering the members that can outlive the leader.
Anchors == {"none", "leader", "tree"}

NoToken == 0

TaskRecord ==
  [status: Status, delivery: Delivery, exit: ExitCode, anchors: Anchors,
   identity: BOOLEAN, completion: BOOLEAN, observed: BOOLEAN,
   consumed: BOOLEAN, token: Nat]

IsSettled(r) == r.status \in SettledStatus

NoRecord ==
  [status |-> "absent", delivery |-> "none", exit |-> "unset",
   anchors |-> "none", identity |-> FALSE, completion |-> FALSE,
   observed |-> FALSE, consumed |-> FALSE, token |-> NoToken]

Initial == [NoRecord EXCEPT !.status = "starting"]

-----------------------------------------------------------------------------
(***************************************************************************)
(* Lifecycle closures.                                                     *)
(***************************************************************************)
ToRunning(r) ==
  IF r.status = "starting"
  THEN [r EXCEPT !.status = "running", !.identity = TRUE]
  ELSE r

\* Persist anchors: reconcile and finishNaturalCompletion only on a running
\* record, recoverStopping only on a stopping record that has none yet.
RunningAnchors(r, v) == IF r.status = "running" THEN [r EXCEPT !.anchors = v] ELSE r
StoppingAnchors(r, v) ==
  IF r.status = "stopping" /\ r.anchors = "none" THEN [r EXCEPT !.anchors = v] ELSE r

\* stop() of a command that already wrote its exit code.
ActiveAnchors(r, v) == IF IsSettled(r) THEN r ELSE [r EXCEPT !.anchors = v]

ToStopping(r, v) ==
  IF IsSettled(r) THEN r
  ELSE [r EXCEPT !.status = "stopping",
                 !.anchors = IF v # "none" THEN v ELSE r.anchors]

RestoreRunning(r) ==
  IF r.status = "stopping" THEN [r EXCEPT !.status = "running"] ELSE r

Settle(r, status, exit, suppress) ==
  IF IsSettled(r) THEN r
  ELSE [r EXCEPT !.status = status, !.exit = exit, !.completion = TRUE,
                 !.observed = suppress, !.consumed = suppress,
                 !.delivery = IF suppress THEN "suppressed" ELSE "pending"]

SettleNatural(r, exit) ==
  Settle(r, IF exit = "zero" THEN "completed" ELSE "failed", exit, FALSE)
SettleLost(r, exit, suppress) == Settle(r, "lost", exit, suppress)

\* Mutant: cancels whatever the record says.
CancelAnything(r) ==
  [r EXCEPT !.status = "cancelled", !.exit = "null", !.completion = TRUE,
            !.observed = TRUE, !.consumed = TRUE, !.delivery = "suppressed"]

SettleCancelled(r) ==
  IF IsSettled(r) THEN r
  ELSE [r EXCEPT !.status = "cancelled", !.exit = "null", !.completion = TRUE,
                 !.observed = TRUE, !.consumed = TRUE,
                 !.delivery = "suppressed"]

SettleFailedLaunch(r) ==
  IF IsSettled(r) THEN r
  ELSE [r EXCEPT !.status = "failed", !.exit = "null", !.completion = TRUE,
                 !.observed = TRUE, !.consumed = TRUE,
                 !.delivery = "suppressed"]

-----------------------------------------------------------------------------
(***************************************************************************)
(* Delivery closures.                                                      *)
(***************************************************************************)
\* Mutant: observes without suppressing an open delivery.
ObserveKeepsDelivery(r, consume) ==
  IF ~IsSettled(r) THEN r
  ELSE [r EXCEPT !.observed = TRUE, !.consumed = consume \/ r.consumed]

Observe(r, consume) ==
  LET open == r.delivery \in {"pending", "claimed"}
      quiet == r.observed /\ (consume => r.consumed) /\ ~open
  IN  IF ~IsSettled(r) \/ quiet THEN r
      ELSE [r EXCEPT !.observed = TRUE,
                     !.consumed = consume \/ r.consumed,
                     !.delivery = IF open THEN "suppressed" ELSE r.delivery,
                     !.token = NoToken]

Claim(r, tok) == [r EXCEPT !.delivery = "claimed", !.token = tok]

Acknowledge(r) == [r EXCEPT !.delivery = "delivered", !.token = NoToken]

-----------------------------------------------------------------------------
(***************************************************************************)
(* What the store's parser accepts.  A record it rejects is quarantined on *)
(* the next scan: its terminal becomes unknown and its completion is lost. *)
(***************************************************************************)
IdentityParses(r) ==
  /\ r.status \in {"running", "stopping"} => r.identity
  /\ r.status = "starting" => ~r.identity /\ r.anchors = "none"
  /\ r.anchors # "none" => r.identity

LifecycleParses(r) ==
  /\ r.status \in ActiveStatus =>
        /\ r.exit = "unset" /\ r.delivery = "none"
        /\ ~r.observed /\ ~r.consumed /\ ~r.completion
  /\ IsSettled(r) => r.completion /\ r.delivery # "none"
  /\ r.status = "completed" => r.exit = "zero"
  /\ r.status = "failed" => r.exit \in {"null", "nonzero"}
  /\ r.status = "cancelled" => r.exit = "null"
  /\ r.status = "lost" => r.exit # "unset"

DeliveryParses(r) ==
  /\ r.consumed => r.observed
  /\ r.delivery = "suppressed" => r.observed
  /\ r.delivery \in {"pending", "claimed"} => ~r.observed /\ ~r.consumed
  /\ (r.delivery = "claimed") <=> (r.token # NoToken)

Parses(r) ==
  r.status # "absent" => IdentityParses(r) /\ LifecycleParses(r) /\ DeliveryParses(r)

WellFormed(r) ==
  /\ r \in TaskRecord
  /\ r.status = "absent" => r = NoRecord
  /\ Parses(r)

=============================================================================
