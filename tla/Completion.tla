------------------------------- MODULE Completion -------------------------------
(***************************************************************************)
(* What terminal completion delivery promises, whatever coordinators,      *)
(* claims, leases, crashes and session switches lie behind it: a settled   *)
(* completion is put into the transcript of the session that owns it, at   *)
(* most once, never after the agent has already seen the result through a  *)
(* tool, and is acknowledged only once it is there.                        *)
(***************************************************************************)
CONSTANTS
  Task,      \* terminals
  Session,   \* Pi sessions
  Owner,     \* the session that started each terminal
  Token      \* the tokens a message can carry


VARIABLES
  settled,       \* terminals whose outcome is recorded
  consumed,      \* results the agent got from terminal_check, _wait or _stop
  copies,        \* per terminal: <<session, claim>> of each message in a transcript
  acknowledged   \* completions recorded as delivered

completionVars == <<settled, consumed, copies, acknowledged>>

Init ==
  /\ settled = {} /\ consumed = {} /\ acknowledged = {}
  /\ copies = [t \in Task |-> {}]

\* A settlement may be silent: its caller already has the result.
Settle(t, silent) ==
  /\ t \notin settled
  /\ settled' = settled \cup {t}
  /\ consumed' = IF silent THEN consumed \cup {t} ELSE consumed
  /\ UNCHANGED <<copies, acknowledged>>

\* Acknowledgements and consumption may come in batches.
Record ==
  /\ consumed \subseteq consumed' /\ consumed' \subseteq settled
  /\ acknowledged \subseteq acknowledged'
  /\ \A t \in acknowledged' \ acknowledged : t \in settled /\ copies[t] # {}
  /\ UNCHANGED <<settled, copies>>

\* A message and the acknowledgements its arrival leads to.
Show(t, claim) ==
  /\ t \in settled \ consumed /\ copies[t] = {}
  /\ copies' = [copies EXCEPT ![t] = {<<Owner[t], claim>>}]
  /\ acknowledged \subseteq acknowledged'
  /\ \A u \in acknowledged' \ acknowledged : u \in settled /\ copies'[u] # {}
  /\ UNCHANGED <<settled, consumed>>

Next ==
  \/ \E t \in Task, silent \in BOOLEAN : Settle(t, silent)
  \/ \E t \in Task, claim \in Token : Show(t, claim)
  \/ Record

Spec == Init /\ [][Next]_completionVars

=============================================================================
