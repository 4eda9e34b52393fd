---------------------------- MODULE MCSubagentSession ----------------------------
(***************************************************************************)
(* TLC instance of SubagentSession: two visible tasks in worktrees of      *)
(* their own, and a headless one.                                          *)
(***************************************************************************)
EXTENDS SubagentSession, TLC

CONSTANTS pane1, pane2, headless1

Alike == Permutations({pane1, pane2})
=============================================================================
