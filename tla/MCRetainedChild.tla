----------------------------- MODULE MCRetainedChild -----------------------------
(***************************************************************************)
(* TLC instance of RetainedChild: a Pi process with a session and the one  *)
(* that replaces it, and other Pi processes with one session each.         *)
(***************************************************************************)
EXTENDS RetainedChild

CONSTANTS m1, m2, m3, m4, h1, h2, h3

MCHostOf == [m \in Manager |-> CASE m \in {m1, m2} -> h1 [] m = m3 -> h2 [] OTHER -> h3]
=============================================================================
