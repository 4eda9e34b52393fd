------------------------------ MODULE MCTaskLock ------------------------------
(***************************************************************************)
(* TLC instances of TaskLock: callers are interchangeable.                 *)
(***************************************************************************)
EXTENDS TaskLock, TLC

Callers == Permutations(Caller)
=============================================================================
