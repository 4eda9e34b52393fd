--------------------------- MODULE MCPromptScheduler ---------------------------
(***************************************************************************)
(* TLC instances of PromptScheduler: a plain prompt, one that mentions an  *)
(* image, and a command of the child.                                      *)
(***************************************************************************)
EXTENDS PromptScheduler

CONSTANTS plain, image, slash
=============================================================================
