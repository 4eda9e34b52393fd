-------------------------- MODULE MCSessionHydration --------------------------
(***************************************************************************)
(* TLC instance of SessionHydration.                                       *)
(***************************************************************************)
EXTENDS SessionHydration

CONSTANTS s1, s2
===============================================================================
