---------------------------- MODULE MCActivityFeed ----------------------------
(***************************************************************************)
(* TLC instance of ActivityFeed.                                           *)
(***************************************************************************)
EXTENDS ActivityFeed
=============================================================================
