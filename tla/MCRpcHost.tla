------------------------------- MODULE MCRpcHost -------------------------------
(***************************************************************************)
(* TLC instance of RpcHost: a request with a timeout and one without.      *)
(***************************************************************************)
EXTENDS RpcHost

CONSTANTS hydrate, bash
=============================================================================
