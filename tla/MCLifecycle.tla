---------------------------- MODULE MCLifecycle ----------------------------
(***************************************************************************)
(* Lifecycle for TLC: the default path and another one, a limit that two    *)
(* entries reach and one that they pass, two requests and two lifecycle    *)
(* calls.  With the default configuration of a first request before them,  *)
(* the host goes from one path to the other and back, lowers the limit and *)
(* raises it, and configures again after a shutdown.                       *)
(***************************************************************************)
EXTENDS Lifecycle
=============================================================================
