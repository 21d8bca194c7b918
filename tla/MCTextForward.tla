---------------------------- MODULE MCTextForward ----------------------------
(***************************************************************************)
(* TextForward for TLC: two models, a gate that holds two payloads, and    *)
(* streams of up to three payloads, so that the gate overflows, opens on   *)
(* its last slot, and output goes on after it.                             *)
(***************************************************************************)
EXTENDS TextForward
=============================================================================
