--------------------------- MODULE MCVisionStream ---------------------------
(***************************************************************************)
(* VisionStream for TLC: one call, every host reply and every order of     *)
(* replies, timers and close.  Nothing needs a bound: the stream may carry *)
(* any number of payloads.                                                 *)
(***************************************************************************)
EXTENDS VisionStream
=============================================================================
