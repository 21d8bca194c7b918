-------------------------- MODULE MCHistorySummary --------------------------
(***************************************************************************)
(* HistorySummary for TLC: a history of five units in pieces of two, that  *)
(* is a pair, a single piece, a second round of two and the last call; and *)
(* a second request whose history begins with the first piece of it.       *)
(***************************************************************************)
EXTENDS HistorySummary, TLC
CONSTANTS r1, r2
MCLength == r1 :> 5 @@ r2 :> 3
=============================================================================
