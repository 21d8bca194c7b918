------------------------ MODULE MCHistoryCheckpoint ------------------------
(***************************************************************************)
(* HistoryCheckpoint for TLC: user and assistant messages, and tool calls  *)
(* and results under one identifier, which a client may use again.         *)
(***************************************************************************)
EXTENDS HistoryCheckpoint

MCIds == {"a"}
Item(user, calls, results) == [user |-> user, calls |-> calls, results |-> results]
MCKinds == {Item(TRUE, {}, {}), Item(FALSE, {}, {}), Item(FALSE, MCIds, {}), Item(FALSE, {}, MCIds)}
=============================================================================
