-------------------------- MODULE HistoryBoundaries --------------------------
(***************************************************************************)
(* Where a conversation may be cut: src/history_boundaries.go.             *)
(*                                                                         *)
(* An item is abstracted to whether it is a user message and to the        *)
(* identifiers of the tool calls and tool results found in it, whatever    *)
(* the wire format.  Every tool result is assumed to carry an identifier.  *)
(* A boundary b cuts between the first b items and the rest.               *)
(***************************************************************************)
EXTENDS Naturals, Sequences, FiniteSets

CONSTANT Ids    \* call identifiers

Items == [user : BOOLEAN, calls : SUBSET Ids, results : SUBSET Ids]

CallsOf(items, id) == {i \in DOMAIN items : id \in items[i].calls}
ResultsOf(items, id) == {i \in DOMAIN items : id \in items[i].results}

\* Mutant of BoundarySafe: unfinished calls may go into the summary.
BoundaryUnfinished(items, b) ==
    /\ b \in 0..Len(items)
    /\ \A id \in Ids : \A c \in CallsOf(items, id), r \in ResultsOf(items, id) : c <= b <=> r <= b

\* historyBoundarySafe: a call before the cut has all its results there, a call
\* after it has them after it, and a result without a call is before it.
BoundarySafe(items, b) ==
    /\ b \in 0..Len(items)
    /\ \A id \in Ids :
         LET calls == CallsOf(items, id)
             results == ResultsOf(items, id)
         IN  /\ \A c \in calls : c <= b => results # {}
             /\ \A c \in calls, r \in results : c <= b <=> r <= b
             /\ calls = {} => \A r \in results : r <= b

StartsUserTurn(item) == item.user /\ item.results = {}

\* historyCompressionBoundaries: the start of a user turn, the end of a tool
\* transaction, and both ends, where they are safe.
Boundaries(items) ==
    {b \in 0..Len(items) :
        /\ \/ b \in {0, Len(items)}
           \/ StartsUserTurn(items[b + 1])
           \/ items[b].results # {}
        /\ BoundarySafe(items, b)}

\* How many retained units a cut at boundary b leaves after it.
UnitsAfter(items, b) == Cardinality({x \in Boundaries(items) : x > b})
=============================================================================
