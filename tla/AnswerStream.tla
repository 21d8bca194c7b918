---------------------------- MODULE AnswerStream ----------------------------
(***************************************************************************)
(* What the client of a streaming request may see: the payloads of one     *)
(* model's answer, in order and without a gap, until the stream is closed  *)
(* once, as a success only when something was said.  TextForward           *)
(* implements it.                                                          *)
(***************************************************************************)
EXTENDS Naturals, Sequences

CONSTANT Models

VARIABLES
    client,     \* the payloads the client received: whose, and which one
    ended       \* "open", then how the stream was closed

vars == <<client, ended>>

TypeOK ==
    /\ client \in Seq([from : Models, n : Nat])
    /\ ended \in {"open", "ok", "failed"}

Init == client = <<>> /\ ended = "open"

\* The next payload of m, which wrote all the client has seen so far.
Deliver(m) ==
    /\ ended = "open"
    /\ \A i \in DOMAIN client : client[i].from = m
    /\ client' = Append(client, [from |-> m, n |-> Len(client) + 1])
    /\ UNCHANGED ended

CloseOK == ended = "open" /\ client # <<>> /\ ended' = "ok" /\ UNCHANGED client

CloseFailed == ended = "open" /\ ended' = "failed" /\ UNCHANGED client

Next == (\E m \in Models : Deliver(m)) \/ CloseOK \/ CloseFailed

Spec == Init /\ [][Next]_vars
=============================================================================
