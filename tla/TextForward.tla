----------------------------- MODULE TextForward -----------------------------
(***************************************************************************)
(* The goroutine of a streaming request (src/executor.go:68-94): the       *)
(* chain of text models of src/text_model.go, the output gate and the      *)
(* truncation tracker of src/text_stream.go, and the one close of the      *)
(* client's stream.                                                        *)
(*                                                                         *)
(* A payload is abstracted to the marks the gate and the tracker find in   *)
(* it and to one unit of the gate's buffer.                                *)
(***************************************************************************)
EXTENDS Naturals, Sequences

CONSTANTS
    NumModels,      \* textModels(cfg): the primary model and its fallbacks
    BufferLimit,    \* maxBufferedTextStreamBytes, in payloads
    MaxPayloads,    \* bound: payloads a model's stream carries
    EmitAckLost     \* whether an emit that reached the client may be reported failed

ASSUME NumModelsAssumption == NumModels \in Nat \ {0}
ASSUME BufferLimitAssumption == BufferLimit \in Nat /\ MaxPayloads \in Nat
ASSUME EmitAckLostAssumption == EmitAckLost \in BOOLEAN

Models == 1..NumModels
Marks == {"content", "cut"}
Payloads == [from : Models, n : Nat]

VARIABLES
    pc,         \* where the goroutine is
    model,      \* index in the model chain
    upstream,   \* the host streams: "none", "open", "closed"
    produced,   \* marks of the payloads each model's stream has delivered
    gate,       \* payloads held back, or on their way to the client
    emitted,    \* something was emitted of this model's stream
    cut,        \* the tracker found a truncation reason
    final,      \* the chunk in hand is the last one
    failure,    \* the forwarding returns an error
    client,     \* what the client received
    ended       \* how the client's stream was closed

vars == <<pc, model, upstream, produced, gate, emitted, cut, final, failure, client, ended>>

TypeOK ==
    /\ pc \in {"prepare", "start", "read", "emit", "leave", "close", "done"}
    /\ model \in Models
    /\ upstream \in [Models -> {"none", "open", "closed"}]
    /\ produced \in [Models -> Seq(SUBSET Marks)]
    /\ gate \in Seq(Payloads)
    /\ emitted \in BOOLEAN /\ cut \in BOOLEAN /\ final \in BOOLEAN /\ failure \in BOOLEAN
    /\ client \in Seq(Payloads)
    /\ ended \in {"open", "ok", "failed"}

Init ==
    /\ pc = "prepare"
    /\ model = 1
    /\ upstream = [m \in Models |-> "none"]
    /\ produced = [m \in Models |-> <<>>]
    /\ gate = <<>>
    /\ emitted = FALSE /\ cut = FALSE /\ final = FALSE /\ failure = FALSE
    /\ client = <<>>
    /\ ended = "open"

-----------------------------------------------------------------------------

\* Mutant of Prepare: a failed preparation returns from the goroutine.
PrepareReturns ==
    /\ pc = "prepare"
    /\ \/ pc' = "start" /\ UNCHANGED failure
       \/ pc' = "done" /\ failure' = TRUE
    /\ UNCHANGED <<model, upstream, produced, gate, emitted, cut, final, client, ended>>

\* preparePrimaryBody and prepareTextHostBody; either may fail the request.
Prepare ==
    /\ pc = "prepare"
    /\ \/ pc' = "start" /\ UNCHANGED failure
       \/ pc' = "close" /\ failure' = TRUE
    /\ UNCHANGED <<model, upstream, produced, gate, emitted, cut, final, client, ended>>

\* An error before any output: the next model, unless none is left.
NextModel ==
    IF model < NumModels
    THEN pc' = "start" /\ model' = model + 1 /\ failure' = FALSE
    ELSE pc' = "close" /\ failure' = TRUE /\ UNCHANGED model

\* The start reply is an error, cannot be decoded, has a status >= 400 or no
\* stream id.  The code returns before the deferred close is registered; the host
\* is taken to have left no upstream request then.
Refuse ==
    /\ pc = "start"
    /\ NextModel
    /\ UNCHANGED <<upstream, produced, gate, emitted, cut, final, client, ended>>

\* The host opens a stream: a new gate and tracker.
Open ==
    /\ pc = "start"
    /\ upstream' = [upstream EXCEPT ![model] = "open"]
    /\ gate' = <<>> /\ emitted' = FALSE /\ cut' = FALSE /\ final' = FALSE
    /\ pc' = "read"
    /\ UNCHANGED <<model, produced, failure, client, ended>>

Leave(bad) == pc' = "leave" /\ failure' = bad

\* The read fails, cannot be decoded, or reports an error.
ReadError ==
    /\ pc = "read"
    /\ Leave(TRUE)
    /\ UNCHANGED <<model, upstream, produced, gate, emitted, cut, final, client, ended>>

\* A chunk without a payload.
ReadNothing(done) ==
    /\ pc = "read"
    /\ IF done THEN Leave(~emitted) ELSE UNCHANGED <<pc, failure>>
    /\ UNCHANGED <<model, upstream, produced, gate, emitted, cut, final, client, ended>>

\* Mutants of Gated: whatever comes is let through; what was
\* held back is dropped when output begins.
GatedNever(held, marks, done) ==
    pc' = "emit" /\ gate' = held /\ UNCHANGED failure
GatedLastOnly(held, marks, done) ==
    \/ "content" \in marks /\ pc' = "emit" /\ gate' = <<held[Len(held)]>> /\ UNCHANGED failure
    \/ "content" \notin marks /\ ~done /\ gate' = held /\ UNCHANGED <<pc, failure>>
    \/ "content" \notin marks /\ done /\ gate' = held /\ Leave(TRUE)

\* Before the first output: over the limit, output at last, held back, or over.
Gated(held, marks, done) ==
    \/ Len(held) > BufferLimit /\ gate' = held /\ Leave(TRUE)
    \/ /\ Len(held) <= BufferLimit /\ "content" \in marks
       /\ gate' = held
       /\ pc' = "emit" /\ UNCHANGED failure
    \/ /\ Len(held) <= BufferLimit /\ "content" \notin marks
       /\ gate' = held
       /\ IF done THEN Leave(TRUE) ELSE UNCHANGED <<pc, failure>>

\* streamTerminationTracker: a truncation reason, once found, stays.
CutAfter(marks) == cut \/ "cut" \in marks

\* Mutant of ReadPayload: truncation before the first output is not looked at.
ReadPayloadUncut(marks, done) ==
    LET payload == [from |-> model, n |-> Len(produced[model]) + 1] IN
    /\ pc = "read" /\ Len(produced[model]) < MaxPayloads
    /\ produced' = [produced EXCEPT ![model] = Append(@, marks)]
    /\ final' = done
    /\ \/ ~emitted /\ Gated(Append(gate, payload), marks, done) /\ UNCHANGED cut
       \/ emitted /\ cut' = CutAfter(marks) /\ gate' = <<payload>> /\ pc' = "emit" /\ UNCHANGED failure
    /\ UNCHANGED <<model, upstream, emitted, client, ended>>

\* A chunk with a payload.
ReadPayload(marks, done) ==
    LET payload == [from |-> model, n |-> Len(produced[model]) + 1] IN
    /\ pc = "read" /\ Len(produced[model]) < MaxPayloads
    /\ produced' = [produced EXCEPT ![model] = Append(@, marks)]
    /\ cut' = CutAfter(marks)
    /\ final' = done
    /\ \/ ~emitted /\ cut' /\ Leave(TRUE) /\ UNCHANGED gate
       \/ ~emitted /\ ~cut' /\ Gated(Append(gate, payload), marks, done)
       \/ emitted /\ gate' = <<payload>> /\ pc' = "emit" /\ UNCHANGED failure
    /\ UNCHANGED <<model, upstream, emitted, client, ended>>

\* Mutant of EmitOK: the output is marked only once the whole buffer is out.
EmitOKLate ==
    /\ pc = "emit"
    /\ client' = Append(client, Head(gate))
    /\ gate' = Tail(gate)
    /\ emitted' = (emitted \/ gate' = <<>>)
    /\ \/ gate' # <<>> /\ UNCHANGED <<pc, failure>>
       \/ gate' = <<>> /\ (cut \/ final) /\ Leave(cut)
       \/ gate' = <<>> /\ ~cut /\ ~final /\ pc' = "read" /\ UNCHANGED failure
    /\ UNCHANGED <<model, upstream, produced, cut, final, ended>>

\* One emit; when nothing is left to emit, truncation, then the end are looked at.
EmitOK ==
    /\ pc = "emit"
    /\ client' = Append(client, Head(gate))
    /\ gate' = Tail(gate)
    /\ emitted' = TRUE
    /\ \/ gate' # <<>> /\ UNCHANGED <<pc, failure>>
       \/ gate' = <<>> /\ (cut \/ final) /\ Leave(cut)
       \/ gate' = <<>> /\ ~cut /\ ~final /\ pc' = "read" /\ UNCHANGED failure
    /\ UNCHANGED <<model, upstream, produced, cut, final, ended>>

\* The emit is reported failed.
EmitFails ==
    /\ pc = "emit"
    /\ \/ UNCHANGED client
       \/ EmitAckLost /\ client' = Append(client, Head(gate))
    /\ Leave(TRUE)
    /\ UNCHANGED <<model, upstream, produced, gate, emitted, cut, final, ended>>

\* Mutant of CloseUpstream: the deferred close is made only after a success.
CloseUpstreamIfGood ==
    /\ pc = "leave"
    /\ upstream' = IF failure THEN upstream ELSE [upstream EXCEPT ![model] = "closed"]
    /\ IF failure /\ ~emitted THEN NextModel ELSE pc' = "close" /\ UNCHANGED <<model, failure>>
    /\ UNCHANGED <<produced, gate, emitted, cut, final, client, ended>>

\* The deferred stream_close, then forwardTextFallbackStream's decision.
CloseUpstream ==
    /\ pc = "leave"
    /\ upstream' = [upstream EXCEPT ![model] = "closed"]
    /\ IF failure /\ ~emitted THEN NextModel ELSE pc' = "close" /\ UNCHANGED <<model, failure>>
    /\ UNCHANGED <<produced, gate, emitted, cut, final, client, ended>>

\* closePluginStream: the only close of the client's stream.
CloseClient ==
    /\ pc = "close"
    /\ ended' = IF failure THEN "failed" ELSE "ok"
    /\ pc' = "done"
    /\ UNCHANGED <<model, upstream, produced, gate, emitted, cut, final, failure, client>>

Read ==
    \/ ReadError
    \/ \E done \in BOOLEAN :
         \/ ReadNothing(done)
         \/ \E marks \in SUBSET Marks : ReadPayload(marks, done)

Terminated == pc = "done" /\ UNCHANGED vars

Next ==
    \/ Prepare \/ Refuse \/ Open \/ Read
    \/ EmitOK \/ EmitFails
    \/ CloseUpstream \/ CloseClient
    \/ Terminated

\* The goroutine runs, its host calls return, and a model's stream ends.
Fairness ==
    /\ WF_vars(Prepare \/ Refuse \/ Open)
    /\ WF_vars(ReadError \/ ReadNothing(TRUE))
    /\ WF_vars(EmitOK \/ EmitFails \/ CloseUpstream \/ CloseClient)

Spec == Init /\ [][Next]_vars
FairSpec == Spec /\ Fairness

-----------------------------------------------------------------------------
\* Properties.

\* All the client receives was written by one model: once bytes reached the
\* client no other model's bytes do (text_model.go:96-101).
SingleAuthor == \A i, j \in DOMAIN client : client[i].from = client[j].from

\* A stream closed as a success carried every payload of one model's stream,
\* with something deliverable in it and no sign of truncation
\* (text_model.go:152-162, 178-182).
WholeAnswer ==
    ended = "ok" =>
        LET answer == produced[client[1].from] IN
        /\ client # <<>> /\ Len(client) = Len(answer)
        /\ \E i \in DOMAIN answer : "content" \in answer[i]
        /\ \A i \in DOMAIN answer : "cut" \notin answer[i]

\* Nothing of a model reaches the client before that model has produced
\* something deliverable, and what is held back until then is bounded
\* (text_stream.go:64-92).
HeldUntilContent ==
    /\ \A i \in DOMAIN client :
         \E j \in DOMAIN produced[client[i].from] : "content" \in produced[client[i].from][j]
    /\ pc = "read" => Len(gate) <= BufferLimit

\* At most one model of the chain is streaming at a time, and none when the
\* client's stream is closed (text_model.go:133-135).
OneUpstream ==
    /\ \A m \in Models : upstream[m] = "open" => m = model
    /\ ended # "open" => \A m \in Models : upstream[m] # "open"

\* The inductive invariant behind these, in named parts.  Unless an emit may
\* reach the client and be reported failed, what the client has is an initial
\* part of what the model in turn produced, the gate holds the rest, and only
\* output ends the search for a model.
Said(m, mark) == \E j \in DOMAIN produced[m] : mark \in produced[m][j]

Untouched ==
    /\ \A m \in Models : m > model => produced[m] = <<>>
    /\ pc \in {"prepare", "start"} => produced[model] = <<>> /\ ~emitted
Authored ==
    /\ emitted <=> client # <<>>
    /\ \A i \in DOMAIN client : client[i] = [from |-> model, n |-> i]
    /\ Len(client) <= Len(produced[model])
Holding ==
    /\ pc \in {"read", "emit"} =>
        /\ Len(client) + Len(gate) = Len(produced[model])
        /\ \A i \in DOMAIN gate : gate[i] = [from |-> model, n |-> Len(client) + i]
    /\ pc = "read" => ~cut /\ (emitted => gate = <<>>)
    /\ emitted \/ pc = "emit" => Said(model, "content")
    /\ pc \in {"read", "emit", "leave"} /\ ~cut => ~Said(model, "cut")
Leaving ==
    /\ pc \in {"leave", "close"} /\ ~failure =>
        emitted /\ Len(client) = Len(produced[model]) /\ ~Said(model, "cut")
    /\ ended = "ok" => emitted /\ Len(client) = Len(produced[model]) /\ ~Said(model, "cut")
Streaming ==
    /\ \A m \in Models : upstream[m] = "open" => m = model
    /\ pc \notin {"read", "emit", "leave"} => \A m \in Models : upstream[m] # "open"
    /\ ended = "open" <=> pc # "done"

ForwardInv ==
    /\ TypeOK /\ Streaming
    /\ pc = "read" => Len(gate) <= BufferLimit
    /\ pc = "emit" => gate # <<>>
    /\ ~EmitAckLost => Untouched /\ Authored /\ Holding /\ Leaving

\* The client's stream is closed in every case, a failed preparation and an
\* exhausted chain included (executor.go:76-93).
AlwaysClosed == <>(ended # "open")

\* What the client sees is an AnswerStream: one author, every payload in order
\* and none twice, nothing after the close (executor.go:93, text_model.go:156-176).
Answer == INSTANCE AnswerStream
ImplementsAnswer == Answer!Spec
=============================================================================
