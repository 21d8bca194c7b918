---------------------------- MODULE VisionStream ----------------------------
(***************************************************************************)
(* One call of a visual model through the host's stream interface:         *)
(* executeVisionStreamWithTimeout of src/vision_stream.go, with its reader *)
(* goroutine, its cancellable time budget and the close-and-confirm path.  *)
(*                                                                         *)
(* A payload is abstracted to the marks it leaves in the accumulator: it   *)
(* holds usable text, it carries a truncation reason.  The budget is       *)
(* always on: normalizeVisionModels (src/config.go:257) makes              *)
(* timeout_seconds positive.                                               *)
(***************************************************************************)
EXTENDS Naturals

CONSTANTS
    ErrorEndsUpstream,  \* whether the host ends the upstream request before it
                        \* reports an error on its stream
    NoReply             \* an empty result channel

Marks == {"text", "trunc"}

\* A result of readVisionHostStream: the read failed, or a host response.
Replies == [failed : BOOLEAN, error : BOOLEAN, done : BOOLEAN, marks : SUBSET Marks]
Broken == [failed |-> TRUE, error |-> FALSE, done |-> FALSE, marks |-> {}]

ASSUME ErrorEndsUpstreamAssumption == ErrorEndsUpstream \in BOOLEAN
ASSUME NoReplyAssumption == NoReply \notin Replies

VARIABLES
    pc,         \* where the call is
    acc,        \* marks of the visionStreamAccumulator
    readers,    \* goroutines blocked in stream_read
    reply,      \* what the result channel the call looks at holds
    timeUp,     \* the time budget has run out
    graceUp,    \* the grace period of the cancellation has run out
    closes,     \* stream_close calls made
    upstream,   \* what the host runs for this call
    outcome,    \* what the call returns
    sent        \* marks of every payload the host delivered (history)

vars == <<pc, acc, readers, reply, timeUp, graceUp, closes, upstream, outcome, sent>>

TypeOK ==
    /\ pc \in {"start", "reading", "closing", "confirming", "cleanup", "returned"}
    /\ acc \in SUBSET Marks
    /\ readers \in Nat
    /\ reply \in Replies \cup {NoReply}
    /\ timeUp \in BOOLEAN /\ graceUp \in BOOLEAN
    /\ closes \in 0..2
    /\ upstream \in {"none", "live", "ended"}
    /\ outcome \in {"none", "text", "timeout", "unconfirmed", "error"}
    /\ sent \in SUBSET Marks

Init ==
    /\ pc = "start"
    /\ acc = {} /\ sent = {}
    /\ readers = 0 /\ reply = NoReply
    /\ timeUp = FALSE /\ graceUp = FALSE
    /\ closes = 0
    /\ upstream = "none"
    /\ outcome = "none"

-----------------------------------------------------------------------------
\* The host.

HostReply ==
    /\ readers > 0
    /\ \E r \in Replies :
         /\ r.failed => r = Broken
         /\ reply' = r
         /\ sent' = sent \cup r.marks
         /\ upstream' = IF r.done \/ (ErrorEndsUpstream /\ (r.failed \/ r.error))
                        THEN "ended" ELSE upstream
    /\ readers' = readers - 1
    /\ UNCHANGED <<pc, acc, timeUp, graceUp, closes, outcome>>

UpstreamEnds ==
    /\ upstream = "live"
    /\ upstream' = "ended"
    /\ UNCHANGED <<pc, acc, readers, reply, timeUp, graceUp, closes, outcome, sent>>

-----------------------------------------------------------------------------
\* The plugin.

\* readVisionHostStream: a new goroutine, a new channel.
SpawnRead == readers' = readers + 1 /\ reply' = NoReply

\* Mutant of Return: no deferred stream_close.
ReturnUnclosed(o) ==
    /\ pc' = "returned"
    /\ outcome' = o
    /\ reply' = NoReply
    /\ UNCHANGED readers

\* The call returns o after the deferred stream_close.
Return(o) ==
    /\ pc' = "cleanup"
    /\ outcome' = o
    /\ reply' = NoReply
    /\ UNCHANGED readers

Absorbed(r) == IF r.failed \/ r.error THEN acc ELSE acc \cup r.marks

\* Mutants of Verdict: the truncation mark is ignored; it is acted on at once.
IgnoresTruncation(r) ==
    CASE r.failed \/ r.error -> "error"
      [] ~r.failed /\ ~r.error /\ ~r.done -> "more"
      [] OTHER -> IF "text" \in Absorbed(r) THEN "text" ELSE "error"
StopsAtTruncation(r) ==
    CASE r.failed \/ r.error \/ "trunc" \in Absorbed(r) -> "error"
      [] r.done /\ "text" \in Absorbed(r) -> "text"
      [] OTHER -> "more"

\* consume: what a result makes of the call.
Verdict(r) ==
    CASE r.failed \/ r.error        -> "error"
      [] ~r.failed /\ ~r.error /\ ~r.done -> "more"
      [] OTHER -> IF "text" \in Absorbed(r) /\ "trunc" \notin Absorbed(r)
                  THEN "text" ELSE "error"

\* The start reply is an error, cannot be decoded, has a status >= 400 or no
\* stream id.  The code returns before the deferred close is registered; the host
\* is taken to have left no upstream request then.
Refused ==
    /\ pc = "start"
    /\ pc' = "returned"
    /\ outcome' = "error"
    /\ UNCHANGED <<acc, readers, reply, timeUp, graceUp, closes, upstream, sent>>

Started ==
    /\ pc = "start"
    /\ pc' = "reading"
    /\ upstream' = "live"
    /\ SpawnRead
    /\ UNCHANGED <<acc, timeUp, graceUp, closes, outcome, sent>>

TimerFires ==
    /\ pc = "reading" /\ ~timeUp
    /\ timeUp' = TRUE
    /\ UNCHANGED <<pc, acc, readers, reply, graceUp, closes, upstream, outcome, sent>>

TakeResult ==
    /\ pc = "reading" /\ reply # NoReply
    /\ acc' = Absorbed(reply)
    /\ \/ Verdict(reply) = "more" /\ SpawnRead /\ UNCHANGED <<pc, outcome>>
       \/ Verdict(reply) # "more" /\ Return(Verdict(reply))
    /\ UNCHANGED <<timeUp, graceUp, closes, upstream, sent>>

\* Mutant of Timeout: a fresh read is started whatever the channel holds.
TimeoutRereads ==
    /\ pc = "reading" /\ timeUp
    /\ SpawnRead
    /\ pc' = "closing"
    /\ UNCHANGED <<acc, timeUp, graceUp, closes, upstream, outcome, sent>>

\* The budget is over; a result that raced the timer is taken first.
Timeout ==
    /\ pc = "reading" /\ timeUp
    /\ \/ /\ reply # NoReply
          /\ acc' = Absorbed(reply)
          /\ \/ Verdict(reply) # "more" /\ Return(Verdict(reply))
             \/ /\ Verdict(reply) = "more"
                /\ SpawnRead
                /\ pc' = "closing"
                /\ UNCHANGED outcome
       \/ /\ reply = NoReply
          /\ pc' = "closing"
          /\ UNCHANGED <<acc, readers, reply, outcome>>
    /\ UNCHANGED <<timeUp, graceUp, closes, upstream, sent>>

\* stream_close of closeAndConfirmVisionStream; the call itself may fail.
CloseCall ==
    /\ pc = "closing"
    /\ closes' = closes + 1
    /\ \/ pc' = "confirming" /\ UNCHANGED <<readers, reply, outcome>>
       \/ Return("unconfirmed")
    /\ UNCHANGED <<acc, timeUp, graceUp, upstream, sent>>

\* A queued payload may arrive after the close: read on until the terminal one.
Confirm ==
    /\ pc = "confirming" /\ reply # NoReply
    /\ \/ reply.failed /\ Return("unconfirmed")
       \/ /\ ~reply.failed /\ reply.done
          /\ pc' = "returned"
          /\ outcome' = "timeout"
          /\ reply' = NoReply
          /\ UNCHANGED readers
       \/ ~reply.failed /\ ~reply.done /\ SpawnRead /\ UNCHANGED <<pc, outcome>>
    /\ UNCHANGED <<acc, timeUp, graceUp, closes, upstream, sent>>

GraceFires ==
    /\ pc = "confirming" /\ ~graceUp
    /\ graceUp' = TRUE
    /\ UNCHANGED <<pc, acc, readers, reply, timeUp, closes, upstream, outcome, sent>>

\* Mutant of GraceOver: the deadline is looked at only between two reads.
GraceOverAfterRead ==
    /\ pc = "confirming" /\ graceUp /\ reply # NoReply
    /\ Return("unconfirmed")
    /\ UNCHANGED <<acc, timeUp, graceUp, closes, upstream, sent>>

GraceOver ==
    /\ pc = "confirming" /\ graceUp
    /\ Return("unconfirmed")
    /\ UNCHANGED <<acc, timeUp, graceUp, closes, upstream, sent>>

\* Mutant of DeferredClose: it is repeated.
DeferredCloseAgain ==
    /\ pc = "cleanup"
    /\ closes' = closes + 1
    /\ UNCHANGED <<pc, acc, readers, reply, timeUp, graceUp, upstream, outcome, sent>>

DeferredClose ==
    /\ pc = "cleanup"
    /\ closes' = closes + 1
    /\ pc' = "returned"
    /\ UNCHANGED <<acc, readers, reply, timeUp, graceUp, upstream, outcome, sent>>

Returned == pc = "returned" /\ UNCHANGED vars

Next ==
    \/ HostReply \/ UpstreamEnds
    \/ Refused \/ Started
    \/ TimerFires \/ TakeResult \/ Timeout
    \/ CloseCall \/ Confirm \/ GraceFires \/ GraceOver
    \/ DeferredClose
    \/ Returned

\* Timers fire, a ready select case is taken sooner or later (Go picks at
\* random), and stream_close returns.  stream_read is not assumed to return.
Fairness ==
    /\ WF_vars(TimerFires) /\ WF_vars(Timeout)
    /\ WF_vars(CloseCall)
    /\ WF_vars(GraceFires) /\ WF_vars(GraceOver)
    /\ WF_vars(DeferredClose)

Spec == Init /\ [][Next]_vars
FairSpec == Spec /\ Fairness

-----------------------------------------------------------------------------
\* Properties.

\* A text is returned only when the host ended the stream, nothing it delivered
\* was lost on the way to the accumulator, and no payload said the answer was
\* truncated (vision_stream.go:206-217).
CompleteAnswer ==
    outcome = "text" => /\ upstream = "ended"
                        /\ acc = sent
                        /\ "text" \in sent /\ "trunc" \notin sent

\* The call never has two reads of one stream outstanding, nor starts one while
\* a result waits: payloads cannot overtake each other (vision_stream.go:130-140).
SingleReader == readers + (IF reply = NoReply THEN 0 ELSE 1) <= 1

\* When the call returns an outcome after which the caller tries the next
\* candidate, its own upstream request is over, provided the host ends a
\* request before it reports an error on its stream (vision_stream.go:59-62).
SafeToFallBack ==
    pc = "returned" /\ outcome \in {"timeout", "error"} /\ ErrorEndsUpstream
        => upstream # "live"

\* An answer that raced the timer is preferred: the call turns to cancellation
\* only when no result waits, or the one that waits is not terminal
\* (vision_stream.go:128-141).
PreferCompletedAnswer ==
    [][pc = "reading" /\ pc' = "closing"
        => reply = NoReply \/ ~(reply.done \/ reply.error \/ reply.failed)]_vars

\* Once the stream is open the call returns, even when no read ever does: the
\* budget and the grace period bound it (vision_stream.go:99-105, 178, 193).
ReturnsInTime == pc = "reading" ~> pc = "returned"

\* The call as its caller sees it implements VisionCall: a text or a timeout is
\* reported only of an upstream request that is over, and every stream that was
\* opened is asked to close before the call returns (vision_stream.go:93-97).
Call == INSTANCE VisionCall WITH
    status <- CASE pc = "start"    -> "idle"
                [] pc = "returned" -> outcome
                [] OTHER           -> "running",
    asked  <- closes > 0

ImplementsCall == Call!Spec

-----------------------------------------------------------------------------
\* The inductive invariant behind the safety properties, in named parts.

\* How far the call has come.
Progress ==
    /\ pc = "start" => upstream = "none" /\ reply = NoReply
    /\ upstream = "none" => readers = 0
    /\ pc \in {"reading", "closing", "confirming", "cleanup"} => upstream # "none"
    /\ (outcome = "none") <=> (pc \notin {"cleanup", "returned"})
    /\ outcome = "timeout" => pc = "returned"

\* How often the stream was closed.
Closing ==
    /\ pc \in {"start", "reading", "closing"} => closes = 0
    /\ pc = "confirming" => closes = 1
    /\ pc = "cleanup" => closes \in 0..1
    /\ pc = "returned" /\ upstream # "none" => closes > 0

\* One read is outstanding, or its result waits, while the call looks at it.
Reading ==
    /\ SingleReader
    /\ outcome = "text" => readers = 0

\* What the host delivered is in the accumulator or waits in the channel.
Accounting ==
    /\ pc = "start" => acc = {} /\ sent = {}
    /\ pc = "reading" => IF reply = NoReply THEN acc = sent ELSE sent = acc \cup reply.marks
    /\ outcome = "text" => acc = sent /\ "text" \in sent /\ "trunc" \notin sent

\* When the upstream request is known to be over.
Ended ==
    /\ reply # NoReply /\ (reply.done \/ (ErrorEndsUpstream /\ (reply.failed \/ reply.error)))
         => upstream = "ended"
    /\ outcome \in {"text", "timeout"} => upstream = "ended"
    /\ outcome = "error" /\ ErrorEndsUpstream => upstream # "live"

IInv == TypeOK /\ Progress /\ Closing /\ Reading /\ Accounting /\ Ended

=============================================================================
