----------------------------- MODULE VisionCall -----------------------------
(***************************************************************************)
(* What one call of a visual model promises to the candidate loop that     *)
(* makes it (src/bridge.go:81-118), whatever the host does.  VisionStream  *)
(* implements it; VisionChain makes such calls one after the other.        *)
(***************************************************************************)

VARIABLES
    status,     \* what the caller knows of the call
    upstream,   \* what the host runs for the call
    asked       \* stream_close was called for it

vars == <<status, upstream, asked>>

\* The four ways executeVisionStreamWithTimeout returns.
Outcomes == {"text", "timeout", "unconfirmed", "error"}

\* The outcomes that tell the caller that the upstream request is over.
Certain == {"text", "timeout"}

TypeOK ==
    /\ status \in {"idle", "running"} \cup Outcomes
    /\ upstream \in {"none", "live", "ended"}
    /\ asked \in BOOLEAN

Init == status = "idle" /\ upstream = "none" /\ asked = FALSE

\* The host refused the call: there is no stream to close.
Refuse ==
    /\ status = "idle"
    /\ status' = "error"
    /\ UNCHANGED <<upstream, asked>>

\* The host returned a stream id.
Begin ==
    /\ status = "idle"
    /\ status' = "running"
    /\ upstream' = "live"
    /\ UNCHANGED asked

UpstreamEnds ==
    /\ upstream = "live"
    /\ upstream' = "ended"
    /\ UNCHANGED <<status, asked>>

\* stream_close, and in the same step possibly the return to the caller.
AskClose ==
    /\ status = "running"
    /\ asked' = TRUE
    /\ UNCHANGED <<status, upstream>>

\* The call returns o.  It was asked to close before, or is with this step.
Finish(o) ==
    /\ status = "running"
    /\ o \in Certain => upstream = "ended"
    /\ status' = o
    /\ asked' = TRUE
    /\ UNCHANGED upstream

Next == Refuse \/ Begin \/ UpstreamEnds \/ AskClose \/ \E o \in Outcomes : Finish(o)

Spec == Init /\ [][Next]_vars
=============================================================================
