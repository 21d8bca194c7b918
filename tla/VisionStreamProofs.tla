------------------------- MODULE VisionStreamProofs -------------------------
(***************************************************************************)
(* What holds of VisionStream for either kind of host: its inductive       *)
(* invariant, the safety properties that follow from it, and that it       *)
(* implements VisionCall.                                                  *)
(***************************************************************************)
EXTENDS VisionStream, TLAPS

USE ErrorEndsUpstreamAssumption, NoReplyAssumption

\* The initial state satisfies the inductive invariant.
LEMMA InitIInv == Init => IInv
<1> SUFFICES ASSUME Init PROVE IInv
    OBVIOUS
<1>1. TypeOK
  <2>1. {} \in SUBSET Marks /\ 0 \in Nat /\ 0 \in 0..2
    OBVIOUS
  <2> QED BY <2>1 DEF Init, TypeOK
<1>2. Progress /\ Closing /\ Accounting /\ Ended
  BY DEF Init, Progress, Closing, Accounting, Ended
<1>3. Reading
  BY DEF Init, Reading, SingleReader
<1> QED BY <1>1, <1>2, <1>3 DEF IInv

\* A verdict of consume is one of three, and says what was absorbed.
LEMMA VerdictCases ==
    ASSUME NEW r \in Replies
    PROVE  /\ Verdict(r) \in {"error", "more", "text"}
           /\ Verdict(r) = "more" => ~r.failed /\ ~r.error /\ ~r.done
           /\ Verdict(r) = "error" => r.failed \/ r.error \/ r.done
           /\ Verdict(r) = "text" => /\ ~r.failed /\ ~r.error /\ r.done
                                     /\ "text" \in Absorbed(r) /\ "trunc" \notin Absorbed(r)
BY DEF Verdict, Replies

\* What a result leaves in the accumulator is a set of marks.
LEMMA AbsorbedType ==
    ASSUME NEW r \in Replies, acc \in SUBSET Marks
    PROVE  /\ Absorbed(r) \in SUBSET Marks
           /\ ~r.failed /\ ~r.error => Absorbed(r) = acc \cup r.marks
BY DEF Absorbed, Replies

\* A step of the host preserves the inductive invariant.
LEMMA HostIInv == IInv /\ (HostReply \/ UpstreamEnds) => IInv'
<1> SUFFICES ASSUME IInv, HostReply \/ UpstreamEnds PROVE IInv'
    OBVIOUS
<1> USE DEF IInv
<1>1. CASE HostReply
  <2>1. PICK r \in Replies :
          /\ r.failed => r = Broken
          /\ reply' = r
          /\ sent' = sent \cup r.marks
          /\ upstream' = IF r.done \/ (ErrorEndsUpstream /\ (r.failed \/ r.error))
                         THEN "ended" ELSE upstream
    BY <1>1 DEF HostReply
  <2>2. readers > 0 /\ readers' = readers - 1
        /\ UNCHANGED <<pc, acc, timeUp, graceUp, closes, outcome>>
    BY <1>1 DEF HostReply
  <2>3. r.marks \in SUBSET Marks /\ r # NoReply
    BY DEF Replies
  <2>a. upstream' \in {upstream, "ended"}
    BY <2>1
  <2>4. TypeOK'
    BY <2>1, <2>2, <2>3 DEF TypeOK
  <2>5. Progress' /\ Closing'
    BY <2>2, <2>a DEF TypeOK, Progress, Closing
  <2>6. Reading'
    BY <2>1, <2>2, <2>3 DEF TypeOK, Reading, SingleReader
  <2>7. Accounting'
    BY <2>1, <2>2, <2>3 DEF TypeOK, Progress, Reading, SingleReader, Accounting
  <2>8. Ended'
    BY <2>1, <2>2 DEF TypeOK, Progress, Ended
  <2> QED BY <2>4, <2>5, <2>6, <2>7, <2>8
<1>2. CASE UpstreamEnds
  BY <1>2 DEF UpstreamEnds, TypeOK, Progress, Closing, Reading, SingleReader, Accounting, Ended
<1> QED BY <1>1, <1>2

\* Taking a result, with or without the timer, preserves the inductive
\* invariant: label is where the call goes when the stream has more to say.
LEMMA ConsumeIInv ==
    ASSUME IInv, pc = "reading", reply # NoReply,
           NEW label \in {"reading", "closing"},
           acc' = Absorbed(reply),
           \/ Verdict(reply) # "more" /\ Return(Verdict(reply))
           \/ Verdict(reply) = "more" /\ SpawnRead /\ pc' = label /\ outcome' = outcome,
           UNCHANGED <<timeUp, graceUp, closes, upstream, sent>>
    PROVE  IInv'
<1> USE DEF IInv
<1>1. reply \in Replies /\ acc \in SUBSET Marks
  BY DEF TypeOK
<1>2. /\ readers = 0 /\ sent = acc \cup reply.marks /\ closes = 0 /\ outcome = "none"
      /\ upstream # "none"
  BY DEF TypeOK, Reading, SingleReader, Accounting, Closing, Progress
<1>3. CASE Verdict(reply) = "more"
  <2>1. /\ pc' = label /\ outcome' = outcome /\ readers' = 1 /\ reply' = NoReply
        /\ acc' = acc \cup reply.marks /\ acc' \in SUBSET Marks
    BY <1>1, <1>2, <1>3, VerdictCases, AbsorbedType DEF SpawnRead
  <2> QED
    BY <1>2, <2>1 DEF TypeOK, Progress, Closing, Reading, SingleReader, Accounting, Ended
<1>4. CASE Verdict(reply) # "more"
  <2>1. /\ pc' = "cleanup" /\ outcome' = Verdict(reply) /\ readers' = 0 /\ reply' = NoReply
        /\ outcome' \in {"text", "error"}
        /\ acc' \in SUBSET Marks
    BY <1>1, <1>2, <1>4, VerdictCases, AbsorbedType DEF Return
  <2>2. outcome' = "text" => /\ acc' = sent /\ "text" \in sent /\ "trunc" \notin sent
                             /\ reply.done
    BY <1>1, <1>2, <2>1, VerdictCases, AbsorbedType
  <2>3. outcome' = "error" => reply.failed \/ reply.error \/ reply.done
    BY <1>1, <2>1, VerdictCases
  <2>4. Ended'
    BY <1>2, <2>1, <2>2, <2>3 DEF TypeOK, Ended
  <2> QED
    BY <1>2, <2>1, <2>2, <2>4 DEF TypeOK, Progress, Closing, Reading, SingleReader, Accounting
<1> QED BY <1>3, <1>4

\* A step of the plugin preserves the inductive invariant.
LEMMA PluginIInv ==
    ASSUME IInv,
           \/ Refused \/ Started \/ TimerFires \/ TakeResult \/ Timeout
           \/ CloseCall \/ Confirm \/ GraceFires \/ GraceOver \/ DeferredClose
    PROVE  IInv'
<1> USE DEF IInv
<1>1. CASE Refused
  BY <1>1 DEF Refused, TypeOK, Progress, Closing, Reading, SingleReader, Accounting, Ended
<1>2. CASE Started
  <2>1. /\ pc = "start" /\ pc' = "reading" /\ upstream = "none" /\ upstream' = "live"
        /\ readers = 0 /\ readers' = 1 /\ reply' = NoReply
        /\ acc = {} /\ sent = {} /\ closes = 0 /\ outcome = "none"
        /\ UNCHANGED <<acc, timeUp, graceUp, closes, outcome, sent>>
    BY <1>2 DEF Started, SpawnRead, TypeOK, Progress, Closing, Accounting
  <2> QED
    BY <2>1 DEF TypeOK, Progress, Closing, Reading, SingleReader, Accounting, Ended
<1>3. CASE TimerFires
  BY <1>3 DEF TimerFires, TypeOK, Progress, Closing, Reading, SingleReader, Accounting, Ended
<1>4. CASE TakeResult
  BY <1>4, ConsumeIInv DEF TakeResult
<1>5. CASE Timeout
  <2>1. CASE reply # NoReply
    BY <1>5, <2>1, ConsumeIInv DEF Timeout
  <2>2. CASE reply = NoReply
    BY <1>5, <2>2 DEF Timeout, TypeOK, Progress, Closing, Reading, SingleReader, Accounting, Ended
  <2> QED BY <2>1, <2>2
<1>6. CASE CloseCall
  BY <1>6 DEF CloseCall, Return, TypeOK, Progress, Closing, Reading, SingleReader, Accounting, Ended
<1>7. CASE Confirm
  BY <1>7 DEF Confirm, Return, SpawnRead, TypeOK, Progress, Closing, Reading, SingleReader, Accounting, Ended
<1>8. CASE GraceFires
  BY <1>8 DEF GraceFires, TypeOK, Progress, Closing, Reading, SingleReader, Accounting, Ended
<1>9. CASE GraceOver
  BY <1>9 DEF GraceOver, Return, TypeOK, Progress, Closing, Reading, SingleReader, Accounting, Ended
<1>10. CASE DeferredClose
  BY <1>10 DEF DeferredClose, TypeOK, Progress, Closing, Reading, SingleReader, Accounting, Ended
<1> QED BY <1>1, <1>2, <1>3, <1>4, <1>5, <1>6, <1>7, <1>8, <1>9, <1>10

\* A stuttering step preserves the inductive invariant.
LEMMA StutterIInv == IInv /\ UNCHANGED vars => IInv'
BY DEF vars, IInv, TypeOK, Progress, Closing, Reading, SingleReader, Accounting, Ended

\* The inductive invariant holds of every behaviour, whatever the host does
\* (vision_stream.go:63-218).
THEOREM Invariance == Spec => []IInv
<1>1. IInv /\ [Next]_vars => IInv'
  BY HostIInv, PluginIInv, StutterIInv DEF Next, Returned
<1> QED BY <1>1, InitIInv, PTL DEF Spec

\* A text is complete: ended, nothing lost, not truncated
\* (vision_stream.go:206-217).
THEOREM CompleteAnswers == Spec => []CompleteAnswer
<1>1. IInv => CompleteAnswer
  BY DEF IInv, Accounting, Ended, CompleteAnswer
<1> QED BY <1>1, Invariance, PTL

\* Never two reads of one stream at a time (vision_stream.go:130-140).
THEOREM SingleReaders == Spec => []SingleReader
<1>1. IInv => SingleReader
  BY DEF IInv, Reading
<1> QED BY <1>1, Invariance, PTL

\* The next candidate is tried only when this call's upstream request is over,
\* if the host ends requests before it reports errors (vision_stream.go:59-62).
THEOREM SafeFallBacks == Spec => []SafeToFallBack
<1>1. IInv => SafeToFallBack
  BY DEF IInv, TypeOK, Ended, SafeToFallBack
<1> QED BY <1>1, Invariance, PTL

\* An answer that raced the timer is never cancelled (vision_stream.go:128-141).
THEOREM PrefersCompletedAnswer == Spec => PreferCompletedAnswer
<1>1. IInv /\ [Next]_vars
        => [pc = "reading" /\ pc' = "closing"
              => reply = NoReply \/ ~(reply.done \/ reply.error \/ reply.failed)]_vars
  <2> SUFFICES ASSUME IInv, Next, pc = "reading", pc' = "closing", reply # NoReply
               PROVE  ~(reply.done \/ reply.error \/ reply.failed)
    OBVIOUS
  <2>1. reply \in Replies
    BY DEF IInv, TypeOK
  <2>2. Timeout
    BY DEF Next, HostReply, UpstreamEnds, Refused, Started, TimerFires, TakeResult, Return,
           CloseCall, Confirm, GraceFires, GraceOver, DeferredClose, Returned, vars
  <2>3. Verdict(reply) = "more"
    BY <2>2 DEF Timeout, Return
  <2> QED BY <2>1, <2>3, VerdictCases
<1> QED BY <1>1, Invariance, PTL DEF Spec, PreferCompletedAnswer

\* The initial state of the call is the abstract one.
LEMMA InitCall == Init => Call!Init
BY DEF Init, Call!Init

\* Every step of the call is one of the abstract call, or changes nothing of it.
LEMMA NextCall == IInv /\ IInv' /\ [Next]_vars => [Call!Next]_(Call!vars)
<1> SUFFICES ASSUME IInv, IInv', [Next]_vars PROVE [Call!Next]_(Call!vars)
    OBVIOUS
<1> USE DEF Call!vars
<1>1. CASE HostReply
  <2>1. UNCHANGED <<pc, closes, outcome>> /\ upstream' \in {upstream, "ended"}
    BY <1>1 DEF HostReply
  <2>2. upstream # "none" /\ upstream \in {"none", "live", "ended"}
    BY <1>1 DEF HostReply, IInv, TypeOK, Progress
  <2>3. CASE upstream = "live" /\ upstream' = "ended"
    BY <2>1, <2>3 DEF Call!Next, Call!UpstreamEnds
  <2>4. CASE upstream' = upstream
    BY <2>1, <2>4
  <2> QED BY <2>1, <2>2, <2>3, <2>4
<1>2. CASE UpstreamEnds
  BY <1>2 DEF UpstreamEnds, Call!Next, Call!UpstreamEnds
<1>3. CASE Refused
  BY <1>3 DEF Refused, Call!Next, Call!Refuse
<1>4. CASE Started
  BY <1>4 DEF Started, Call!Next, Call!Begin
<1>5. CASE TimerFires \/ TakeResult \/ Timeout \/ GraceFires \/ GraceOver
  <2>1. /\ pc \in {"reading", "confirming"}
        /\ pc' \in {"reading", "closing", "confirming", "cleanup"}
        /\ UNCHANGED <<closes, upstream>>
    BY <1>5 DEF TimerFires, TakeResult, Timeout, GraceFires, GraceOver, Return
  <2> QED BY <2>1
<1>6. CASE CloseCall
  <2>1. /\ pc = "closing" /\ pc' \in {"confirming", "cleanup"}
        /\ closes' = 1 /\ upstream' = upstream
    BY <1>6 DEF CloseCall, Return, IInv, Closing
  <2> QED BY <2>1 DEF Call!Next, Call!AskClose
<1>7. CASE Confirm
  <2>1. pc = "confirming" /\ closes = 1 /\ UNCHANGED <<closes, upstream>>
    BY <1>7 DEF Confirm, IInv, Closing
  <2>2. CASE pc' = "returned"
    <3>1. outcome' = "timeout" /\ upstream = "ended"
      BY <1>7, <2>2 DEF Confirm, Return, IInv, TypeOK, Ended
    <3>2. Call!Finish("timeout")
      BY <2>1, <2>2, <3>1 DEF Call!Finish
    <3> QED BY <3>2 DEF Call!Next, Call!Outcomes
  <2>3. CASE pc' # "returned"
    <3>1. pc' \in {"confirming", "cleanup"}
      BY <1>7, <2>3 DEF Confirm, Return
    <3> QED BY <2>1, <3>1
  <2> QED BY <2>2, <2>3
<1>8. CASE DeferredClose
  <2>1. /\ pc = "cleanup" /\ pc' = "returned" /\ UNCHANGED <<outcome, upstream>>
        /\ closes' > 0 /\ outcome \in Call!Outcomes
        /\ outcome \in {"text", "timeout"} => upstream = "ended"
    BY <1>8 DEF DeferredClose, IInv, TypeOK, Progress, Closing, Ended, Call!Outcomes
  <2>2. Call!Finish(outcome)
    BY <2>1 DEF Call!Finish, Call!Certain
  <2> QED BY <2>1, <2>2 DEF Call!Next
<1>9. CASE UNCHANGED vars
  BY <1>9 DEF vars
<1> QED
  BY <1>1, <1>2, <1>3, <1>4, <1>5, <1>6, <1>7, <1>8, <1>9 DEF Next, Returned

\* The stream implements the call the candidate loop relies on: a text or a
\* timeout is reported only of a request that is over, and every opened stream
\* is closed before the return (vision_stream.go:63-197).
THEOREM Refinement == Spec => ImplementsCall
BY InitCall, NextCall, Invariance, PTL DEF Spec, ImplementsCall, Call!Spec
=============================================================================
