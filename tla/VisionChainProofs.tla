------------------------- MODULE VisionChainProofs -------------------------
(***************************************************************************)
(* What holds of VisionChain for any number of requests, images, texts and *)
(* candidates: its inductive invariant, first the part about leaders and   *)
(* candidates that are over, then the part about whom a request is served  *)
(* by; the properties that follow; and that its calls are VisionCalls.     *)
(***************************************************************************)
EXTENDS VisionChain, TLAPS

USE ImagesAssumption, ChainAssumption, TasksAssumption, ErrorEndsUpstreamAssumption,
    MarkersAssumption

\* A request with keys has an exact key and a stable one.
LEMMA KeyTypes ==
    ASSUME TypeOK, NEW r \in Requests
    PROVE  /\ task[r].img \in Images /\ task[r].ctx \in Contexts
           /\ Keyed(r) => task[r] \in Keys /\ task[r].img \in Inline
           /\ Usable[task[r].ctx] \subseteq Candidates
<1>1. task[r] \in [img : Images, ctx : Contexts]
  BY DEF TypeOK
<1> QED BY <1>1 DEF Keyed, Keys

\* The initial state satisfies the inductive invariant.
LEMMA InitLeadInv == Init => LeadInv
<1> SUFFICES ASSUME Init PROVE LeadInv
  OBVIOUS
<1>1. 1 \in 1..(ChainLength + 1)
  OBVIOUS
<1>2. TypeOK
  BY <1>1 DEF Init, TypeOK
<1>3. Waiting /\ Leading /\ Calling
  BY DEF Init, Waiting, Leading, Calling
<1>4. Ordered
  BY DEF Init, Ordered, Candidates
<1> QED BY <1>2, <1>3, <1>4 DEF LeadInv

\* What the steps of one request that only move its pc, result and the
\* memories leave true.
LEMMA MemoryStep ==
    ASSUME LeadInv, NEW r \in Requests,
           ExactGet(r) \/ StableGet(r) \/ Join(r) \/ Store(r)
    PROVE  LeadInv'
<1> USE DEF LeadInv
<1>1. UNCHANGED <<task, at, joined, flights, exact, status, upstream>>
  BY DEF calls, ExactGet, StableGet, Join, Store
<1>2. PICK l \in {"stable", "store", "enter", "done"} :
        /\ pc' = [pc EXCEPT ![r] = l]
        /\ l = "enter" => pc[r] = "stable"
        /\ l = "stable" => pc[r] = "exact"
  BY DEF ExactGet, StableGet, Join, Store, Goto
<1>3. result' \in [Requests -> Descriptions \cup {None, Failed}]
  <2> DEFINE Results == Descriptions \cup {None, Failed}
  <2>1. result \in [Requests -> Results]
    BY DEF TypeOK
  <2>2. result' = result \/ \E v \in Results : result' = [result EXCEPT ![r] = v]
    <3>1. CASE ExactGet(r)
      <4>1. Keyed(r) => exact[task[r]] \in Results
        BY KeyTypes DEF TypeOK
      <4> QED BY <3>1, <4>1 DEF ExactGet, Result
    <3>2. CASE StableGet(r)
      <4>1. Keyed(r) => stable[task[r].img] \in Results
        BY KeyTypes DEF TypeOK
      <4> QED BY <3>2, <4>1 DEF StableGet, Result
    <3>3. CASE Join(r)
      <4>1. joined[r] \in Requests
        BY <3>3 DEF Join, Waiting
      <4> QED BY <2>1, <3>3, <4>1 DEF Join, Result
    <3>4. CASE Store(r)
      BY <3>4 DEF Store
    <3> QED BY <3>1, <3>2, <3>3, <3>4
  <2> HIDE DEF Results
  <2>3. result' \in [Requests -> Results]
    BY <2>1, <2>2
  <2> QED BY <2>3 DEF Results
<1>4. stable' \in [Inline -> Descriptions \cup {None}]
  BY KeyTypes DEF ExactGet, StableGet, Join, Store, TypeOK
<1>5. TypeOK'
  BY <1>1, <1>2, <1>3, <1>4 DEF TypeOK
<1>6. Waiting' /\ Calling' /\ Leading'
  BY <1>1, <1>2 DEF TypeOK, Waiting, Calling, Leading, Keyed
<1>7. Ordered'
  BY <1>1, <1>2 DEF TypeOK, Ordered
<1> QED BY <1>5, <1>6, <1>7

\* Entering a flight makes the one leader of a key that has none.
LEMMA EnterStep ==
    ASSUME LeadInv, NEW r \in Requests, Enter(r)
    PROVE  LeadInv'
<1> USE DEF LeadInv
<1>1. UNCHANGED <<task, at, result, exact, stable, status, upstream>> /\ pc[r] = "enter"
  BY DEF calls, Enter
<1>2. PICK l \in {"loop", "wait"} :
        /\ pc' = [pc EXCEPT ![r] = l]
        /\ l = "wait" => joined'[r] \in Requests
        /\ l = "loop" => (joined' = joined)
  BY KeyTypes DEF Enter, Goto, TypeOK
<1>3. /\ flights' \in [Keys -> Requests \cup {None}]
      /\ joined' \in [Requests -> Requests \cup {None}]
      /\ \A s \in Requests : s # r => joined'[s] = joined[s]
  BY KeyTypes DEF Enter, TypeOK
<1>4. TypeOK'
  BY <1>1, <1>2, <1>3 DEF TypeOK
<1>5. Waiting' /\ Calling'
  BY <1>1, <1>2, <1>3 DEF TypeOK, Waiting, Calling
<1>6. Leading'
  <2> SUFFICES ASSUME NEW s \in Requests, Keyed(s), pc'[s] \in {"loop", "call", "leave"}
               PROVE  flights'[task[s]] = s
    BY <1>1 DEF Leading, Keyed
  <2>1. CASE s = r
    BY <2>1, <1>1, <1>2, KeyTypes DEF Enter, Goto, TypeOK
  <2>2. CASE s # r
    <3>1. flights[task[s]] = s /\ s # None
      BY <2>2, <1>2 DEF TypeOK, Leading
    <3>2. CASE flights' = flights
      BY <3>1, <3>2
    <3>3. CASE flights' # flights
      <4>1. Keyed(r) /\ flights[task[r]] = None /\ flights' = [flights EXCEPT ![task[r]] = r]
        BY <3>3 DEF Enter
      <4>2. task[s] # task[r]
        BY <3>1, <4>1
      <4> QED BY <3>1, <4>1, <4>2, KeyTypes DEF TypeOK
    <3> QED BY <3>2, <3>3
  <2> QED BY <2>1, <2>2
<1>7. Ordered'
  BY <1>1, <1>2 DEF TypeOK, Ordered
<1> QED BY <1>4, <1>5, <1>6, <1>7

\* Ending a flight frees the key of no other leader.
LEMMA FinishStep ==
    ASSUME LeadInv, NEW r \in Requests, FinishFlight(r)
    PROVE  LeadInv'
<1> USE DEF LeadInv
<1>1. /\ UNCHANGED <<task, at, joined, result, exact, stable, status, upstream>>
      /\ pc[r] = "leave" /\ pc' = [pc EXCEPT ![r] = "store"]
  BY DEF calls, FinishFlight, Goto
<1>2. flights' \in [Keys -> Requests \cup {None}]
  BY KeyTypes DEF FinishFlight, TypeOK
<1>3. TypeOK'
  BY <1>1, <1>2 DEF TypeOK
<1>4. Waiting' /\ Calling' /\ Ordered'
  BY <1>1 DEF TypeOK, Waiting, Calling, Ordered
<1>5. Leading'
  <2> SUFFICES ASSUME NEW s \in Requests, Keyed(s), pc'[s] \in {"loop", "call", "leave"}
               PROVE  flights'[task[s]] = s
    BY <1>1 DEF Leading, Keyed
  <2>1. s # r /\ flights[task[s]] = s
    BY <1>1 DEF TypeOK, Leading
  <2>2. CASE Keyed(r)
    <3>1. flights[task[r]] = r /\ flights' = [flights EXCEPT ![task[r]] = None]
      BY <1>1, <2>2 DEF FinishFlight, Leading
    <3> QED BY <2>1, <3>1, KeyTypes DEF TypeOK
  <2>3. CASE ~Keyed(r)
    BY <2>1, <2>3 DEF FinishFlight
  <2> QED BY <2>2, <2>3
<1> QED BY <1>3, <1>4, <1>5

\* A step of the candidate loop: only the call at the index changes, and the
\* index stays or moves past a call that is over.
LEMMA LoopStep ==
    ASSUME LeadInv, NEW r \in Requests, pc[r] \in {"loop", "call"},
           TypeOK',
           pc'[r] \in {"loop", "call", "leave"},
           at'[r] = at[r] \/ at'[r] = at[r] + 1,
           pc'[r] = "loop" => at'[r] = at[r] + 1,
           pc'[r] = "call" => at'[r] \in Candidates,
           at'[r] # at[r] /\ ErrorEndsUpstream => upstream'[r][at[r]] # "live",
           \A q \in Requests : q # r => pc'[q] = pc[q] /\ at'[q] = at[q],
           \A q \in Requests, c \in Candidates : q # r \/ c # at[r] =>
               status'[q][c] = status[q][c] /\ upstream'[q][c] = upstream[q][c],
           UNCHANGED <<task, joined, flights, stable>>
    PROVE  LeadInv'
<1> USE DEF LeadInv
<1>1. Waiting' /\ Calling' /\ Leading'
  <2>1. Waiting'
    BY DEF Waiting
  <2>2. Calling'
    BY DEF Calling
  <2>3. Leading'
    BY DEF Leading, Keyed
  <2> QED BY <2>1, <2>2, <2>3
<1>2. Ordered'
  <2> SUFFICES ASSUME NEW q \in Requests, NEW c \in Candidates
               PROVE  /\ c > at'[q] \/ (c = at'[q] /\ pc'[q] \in {"exact", "stable", "enter", "wait", "loop"})
                           => status'[q][c] = "idle" /\ upstream'[q][c] = "none"
                      /\ c < at'[q] /\ ErrorEndsUpstream => upstream'[q][c] # "live"
    BY DEF Ordered
  <2>1. CASE q # r
    BY <2>1 DEF Ordered
  <2>2. CASE q = r
    <3>1. at[r] \in Nat /\ c \in Nat
      BY DEF TypeOK, Candidates
    <3>2. CASE c # at[r]
      <4>1. c > at[r] => status[r][c] = "idle" /\ upstream[r][c] = "none"
        BY DEF Ordered
      <4>2. c < at[r] /\ ErrorEndsUpstream => upstream[r][c] # "live"
        BY DEF Ordered
      <4>3. status'[r][c] = status[r][c] /\ upstream'[r][c] = upstream[r][c]
        BY <3>2
      <4>4. c > at'[r] \/ c = at'[r] => c > at[r]
        BY <3>1, <3>2
      <4>5. c < at'[r] => c < at[r]
        BY <3>1, <3>2
      <4> QED BY <2>2, <4>1, <4>2, <4>3, <4>4, <4>5
    <3>3. CASE c = at[r]
      <4>1. ~(c > at'[r])
        BY <3>1, <3>3
      <4>2. c = at'[r] => pc'[r] \in {"call", "leave"}
        BY <3>1, <3>3
      <4>3. c < at'[r] => at'[r] # at[r]
        BY <3>1, <3>3
      <4> QED BY <2>2, <3>3, <4>1, <4>2, <4>3
    <3> QED BY <3>2, <3>3
  <2> QED BY <2>1, <2>2
<1> QED BY <1>1, <1>2

\* Every step of the loop is such a step.
LEMMA CandidateStep ==
    ASSUME LeadInv, NEW r \in Requests,
           \/ Skip(r) \/ BeginCall(r) \/ RefuseCall(r)
           \/ Answered(r) \/ GiveUp(r) \/ FallBack(r) \/ Exhausted(r)
    PROVE  LeadInv'
<1> USE DEF LeadInv
<1>1. /\ at[r] \in 1..(ChainLength + 1)
      /\ pc[r] = "call" => at[r] \in Candidates
      /\ at[r] \in Candidates => at[r] + 1 \in 1..(ChainLength + 1) /\ at[r] + 1 # at[r]
  BY DEF TypeOK, Calling, Candidates
<1>3. pc[r] = "loop" /\ at[r] \in Candidates => upstream[r][at[r]] = "none"
  BY DEF Ordered
<1>4. Usable[task[r].ctx] \subseteq Candidates
  BY KeyTypes
<1>5. ASSUME NEW s \in {"idle", "running"} \cup Outcomes, Status(r, at[r], s), at[r] \in Candidates
      PROVE  /\ status' \in [Requests -> [Candidates -> {"idle", "running"} \cup Outcomes]]
             /\ \A q \in Requests, c \in Candidates : q # r \/ c # at[r] => status'[q][c] = status[q][c]
  BY <1>5 DEF Status, TypeOK
<1>6. CASE Skip(r)
  <2>1. /\ pc[r] = "loop" /\ at[r] \in Candidates /\ at' = [at EXCEPT ![r] = at[r] + 1]
        /\ UNCHANGED <<task, pc, joined, result, flights, exact, stable, status, upstream>>
    BY <1>6 DEF Skip, calls
  <2>2. TypeOK'
    BY <1>1, <2>1 DEF TypeOK
  <2> QED BY <1>1, <1>3, <2>1, <2>2, LoopStep DEF TypeOK
<1>7. CASE BeginCall(r)
  <2>1. /\ pc[r] = "loop" /\ at[r] \in Candidates /\ pc' = [pc EXCEPT ![r] = "call"]
        /\ Status(r, at[r], "running") /\ upstream' = [upstream EXCEPT ![r][at[r]] = "live"]
        /\ UNCHANGED <<task, at, joined, result, flights, exact, stable>>
    BY <1>4, <1>7 DEF BeginCall, Goto
  <2>2. /\ upstream' \in [Requests -> [Candidates -> {"none", "live", "ended"}]]
        /\ \A q \in Requests, c \in Candidates : q # r \/ c # at[r] => upstream'[q][c] = upstream[q][c]
    BY <2>1 DEF TypeOK
  <2>3. TypeOK'
    BY <1>5, <2>1, <2>2 DEF TypeOK
  <2>4. /\ pc'[r] = "call" /\ at'[r] = at[r]
        /\ \A q \in Requests : q # r => pc'[q] = pc[q] /\ at'[q] = at[q]
    BY <2>1 DEF TypeOK
  <2>5. \A q \in Requests, c \in Candidates : q # r \/ c # at[r] =>
          status'[q][c] = status[q][c] /\ upstream'[q][c] = upstream[q][c]
    BY <1>1, <1>5, <2>1, <2>2
  <2> QED BY <1>1, <2>1, <2>3, <2>4, <2>5, LoopStep
<1>8. CASE RefuseCall(r)
  <2>1. /\ pc[r] = "loop" /\ at[r] \in Candidates /\ at' = [at EXCEPT ![r] = at[r] + 1]
        /\ Status(r, at[r], "error")
        /\ UNCHANGED <<task, pc, joined, result, flights, exact, stable, upstream>>
    BY <1>4, <1>8 DEF RefuseCall
  <2>2. "error" \in Outcomes
    BY DEF Outcomes
  <2>3. TypeOK'
    BY <1>1, <1>5, <2>1, <2>2 DEF TypeOK
  <2> QED BY <1>1, <1>3, <1>5, <2>1, <2>2, <2>3, LoopStep DEF TypeOK
<1>9. CASE Answered(r)
  <2>1. /\ pc[r] = "call" /\ pc' = [pc EXCEPT ![r] = "leave"]
        /\ Status(r, at[r], "text")
        /\ result' = [result EXCEPT ![r] = [by |-> r, model |-> at[r]]]
        /\ UNCHANGED <<task, at, joined, flights, stable, upstream>>
    BY <1>9 DEF Answered, Goto, Result
  <2>2. result'[r] \in Descriptions /\ result' \in [Requests -> Descriptions \cup {None, Failed}]
    BY <1>1, <2>1 DEF Descriptions, TypeOK
  <2>3. exact' \in [Keys -> Descriptions \cup {None}]
    <3>1. exact \in [Keys -> Descriptions \cup {None}] /\ (Keyed(r) => task[r] \in Keys)
      BY <1>1, KeyTypes DEF TypeOK
    <3>2. exact' = exact \/ (Keyed(r) /\ exact' = [exact EXCEPT ![task[r]] = result'[r]])
      BY <1>9 DEF Answered
    <3> QED BY <2>2, <3>1, <3>2
  <2>4. "text" \in Outcomes
    BY DEF Outcomes
  <2>5. TypeOK'
    BY <1>1, <1>5, <2>1, <2>2, <2>3, <2>4 DEF TypeOK
  <2>6. /\ pc'[r] = "leave" /\ at'[r] = at[r]
        /\ \A q \in Requests : q # r => pc'[q] = pc[q] /\ at'[q] = at[q]
    BY <2>1 DEF TypeOK
  <2>7. \A q \in Requests, c \in Candidates : q # r \/ c # at[r] =>
          status'[q][c] = status[q][c] /\ upstream'[q][c] = upstream[q][c]
    BY <1>1, <1>5, <2>1, <2>4
  <2> QED BY <2>1, <2>5, <2>6, <2>7, LoopStep
<1>10. CASE GiveUp(r)
  <2>1. /\ pc[r] = "call" /\ pc' = [pc EXCEPT ![r] = "leave"]
        /\ Status(r, at[r], "unconfirmed")
        /\ result' = [result EXCEPT ![r] = Failed]
        /\ UNCHANGED <<task, at, joined, flights, exact, stable, upstream>>
    BY <1>10 DEF GiveUp, Goto, Result
  <2>2. "unconfirmed" \in Outcomes
    BY DEF Outcomes
  <2>3. TypeOK'
    BY <1>1, <1>5, <2>1, <2>2 DEF TypeOK
  <2>4. /\ pc'[r] = "leave" /\ at'[r] = at[r]
        /\ \A q \in Requests : q # r => pc'[q] = pc[q] /\ at'[q] = at[q]
    BY <2>1 DEF TypeOK
  <2>5. \A q \in Requests, c \in Candidates : q # r \/ c # at[r] =>
          status'[q][c] = status[q][c] /\ upstream'[q][c] = upstream[q][c]
    BY <1>1, <1>5, <2>1, <2>2
  <2> QED BY <2>1, <2>3, <2>4, <2>5, LoopStep
<1>11. CASE FallBack(r)
  <2>1. /\ pc[r] = "call" /\ pc' = [pc EXCEPT ![r] = "loop"]
        /\ at' = [at EXCEPT ![r] = at[r] + 1]
        /\ ErrorEndsUpstream => upstream[r][at[r]] = "ended"
        /\ UNCHANGED <<task, joined, result, flights, exact, stable, upstream>>
    BY <1>11 DEF FallBack, Goto
  <2>2. PICK s \in {"timeout", "error"} : Status(r, at[r], s)
    BY <1>11 DEF FallBack
  <2>3. s \in Outcomes
    BY DEF Outcomes
  <2>4. TypeOK'
    BY <1>1, <1>5, <2>1, <2>2, <2>3 DEF TypeOK
  <2> QED BY <1>1, <1>5, <2>1, <2>2, <2>3, <2>4, LoopStep DEF TypeOK
<1>12. CASE Exhausted(r)
  <2>1. /\ pc[r] = "loop" /\ pc' = [pc EXCEPT ![r] = "leave"]
        /\ result' = [result EXCEPT ![r] = Failed]
        /\ UNCHANGED <<task, at, joined, flights, exact, stable, status, upstream>>
    BY <1>12 DEF Exhausted, Goto, Result, calls
  <2>2. TypeOK'
    BY <2>1 DEF TypeOK
  <2> QED BY <1>1, <2>1, <2>2, LoopStep DEF TypeOK
<1> QED BY <1>6, <1>7, <1>8, <1>9, <1>10, <1>11, <1>12

\* The steps that are nobody's: an eviction, the end of an upstream request.
LEMMA OtherStep ==
    ASSUME LeadInv, Evict \/ UpstreamEnds \/ UNCHANGED vars
    PROVE  LeadInv'
<1> USE DEF LeadInv
<1>1. CASE Evict
  <2>1. /\ UNCHANGED <<task, pc, at, joined, result, flights, status, upstream>>
        /\ exact' \in [Keys -> Descriptions \cup {None}]
        /\ stable' \in [Inline -> Descriptions \cup {None}]
    BY <1>1 DEF Evict, TypeOK, calls
  <2> QED BY <2>1 DEF TypeOK, Waiting, Leading, Keyed, Calling, Ordered
<1>2. CASE UpstreamEnds
  <2>1. PICK r \in Requests, c \in Candidates :
          /\ upstream[r][c] = "live"
          /\ upstream' = [upstream EXCEPT ![r][c] = "ended"]
    BY <1>2 DEF UpstreamEnds
  <2>2. UNCHANGED <<task, pc, at, joined, result, flights, exact, stable, status>>
    BY <1>2 DEF UpstreamEnds
  <2>3. TypeOK'
    BY <2>1, <2>2 DEF TypeOK
  <2>4. Waiting' /\ Leading' /\ Calling'
    BY <2>2 DEF Waiting, Leading, Keyed, Calling
  <2>5. \A q \in Requests, d \in Candidates :
          \/ upstream'[q][d] = upstream[q][d]
          \/ upstream[q][d] = "live" /\ upstream'[q][d] = "ended"
    BY <2>1 DEF TypeOK
  <2>6. Ordered'
    BY <2>2, <2>5 DEF Ordered
  <2> QED BY <2>3, <2>4, <2>6
<1>3. CASE UNCHANGED vars
  BY <1>3 DEF vars, calls, TypeOK, Waiting, Leading, Keyed, Calling, Ordered
<1> QED BY <1>1, <1>2, <1>3

\* The types and the four parts hold in every state, for any number of
\* requests, images and candidates (bridge.go:61-128, cache.go:138-159).
THEOREM LeadInvariance == Spec => []LeadInv
<1>1. LeadInv /\ [Next]_vars => LeadInv'
  <2> SUFFICES ASSUME LeadInv, [Next]_vars PROVE LeadInv'
    OBVIOUS
  <2>1. CASE \E r \in Requests : Plugin(r) \/ CallReturns(r)
    <3>1. PICK r \in Requests : Plugin(r) \/ CallReturns(r)
      BY <2>1
    <3> QED BY <3>1, MemoryStep, EnterStep, FinishStep, CandidateStep DEF Plugin, CallReturns
  <2>2. CASE Evict \/ UpstreamEnds \/ Terminated \/ UNCHANGED vars
    BY <2>2, OtherStep DEF Terminated
  <2> QED BY <2>1, <2>2 DEF Next
<1> QED BY <1>1, InitLeadInv, PTL DEF Spec

\* Two requests never extract for one exact key at the same time
\* (cache.go:143-159).
THEOREM Leaders == Spec => []OneLeader
<1>1. LeadInv => OneLeader
  <2> SUFFICES ASSUME LeadInv, NEW r \in Requests, NEW s \in Requests, Keyed(r), task[r] = task[s],
                      pc[r] \in {"loop", "call", "leave"}, pc[s] \in {"loop", "call", "leave"}
               PROVE  r = s
    BY DEF OneLeader
  <2>1. Keyed(s)
    BY DEF Keyed
  <2> QED BY <2>1 DEF LeadInv, Leading
<1> QED BY <1>1, LeadInvariance, PTL

\* With a host whose errors end the upstream request, no candidate is called
\* before the upstream requests of the earlier ones are over (bridge.go:96-107).
THEOREM Overlaps == ErrorEndsUpstream => (Spec => []NoOverlap)
<1> SUFFICES ASSUME ErrorEndsUpstream PROVE Spec => []NoOverlap
  OBVIOUS
<1>1. LeadInv => NoOverlap
  <2> SUFFICES ASSUME LeadInv, NEW r \in Requests, NEW c \in Candidates, NEW d \in Candidates,
                      c < d, status[r][d] # "idle"
               PROVE  upstream[r][c] # "live"
    BY DEF NoOverlap
  <2>1. at[r] \in Nat /\ c \in Nat /\ d \in Nat
    BY DEF LeadInv, TypeOK, Candidates
  <2>2. ~(d > at[r])
    BY DEF LeadInv, Ordered
  <2>3. c < at[r]
    BY <2>1, <2>2
  <2> QED BY <2>3 DEF LeadInv, Ordered
<1> QED BY <1>1, LeadInvariance, PTL

-----------------------------------------------------------------------------
\* Whom a request is served by.  The properties are part of what is carried
\* from state to state: a description that is passed on is right because it was
\* right where it came from.
ServeInv == Tried /\ Flying /\ Sharing /\ RightImage /\ FreshReanalysis /\ FailsLast

LEMMA InitServeInv == Init => ServeInv
<1> SUFFICES ASSUME Init PROVE ServeInv
  OBVIOUS
<1>1. Tried /\ Flying /\ Sharing
  BY DEF Init, Tried, Flying, Sharing, Candidates
<1>2. RightImage /\ FreshReanalysis /\ FailsLast
  BY DEF Init, RightImage, FreshReanalysis, FailsLast
<1> QED BY <1>1, <1>2 DEF ServeInv

\* A memory of the image serves a request that does not look again.
LEMMA MemoryServes ==
    ASSUME LeadInv, ServeInv, NEW r \in Requests, ExactGet(r) \/ StableGet(r)
    PROVE  ServeInv'
<1>t. /\ TypeOK /\ Tried /\ Flying /\ Sharing /\ RightImage /\ FreshReanalysis /\ FailsLast
  BY DEF LeadInv, ServeInv
<1>u. /\ UNCHANGED <<task, at, joined, flights, exact, stable, status, upstream>>
      /\ pc[r] \in {"exact", "stable"}
  BY DEF ExactGet, StableGet, calls
<1>r. \/ /\ pc' = [pc EXCEPT ![r] = "store"] /\ ~LooksAgain(r)
         /\ \E v \in Descriptions : Describes(v, task[r].img) /\ result' = [result EXCEPT ![r] = v]
      \/ /\ pc' = [pc EXCEPT ![r] = IF pc[r] = "exact" THEN "stable" ELSE "enter"]
         /\ result' = result
  <2>1. CASE ExactGet(r)
    <3>1. Keyed(r) /\ exact[task[r]] # None => Describes(exact[task[r]], task[r].img)
      BY <1>t, KeyTypes DEF RightImage
    <3> QED BY <2>1, <3>1 DEF ExactGet, Goto, Result, Describes
  <2>2. CASE StableGet(r)
    <3>1. Keyed(r) /\ stable[task[r].img] # None => Describes(stable[task[r].img], task[r].img)
      BY <1>t, KeyTypes DEF RightImage
    <3> QED BY <2>2, <3>1 DEF StableGet, Goto, Result, Describes
  <2> QED BY <2>1, <2>2
<1>p. /\ pc'[r] \in {"stable", "enter", "store"}
      /\ \A q \in Requests : q # r => pc'[q] = pc[q] /\ result'[q] = result[q]
      /\ pc'[r] = "store" => result'[r] \in Descriptions /\ Describes(result'[r], task[r].img) /\ ~LooksAgain(r)
      /\ pc'[r] # "store" => result'[r] = result[r]
  BY <1>r, <1>t, <1>u DEF TypeOK
<1>n. joined[r] = None /\ result[r] = None /\ \A q \in Requests : joined[q] # r
  BY <1>t, <1>u DEF Sharing, TypeOK
<1>1. Tried'
  BY <1>t, <1>u, <1>p DEF Tried
<1>2. Flying'
  <2>1. \A q \in Requests : pc[q] \in {"loop", "call", "leave"} => q # r /\ pc'[q] = pc[q]
    BY <1>u, <1>p
  <2>2. \A k \in Keys : flights[k] # None => flights[k] \in Requests
    BY <1>t DEF TypeOK
  <2>3. ASSUME NEW k \in Keys, flights[k] # None
        PROVE  task[flights[k]] = k /\ pc'[flights[k]] \in {"loop", "call", "leave"}
    <3>1. task[flights[k]] = k /\ pc[flights[k]] \in {"loop", "call", "leave"}
      BY <1>t, <2>3 DEF Flying
    <3> QED BY <2>1, <2>2, <2>3, <3>1
  <2> QED BY <1>u, <2>3 DEF Flying
<1>3. Sharing'
  BY <1>t, <1>u, <1>p, <1>n DEF Sharing, TypeOK
<1>4. RightImage'
  BY <1>t, <1>u, <1>p, <1>n DEF RightImage, Describes
<1>5. FreshReanalysis'
  BY <1>t, <1>u, <1>p, <1>n DEF FreshReanalysis, LooksAgain
<1>6. FailsLast'
  <2>1. \A q \in Requests : result'[q] = Failed => q # r /\ result[q] = Failed
    BY <1>t, <1>p, <1>n
  <2> QED BY <1>t, <1>u, <2>1 DEF FailsLast, Server
<1> QED BY <1>1, <1>2, <1>3, <1>4, <1>5, <1>6 DEF ServeInv

\* A joiner joins a leader of its own task.
LEMMA EnterServes ==
    ASSUME LeadInv, ServeInv, NEW r \in Requests, Enter(r)
    PROVE  ServeInv'
<1>t. /\ TypeOK /\ Tried /\ Flying /\ Sharing /\ RightImage /\ FreshReanalysis /\ FailsLast
  BY DEF LeadInv, ServeInv
<1>u. /\ UNCHANGED <<task, at, result, exact, stable, status, upstream>> /\ pc[r] = "enter"
  BY DEF Enter, calls
<1>n. joined[r] = None /\ result[r] = None /\ \A q \in Requests : joined[q] # r
  BY <1>t, <1>u DEF Sharing, TypeOK
<1>a. CASE pc' = [pc EXCEPT ![r] = "wait"]
  <2>1. /\ Keyed(r) /\ flights[task[r]] # None /\ flights' = flights
        /\ joined' = [joined EXCEPT ![r] = flights[task[r]]]
    BY <1>a, <1>t, <1>u DEF Enter, Goto, TypeOK
  <2>2. /\ flights[task[r]] \in Requests
        /\ task[flights[task[r]]] = task[r]
        /\ pc[flights[task[r]]] \in {"loop", "call", "leave"}
    BY <1>t, <2>1, KeyTypes DEF Flying, TypeOK
  <2>3. flights[task[r]] # r /\ joined[flights[task[r]]] = None
    BY <1>t, <1>u, <2>2 DEF Sharing
  <2>p. /\ pc'[r] = "wait" /\ joined'[r] = flights[task[r]]
        /\ \A q \in Requests : q # r => pc'[q] = pc[q] /\ joined'[q] = joined[q]
    BY <1>a, <1>t, <2>1 DEF TypeOK
  <2>4. Tried'
    BY <1>t, <1>u, <2>p DEF Tried
  <2>8. Flying'
    BY <1>t, <1>u, <2>1, <2>p DEF Flying, TypeOK
  <2>5. Sharing'
    <3> SUFFICES ASSUME NEW q \in Requests
                 PROVE  /\ pc'[q] = "wait" => joined'[q] # None
                        /\ joined'[q] # None =>
                             /\ pc'[q] \in {"wait", "store", "done"}
                             /\ joined'[joined'[q]] = None /\ task[joined'[q]] = task[q]
                             /\ pc'[joined'[q]] \in {"loop", "call", "leave", "store", "done"}
                             /\ pc'[q] # "wait" => pc'[joined'[q]] \in {"store", "done"}
                        /\ result[q] = None <=> pc'[q] \in {"exact", "stable", "enter", "wait", "loop", "call"}
      BY <1>u DEF Sharing
    <3>1. CASE q = r
      BY <1>t, <1>n, <2>2, <2>3, <2>p, <3>1 DEF TypeOK
    <3>2. CASE q # r
      BY <1>t, <1>n, <2>p, <3>2 DEF Sharing, TypeOK
    <3> QED BY <3>1, <3>2
  <2>6. RightImage'
    BY <1>t, <1>u DEF RightImage, Describes
  <2>7. FreshReanalysis'
    BY <1>t, <1>u, <1>n, <2>p DEF FreshReanalysis, LooksAgain
  <2>9. FailsLast'
    <3>1. \A q \in Requests : result[q] = Failed => Server(q)' = Server(q)
      BY <1>n, <2>p DEF Server
    <3> QED BY <1>t, <1>u, <3>1 DEF FailsLast
  <2> QED BY <2>4, <2>5, <2>6, <2>7, <2>8, <2>9 DEF ServeInv
<1>b. CASE pc' = [pc EXCEPT ![r] = "loop"]
  <2>1. /\ joined' = joined
        /\ \/ flights' = flights
           \/ Keyed(r) /\ flights' = [flights EXCEPT ![task[r]] = r]
    BY <1>b, <1>t, <1>u DEF Enter, Goto, TypeOK
  <2>p. /\ pc'[r] = "loop" /\ \A q \in Requests : q # r => pc'[q] = pc[q]
    BY <1>b, <1>t DEF TypeOK
  <2>2. Tried'
    <3>1. at[r] = 1 /\ \A c \in Usable[task[r].ctx] : ~(c < 1)
      BY <1>t, <1>u, KeyTypes DEF Tried, Candidates
    <3> QED BY <1>t, <1>u, <2>p, <3>1 DEF Tried
  <2>3. Flying'
    <3> SUFFICES ASSUME NEW k \in Keys, flights'[k] # None
                 PROVE  task[flights'[k]] = k /\ pc'[flights'[k]] \in {"loop", "call", "leave"}
      BY <1>u DEF Flying
    <3>1. CASE flights'[k] = flights[k]
      <4>1. flights[k] \in Requests
        BY <1>t, <3>1 DEF TypeOK
      <4> QED BY <1>t, <2>p, <3>1, <4>1 DEF Flying
    <3>2. CASE flights'[k] # flights[k]
      <4>1. k = task[r] /\ flights'[k] = r
        BY <1>t, <2>1, <3>2 DEF TypeOK
      <4> QED BY <2>p, <4>1
    <3> QED BY <3>1, <3>2
  <2>4. Sharing'
    BY <1>t, <1>u, <1>n, <2>1, <2>p DEF Sharing, TypeOK
  <2>5. RightImage'
    BY <1>t, <1>u DEF RightImage, Describes
  <2>6. FreshReanalysis'
    BY <1>t, <1>u, <2>1 DEF FreshReanalysis, LooksAgain
  <2>7. FailsLast'
    BY <1>t, <1>u, <2>1 DEF FailsLast, Server
  <2> QED BY <2>2, <2>3, <2>4, <2>5, <2>6, <2>7 DEF ServeInv
<1> QED BY <1>a, <1>b DEF Enter, Goto

\* A joiner gets what its leader has.
LEMMA JoinServes ==
    ASSUME LeadInv, ServeInv, NEW r \in Requests, Join(r)
    PROVE  ServeInv'
<1>t. /\ TypeOK /\ Tried /\ Flying /\ Sharing /\ RightImage /\ FreshReanalysis /\ FailsLast
  BY DEF LeadInv, ServeInv
<1>u. /\ UNCHANGED <<task, at, joined, flights, exact, stable, status, upstream>>
      /\ pc[r] = "wait" /\ pc[joined[r]] \in {"store", "done"}
      /\ pc' = [pc EXCEPT ![r] = "store"]
      /\ result' = [result EXCEPT ![r] = result[joined[r]]]
  BY DEF Join, Goto, Result, calls
<1>l. /\ joined[r] \in Requests /\ joined[r] # None /\ joined[r] # r
      /\ joined[joined[r]] = None /\ task[joined[r]] = task[r]
      /\ result[joined[r]] # None /\ result[r] = None
      /\ \A q \in Requests : joined[q] # r
  <2>1. joined[r] \in Requests /\ joined[r] # None
    BY <1>t, <1>u DEF Sharing, TypeOK
  <2> QED BY <1>t, <1>u, <2>1 DEF Sharing
<1>p. /\ pc'[r] = "store" /\ result'[r] = result[joined[r]]
      /\ \A q \in Requests : q # r => pc'[q] = pc[q] /\ result'[q] = result[q]
  BY <1>t, <1>u DEF TypeOK
<1>1. Tried'
  BY <1>t, <1>u, <1>p DEF Tried
<1>2. Flying'
  BY <1>t, <1>u, <1>p DEF Flying, TypeOK
<1>3. Sharing'
  BY <1>t, <1>u, <1>p, <1>l DEF Sharing, TypeOK
<1>4. RightImage'
  <2>1. result[joined[r]] # Failed => Describes(result[joined[r]], task[r].img)
    BY <1>t, <1>l DEF RightImage
  <2> QED BY <1>t, <1>u, <1>p, <2>1 DEF RightImage, Describes
<1>5. FreshReanalysis'
  <2>1. ASSUME LooksAgain(r), result[joined[r]] \in Descriptions
        PROVE  result[joined[r]].by = joined[r]
    <3>1. LooksAgain(joined[r]) /\ result[joined[r]].by \in Requests
      BY <1>l, <2>1 DEF LooksAgain, Descriptions
    <3>2. result[joined[r]].by \in {joined[r], None}
      BY <1>t, <1>l, <2>1, <3>1 DEF FreshReanalysis
    <3> QED BY <3>1, <3>2
  <2> QED BY <1>t, <1>u, <1>p, <1>l, <2>1 DEF FreshReanalysis, LooksAgain
<1>6. FailsLast'
  <2>1. Server(r) = joined[r] /\ Server(joined[r]) = joined[r]
    BY <1>l DEF Server
  <2>2. \A q \in Requests : Server(q)' = Server(q)
    BY <1>u DEF Server
  <2> QED BY <1>t, <1>u, <1>p, <1>l, <2>1, <2>2 DEF FailsLast
<1> QED BY <1>1, <1>2, <1>3, <1>4, <1>5, <1>6 DEF ServeInv

\* What is known of calls that are over stays known: a step of the loop touches
\* the call at the index, which is no description's and no failure's reason yet.
LEMMA LoopServes ==
    ASSUME LeadInv, ServeInv, NEW r \in Requests,
           Skip(r) \/ BeginCall(r) \/ RefuseCall(r) \/ FallBack(r)
    PROVE  ServeInv'
<1>t. /\ TypeOK /\ Tried /\ Flying /\ Sharing /\ RightImage /\ FreshReanalysis /\ FailsLast
      /\ Ordered /\ Calling
  BY DEF LeadInv, ServeInv
<1>u. /\ UNCHANGED <<task, joined, result, flights, exact, stable>>
      /\ pc[r] \in {"loop", "call"}
  BY DEF Skip, BeginCall, RefuseCall, FallBack, calls
<1>k. Usable[task[r].ctx] \subseteq Candidates
  BY <1>t, KeyTypes
<1>a. at[r] \in Candidates
  BY <1>t, <1>k DEF Skip, BeginCall, RefuseCall, FallBack, Calling
<1>b. status[r][at[r]] \in {"idle", "running"}
  BY <1>t, <1>u, <1>a DEF Tried, Ordered, Candidates
<1>s. \/ /\ status' = status /\ at' = [at EXCEPT ![r] = at[r] + 1] /\ pc' = pc
         /\ pc[r] = "loop" /\ at[r] \notin Usable[task[r].ctx]
      \/ /\ Status(r, at[r], "running") /\ at' = at /\ pc' = [pc EXCEPT ![r] = "call"]
         /\ pc[r] = "loop"
      \/ /\ \E s \in {"timeout", "error"} : Status(r, at[r], s)
         /\ at' = [at EXCEPT ![r] = at[r] + 1]
         /\ pc' = [pc EXCEPT ![r] = "loop"]
  BY <1>t DEF Skip, BeginCall, RefuseCall, FallBack, calls, Goto, TypeOK
<1>p. /\ pc'[r] \in {"loop", "call"}
      /\ \A q \in Requests : q # r => pc'[q] = pc[q] /\ at'[q] = at[q] /\ status'[q] = status[q]
      /\ \A q \in Requests, c \in Candidates :
           status'[q][c] = status[q][c] \/ status[q][c] \in {"idle", "running"}
      /\ \A c \in Candidates : c # at[r] => status'[r][c] = status[r][c]
      /\ \/ at'[r] = at[r] + 1 /\ pc'[r] = "loop" /\ at[r] \notin Usable[task[r].ctx]
         \/ at'[r] = at[r] + 1 /\ pc'[r] = "loop" /\ status'[r][at[r]] \in {"timeout", "error"}
         \/ at'[r] = at[r] /\ pc'[r] = "call" /\ status'[r][at[r]] = "running"
  <2>1. /\ at \in [Requests -> 1..(ChainLength + 1)] /\ at[r] + 1 # at[r]
        /\ status \in [Requests -> [Candidates -> {"idle", "running"} \cup Outcomes]]
        /\ pc \in [Requests -> {"exact", "stable", "enter", "wait", "loop", "call",
                                "leave", "store", "done"}]
    BY <1>t DEF TypeOK
  <2>2. CASE /\ status' = status /\ at' = [at EXCEPT ![r] = at[r] + 1] /\ pc' = pc
             /\ pc[r] = "loop" /\ at[r] \notin Usable[task[r].ctx]
    BY <2>1, <2>2
  <2>3. CASE /\ Status(r, at[r], "running") /\ at' = at /\ pc' = [pc EXCEPT ![r] = "call"]
    BY <1>a, <1>b, <2>1, <2>3 DEF Status
  <2>4. CASE /\ \E s \in {"timeout", "error"} : Status(r, at[r], s)
             /\ at' = [at EXCEPT ![r] = at[r] + 1]
             /\ pc' = [pc EXCEPT ![r] = "loop"]
    <3>1. PICK s \in {"timeout", "error"} : Status(r, at[r], s)
      BY <2>4
    <3>2. /\ status'[r][at[r]] = s
          /\ \A q \in Requests : q # r => status'[q] = status[q]
          /\ \A c \in Candidates : c # at[r] => status'[r][c] = status[r][c]
      BY <1>a, <2>1, <3>1 DEF Status
    <3> QED BY <1>b, <2>1, <2>4, <3>2
  <2> QED BY <1>s, <2>2, <2>3, <2>4
<1>c. /\ \A q \in Requests : q # r => upstream'[q] = upstream[q]
      /\ pc'[r] = "call" => upstream'[r][at[r]] # "none"
  BY <1>a, <1>t, <1>p DEF Skip, BeginCall, RefuseCall, FallBack, calls, Goto, TypeOK
<1>n. joined[r] = None /\ result[r] = None
  BY <1>t, <1>u DEF Sharing
<1>j. \A q \in Requests : joined[q] = r => result[q] = None
  BY <1>t, <1>u DEF Sharing
<1>1. Tried'
  <2> SUFFICES ASSUME NEW q \in Requests
               PROVE  /\ pc'[q] \in {"exact", "stable", "enter"} => at'[q] = 1
                      /\ pc'[q] = "call" => status'[q][at'[q]] = "running" /\ upstream'[q][at'[q]] # "none"
                      /\ pc'[q] \in {"loop", "call"} =>
                           \A c \in Usable[task[q].ctx] : c < at'[q] => status'[q][c] \in {"timeout", "error"}
    BY <1>u DEF Tried
  <2>1. CASE q # r
    BY <1>t, <1>p, <1>c, <2>1 DEF Tried
  <2>2. CASE q = r
    <3>1. ASSUME NEW c \in Usable[task[r].ctx], c < at'[r]
          PROVE  status'[r][c] \in {"timeout", "error"}
      <4>1. c \in Candidates /\ c \in Nat /\ at[r] \in Nat
        BY <1>k, <1>a DEF Candidates
      <4>2. CASE c = at[r]
        BY <1>p, <3>1, <4>1, <4>2
      <4>3. CASE c # at[r]
        <5>1. c < at[r]
          BY <1>p, <3>1, <4>1, <4>3
        <5> QED BY <1>t, <1>u, <1>p, <4>1, <4>3, <5>1 DEF Tried
      <4> QED BY <4>2, <4>3
    <3>2. pc'[r] = "call" => status'[r][at'[r]] = "running" /\ upstream'[r][at'[r]] # "none"
      BY <1>p, <1>c
    <3> QED BY <1>p, <2>2, <3>1, <3>2
  <2> QED BY <2>1, <2>2
<1>2. Flying'
  BY <1>t, <1>u, <1>p DEF Flying, TypeOK
<1>3. Sharing'
  <2> SUFFICES ASSUME NEW q \in Requests
               PROVE  /\ pc'[q] = "wait" => joined[q] # None
                      /\ joined[q] # None =>
                           /\ pc'[q] \in {"wait", "store", "done"}
                           /\ joined[joined[q]] = None /\ task[joined[q]] = task[q]
                           /\ pc'[joined[q]] \in {"loop", "call", "leave", "store", "done"}
                           /\ pc'[q] # "wait" => pc'[joined[q]] \in {"store", "done"}
                      /\ result[q] = None <=> pc'[q] \in {"exact", "stable", "enter", "wait", "loop", "call"}
    BY <1>u DEF Sharing
  <2>1. CASE q = r
    BY <1>n, <1>p, <2>1
  <2>2. CASE q # r
    <3>1. pc'[q] = pc[q]
      BY <1>p, <2>2
    <3>2. joined[q] # None => /\ joined[q] \in Requests
                              /\ joined[q] = r => pc[q] = "wait"
      BY <1>t, <1>u DEF Sharing, TypeOK
    <3> QED BY <1>t, <1>p, <3>1, <3>2 DEF Sharing
  <2> QED BY <2>1, <2>2
<1>4. RightImage'
  <2>1. ASSUME NEW v, NEW img, Describes(v, img)
        PROVE  Describes(v, img)'
    <3>1. v.by \in Requests /\ v.model \in Candidates
      BY <2>1 DEF Describes, Descriptions
    <3> QED BY <1>u, <1>p, <2>1, <3>1 DEF Describes
  <2> QED BY <1>t, <1>u, <2>1 DEF RightImage
<1>5. FreshReanalysis'
  BY <1>t, <1>u DEF FreshReanalysis, LooksAgain
<1>6. FailsLast'
  <2> SUFFICES ASSUME NEW q \in Requests, result[q] = Failed
               PROVE  \/ \A c \in Usable[task[Server(q)].ctx] : status'[Server(q)][c] \in {"timeout", "error"}
                      \/ \E c \in Candidates : status'[Server(q)][c] = "unconfirmed"
    BY <1>u DEF FailsLast, Server
  <2>1. Server(q) \in Requests \ {r}
    BY <1>t, <1>n, <1>j DEF Server, TypeOK
  <2> QED BY <1>t, <1>p, <2>1 DEF FailsLast
<1> QED BY <1>1, <1>2, <1>3, <1>4, <1>5, <1>6 DEF ServeInv

\* Describes when the calls stand at st.
DescribesAt(st, v, img) ==
    /\ v \in Descriptions
    /\ task[v.by].img = img
    /\ st[v.by][v.model] = "text"

\* The end of a leader's loop: a text, or a failure with its reason.
LEMMA LeaveServes ==
    ASSUME LeadInv, ServeInv, NEW r \in Requests, Answered(r) \/ GiveUp(r) \/ Exhausted(r)
    PROVE  ServeInv'
<1>t. /\ TypeOK /\ Tried /\ Flying /\ Sharing /\ RightImage /\ FreshReanalysis /\ FailsLast
      /\ Calling
  BY DEF LeadInv, ServeInv
<1>u. /\ UNCHANGED <<task, at, joined, flights, stable, upstream>>
      /\ pc[r] \in {"loop", "call"} /\ pc' = [pc EXCEPT ![r] = "leave"]
  BY DEF Answered, GiveUp, Exhausted, Goto, calls
<1>f. /\ pc \in [Requests -> {"exact", "stable", "enter", "wait", "loop", "call",
                              "leave", "store", "done"}]
      /\ result \in [Requests -> Descriptions \cup {None, Failed}]
      /\ status \in [Requests -> [Candidates -> {"idle", "running"} \cup Outcomes]]
  BY <1>t DEF TypeOK
<1>s. \/ /\ Answered(r) /\ pc[r] = "call" /\ at[r] \in Candidates /\ status[r][at[r]] = "running"
         /\ Status(r, at[r], "text") /\ result' = [result EXCEPT ![r] = [by |-> r, model |-> at[r]]]
      \/ /\ pc[r] = "call" /\ at[r] \in Candidates /\ status[r][at[r]] = "running"
         /\ Status(r, at[r], "unconfirmed")
         /\ result' = [result EXCEPT ![r] = Failed] /\ exact' = exact
      \/ /\ pc[r] = "loop" /\ at[r] > ChainLength
         /\ status' = status /\ result' = [result EXCEPT ![r] = Failed] /\ exact' = exact
  BY <1>t DEF Answered, GiveUp, Exhausted, Result, Calling, Tried, calls
<1>p. /\ pc'[r] = "leave" /\ result'[r] # None
      /\ \A q \in Requests : q # r =>
           pc'[q] = pc[q] /\ result'[q] = result[q] /\ status'[q] = status[q]
      /\ \A q \in Requests, c \in Candidates :
           status'[q][c] = status[q][c] \/ status[q][c] = "running"
  <2>1. /\ pc'[r] = "leave"
        /\ \A q \in Requests : q # r =>
             pc'[q] = pc[q] /\ result'[q] = result[q] /\ status'[q] = status[q]
    BY <1>u, <1>f, <1>s DEF Status
  <2>2. result'[r] # None
    <3>1. [by |-> r, model |-> at[r]] # None \/ at[r] \notin Candidates
      BY DEF Descriptions
    <3> QED BY <1>f, <1>s, <3>1
  <2>3. \A c \in Candidates : status'[r][c] = status[r][c] \/ status[r][c] = "running"
    BY <1>f, <1>s DEF Status
  <2> QED BY <2>1, <2>2, <2>3
<1>d. result'[r] # Failed => DescribesAt(status', result'[r], task[r].img) /\ result'[r].by = r
  <2> SUFFICES ASSUME result'[r] # Failed
               PROVE  DescribesAt(status', result'[r], task[r].img) /\ result'[r].by = r
    OBVIOUS
  <2>1. /\ at[r] \in Candidates /\ Status(r, at[r], "text")
        /\ result'[r] = [by |-> r, model |-> at[r]]
    BY <1>f, <1>s
  <2>2. status'[r][at[r]] = "text"
    BY <1>f, <2>1 DEF Status
  <2> QED BY <1>u, <2>1, <2>2 DEF DescribesAt, Descriptions
<1>w. result'[r] = Failed =>
        \/ \A c \in Usable[task[r].ctx] : status'[r][c] \in {"timeout", "error"}
        \/ \E c \in Candidates : status'[r][c] = "unconfirmed"
  <2>1. CASE Answered(r) /\ at[r] \in Candidates /\ result' = [result EXCEPT ![r] = [by |-> r, model |-> at[r]]]
    BY <1>f, <2>1 DEF Descriptions
  <2>2. CASE at[r] \in Candidates /\ Status(r, at[r], "unconfirmed")
    <3>1. status'[r][at[r]] = "unconfirmed"
      BY <1>f, <2>2 DEF Status
    <3> QED BY <2>2, <3>1
  <2>3. CASE pc[r] = "loop" /\ at[r] > ChainLength /\ status' = status
    <3>1. \A c \in Usable[task[r].ctx] : c < at[r]
      <4>1. Usable[task[r].ctx] \subseteq Candidates /\ at[r] \in Nat
        BY <1>t, KeyTypes DEF TypeOK
      <4> QED BY <2>3, <4>1 DEF Candidates
    <3> QED BY <1>t, <2>3, <3>1 DEF Tried
  <2> QED BY <1>s, <2>1, <2>2, <2>3
<1>e. \A k \in Keys : exact'[k] = exact[k] \/ (Keyed(r) /\ k = task[r] /\ result'[r] # Failed /\ exact'[k] = result'[r])
  <2>1. CASE Answered(r) /\ at[r] \in Candidates /\ result' = [result EXCEPT ![r] = [by |-> r, model |-> at[r]]]
    <3>1. result'[r] # Failed
      BY <1>f, <2>1 DEF Descriptions
    <3> QED BY <1>t, <2>1, <3>1 DEF Answered, TypeOK
  <2> QED BY <1>s, <2>1
<1>j. \A q \in Requests : joined[q] = r => result[q] = None /\ q # r
  BY <1>t, <1>u DEF Sharing
<1>n. joined[r] = None
  BY <1>t, <1>u DEF Sharing
<1>1. Tried'
  BY <1>t, <1>u, <1>p DEF Tried
<1>2. Flying'
  BY <1>t, <1>u, <1>p DEF Flying, TypeOK
<1>3. Sharing'
  <2> SUFFICES ASSUME NEW q \in Requests
               PROVE  /\ pc'[q] = "wait" => joined[q] # None
                      /\ joined[q] # None =>
                           /\ pc'[q] \in {"wait", "store", "done"}
                           /\ joined[joined[q]] = None /\ task[joined[q]] = task[q]
                           /\ pc'[joined[q]] \in {"loop", "call", "leave", "store", "done"}
                           /\ pc'[q] # "wait" => pc'[joined[q]] \in {"store", "done"}
                      /\ result'[q] = None <=> pc'[q] \in {"exact", "stable", "enter", "wait", "loop", "call"}
    BY <1>u DEF Sharing
  <2>1. CASE q = r
    BY <1>n, <1>p, <2>1
  <2>2. CASE q # r
    <3>1. pc'[q] = pc[q] /\ result'[q] = result[q]
      BY <1>p, <2>2
    <3>2. joined[q] # None => /\ joined[q] \in Requests
                              /\ joined[q] = r => pc[q] = "wait"
      BY <1>t, <1>u DEF Sharing, TypeOK
    <3> QED BY <1>t, <1>p, <3>1, <3>2 DEF Sharing
  <2> QED BY <2>1, <2>2
<1>4. RightImage'
  <2>1. ASSUME NEW v, NEW img, Describes(v, img)
        PROVE  DescribesAt(status', v, img)
    <3>1. v.by \in Requests /\ v.model \in Candidates
      BY <2>1 DEF Describes, Descriptions
    <3> QED BY <1>u, <1>p, <2>1, <3>1 DEF Describes, DescribesAt
  <2>2. \A q \in Requests : result'[q] \notin {None, Failed} => DescribesAt(status', result'[q], task[q].img)
    BY <1>t, <1>p, <1>d, <2>1 DEF RightImage
  <2>3. \A k \in Keys : exact'[k] # None => DescribesAt(status', exact'[k], k.img)
    BY <1>t, <1>u, <1>d, <1>e, <2>1 DEF RightImage
  <2>4. \A i \in Inline : stable[i] # None => DescribesAt(status', stable[i], i)
    BY <1>t, <2>1 DEF RightImage
  <2> QED BY <1>u, <2>2, <2>3, <2>4 DEF RightImage, Describes, DescribesAt
<1>5. FreshReanalysis'
  <2> SUFFICES ASSUME NEW q \in Requests, LooksAgain(q), result'[q] \in Descriptions
               PROVE  /\ result'[q].by \in {q, joined[q]}
                      /\ task[result'[q].by].ctx = task[q].ctx
    BY <1>u DEF FreshReanalysis, LooksAgain
  <2>1. CASE q = r
    BY <1>d, <2>1
  <2>2. CASE q # r
    BY <1>t, <1>p, <2>2 DEF FreshReanalysis
  <2> QED BY <2>1, <2>2
<1>6. FailsLast'
  <2> SUFFICES ASSUME NEW q \in Requests, result'[q] = Failed
               PROVE  \/ \A c \in Usable[task[Server(q)].ctx] : status'[Server(q)][c] \in {"timeout", "error"}
                      \/ \E c \in Candidates : status'[Server(q)][c] = "unconfirmed"
    BY <1>u DEF FailsLast, Server
  <2>1. CASE q = r
    BY <1>n, <1>w, <2>1 DEF Server
  <2>2. CASE q # r
    <3>1. Server(q) \in Requests \ {r} /\ result[q] = Failed
      BY <1>t, <1>p, <1>j, <2>2 DEF Server, TypeOK
    <3> QED BY <1>t, <1>p, <3>1 DEF FailsLast
  <2> QED BY <2>1, <2>2
<1> QED BY <1>1, <1>2, <1>3, <1>4, <1>5, <1>6 DEF ServeInv

\* The end of a flight, and the write of the stable memory.
LEMMA CloseServes ==
    ASSUME LeadInv, ServeInv, NEW r \in Requests, FinishFlight(r) \/ Store(r)
    PROVE  ServeInv'
<1>t. /\ TypeOK /\ Tried /\ Flying /\ Sharing /\ RightImage /\ FreshReanalysis /\ FailsLast
  BY DEF LeadInv, ServeInv
<1>u. /\ UNCHANGED <<task, at, joined, result, exact, status, upstream>>
      /\ \/ pc[r] = "leave" /\ pc' = [pc EXCEPT ![r] = "store"]
         \/ pc[r] = "store" /\ pc' = [pc EXCEPT ![r] = "done"] /\ flights' = flights
  BY DEF FinishFlight, Store, Goto, calls
<1>p. /\ pc'[r] \in {"store", "done"}
      /\ \A q \in Requests : q # r => pc'[q] = pc[q]
  BY <1>t, <1>u DEF TypeOK
<1>1. Tried'
  BY <1>t, <1>u, <1>p DEF Tried
<1>2. Flying'
  <2> SUFFICES ASSUME NEW k \in Keys, flights'[k] # None
               PROVE  task[flights'[k]] = k /\ pc'[flights'[k]] \in {"loop", "call", "leave"}
    BY <1>u DEF Flying
  <2>1. flights'[k] = flights[k] /\ flights[k] \in Requests
    BY <1>t, KeyTypes DEF FinishFlight, Store, TypeOK
  <2>2. flights[k] # r
    <3>1. CASE FinishFlight(r)
      <4>1. Keyed(r) => flights'[task[r]] = None
        BY <1>t, <3>1, KeyTypes DEF FinishFlight, TypeOK
      <4>2. task[r] = k => Keyed(r)
        BY DEF Keyed, Keys
      <4> QED BY <1>t, <2>1, <4>1, <4>2 DEF Flying
    <3>2. CASE Store(r)
      BY <1>t, <2>1, <3>2 DEF Flying, Store
    <3> QED BY <3>1, <3>2
  <2>3. task[flights[k]] = k /\ pc[flights[k]] \in {"loop", "call", "leave"}
    BY <1>t, <2>1 DEF Flying
  <2> QED BY <1>p, <2>1, <2>2, <2>3
<1>3. Sharing'
  <2> SUFFICES ASSUME NEW q \in Requests
               PROVE  /\ pc'[q] = "wait" => joined[q] # None
                      /\ joined[q] # None =>
                           /\ pc'[q] \in {"wait", "store", "done"}
                           /\ joined[joined[q]] = None /\ task[joined[q]] = task[q]
                           /\ pc'[joined[q]] \in {"loop", "call", "leave", "store", "done"}
                           /\ pc'[q] # "wait" => pc'[joined[q]] \in {"store", "done"}
                      /\ result[q] = None <=> pc'[q] \in {"exact", "stable", "enter", "wait", "loop", "call"}
    BY <1>u DEF Sharing
  <2>1. joined[q] # None => joined[q] \in Requests
    BY <1>t DEF TypeOK
  <2>2. result[r] # None /\ (joined[r] # None => pc[r] = "store" /\ pc[joined[r]] \in {"store", "done"})
    BY <1>t, <1>u DEF Sharing
  <2>3. /\ pc[q] = "wait" => joined[q] # None
        /\ joined[q] # None =>
             /\ pc[q] \in {"wait", "store", "done"}
             /\ joined[joined[q]] = None /\ task[joined[q]] = task[q]
             /\ pc[joined[q]] \in {"loop", "call", "leave", "store", "done"}
             /\ pc[q] # "wait" => pc[joined[q]] \in {"store", "done"}
        /\ result[q] = None <=> pc[q] \in {"exact", "stable", "enter", "wait", "loop", "call"}
    BY <1>t DEF Sharing
  <2>4. CASE q = r
    BY <1>p, <2>1, <2>2, <2>3, <2>4
  <2>5. CASE q # r
    BY <1>p, <2>1, <2>3, <2>5
  <2> QED BY <2>4, <2>5
<1>4. RightImage'
  <2>1. \A i \in Inline : stable'[i] = stable[i] \/ (i = task[r].img /\ result[r] \notin {None, Failed} /\ stable'[i] = result[r])
    <3>1. result[r] # None
      BY <1>t, <1>u DEF Sharing
    <3> QED BY <1>t, <3>1 DEF FinishFlight, Store, TypeOK
  <2> QED BY <1>t, <1>u, <2>1 DEF RightImage, Describes
<1>5. FreshReanalysis'
  BY <1>t, <1>u DEF FreshReanalysis, LooksAgain
<1>6. FailsLast'
  BY <1>t, <1>u DEF FailsLast, Server
<1> QED BY <1>1, <1>2, <1>3, <1>4, <1>5, <1>6 DEF ServeInv

\* What the memories lose and the host ends is nobody's description.
LEMMA OtherServes ==
    ASSUME LeadInv, ServeInv, Evict \/ UpstreamEnds \/ UNCHANGED vars
    PROVE  ServeInv'
<1>t. /\ TypeOK /\ Tried /\ Flying /\ Sharing /\ RightImage /\ FreshReanalysis /\ FailsLast
  BY DEF LeadInv, ServeInv
<1>u. UNCHANGED <<task, pc, at, joined, result, flights, status>>
  BY DEF Evict, UpstreamEnds, vars, calls
<1>1. Tried'
  <2>1. \A r \in Requests, c \in Candidates : upstream[r][c] # "none" => upstream'[r][c] # "none"
    BY <1>t DEF Evict, UpstreamEnds, vars, calls, TypeOK
  <2>2. \A r \in Requests : pc[r] = "call" => at[r] \in Candidates
    BY DEF LeadInv, Calling
  <2> QED BY <1>t, <1>u, <2>1, <2>2 DEF Tried
<1>2. Flying' /\ Sharing'
  BY <1>t, <1>u DEF Flying, Sharing
<1>3. FreshReanalysis' /\ FailsLast'
  BY <1>t, <1>u DEF FreshReanalysis, LooksAgain, FailsLast, Server
<1>4. /\ \A k \in Keys : exact'[k] \in {exact[k], None}
      /\ \A i \in Inline : stable'[i] \in {stable[i], None}
  BY <1>t DEF Evict, UpstreamEnds, vars, TypeOK
<1>5. RightImage'
  BY <1>t, <1>u, <1>4 DEF RightImage, Describes
<1> QED BY <1>1, <1>2, <1>3, <1>5 DEF ServeInv

\* The whole invariant holds in every state: who leads, which candidates are
\* over, and whom each request is served by (bridge.go:61-128, cache.go:138-159).
THEOREM ServeInvariance == Spec => [](LeadInv /\ ServeInv)
<1>1. LeadInv /\ ServeInv /\ [Next]_vars => ServeInv'
  <2> SUFFICES ASSUME LeadInv, ServeInv, [Next]_vars PROVE ServeInv'
    OBVIOUS
  <2>1. CASE \E r \in Requests : Plugin(r) \/ CallReturns(r)
    <3>1. PICK r \in Requests : Plugin(r) \/ CallReturns(r)
      BY <2>1
    <3> QED BY <3>1, MemoryServes, EnterServes, JoinServes, LoopServes, LeaveServes, CloseServes
            DEF Plugin, CallReturns
  <2>2. CASE Evict \/ UpstreamEnds \/ Terminated \/ UNCHANGED vars
    BY <2>2, OtherServes DEF Terminated
  <2> QED BY <2>1, <2>2 DEF Next
<1> QED BY <1>1, InitServeInv, LeadInvariance, PTL DEF Spec

-----------------------------------------------------------------------------
\* Whose question a text answers, carried from state to state relative to the
\* invariant so far.
QuestInv == RightQuestion /\ Own

LEMMA InitQuestInv == Init => QuestInv
  BY DEF Init, QuestInv, RightQuestion, Own, Descriptions

\* Only a request that has no result yet may call a candidate: whoever the
\* stable memory may have served goes on to look so.
LEMMA StaysServed ==
    ASSUME NEW q \in Requests, FromStable(q), task'[q] = task[q], joined'[q] = joined[q],
           \A c \in Candidates : status'[q][c] = status[q][c]
    PROVE  FromStable(q)'
  BY DEF FromStable, Keyed, LooksAgain

\* The steps that give nobody a result and nobody a flight.
LEMMA QuietQuest ==
    ASSUME LeadInv, ServeInv, QuestInv,
           UNCHANGED <<task, joined, result>>,
           \A k \in Keys : exact'[k] \in {exact[k], None},
           \A q \in Requests : pc'[q] = "leave" => pc[q] = "leave",
           \A q \in Requests, c \in Candidates : result[q] # None => status'[q][c] = status[q][c]
    PROVE  QuestInv'
<1>t. TypeOK /\ RightQuestion /\ Own
  BY DEF LeadInv, QuestInv
<1>1. \A q \in Requests : result[q] \in Descriptions /\ FromStable(q) => FromStable(q)'
  BY StaysServed
<1>2. RightQuestion'
  BY <1>t, <1>1 DEF RightQuestion
<1>3. Own'
  BY <1>t DEF Own
<1> QED BY <1>2, <1>3 DEF QuestInv

\* A memory or the end of a flight gives a result to a request that nobody
\* waits for: to its own question, or from the stable memory.
LEMMA GivenQuest ==
    ASSUME LeadInv, ServeInv, QuestInv, NEW r \in Requests,
           ExactGet(r) \/ StableGet(r) \/ Join(r)
    PROVE  QuestInv'
<1>t. TypeOK /\ Waiting /\ Ordered /\ Tried /\ Sharing /\ RightQuestion /\ Own
  BY DEF LeadInv, ServeInv, QuestInv
<1>u. /\ UNCHANGED <<task, at, joined, flights, exact, stable, status, upstream>>
      /\ pc[r] \in {"exact", "stable", "wait"}
  BY DEF ExactGet, StableGet, Join, calls
<1>p. /\ pc'[r] \in {"stable", "enter", "store"}
      /\ \A q \in Requests : q # r => pc'[q] = pc[q] /\ result'[q] = result[q]
  BY <1>t DEF ExactGet, StableGet, Join, Goto, Result, TypeOK
<1>n. \A q \in Requests : joined[q] # r
  BY <1>t, <1>u DEF Sharing, TypeOK
<1>r. result'[r] \in Descriptions => task[result'[r].by] = task[r] \/ FromStable(r)
  <2> SUFFICES ASSUME result'[r] \in Descriptions
               PROVE  task[result'[r].by] = task[r] \/ FromStable(r)
    OBVIOUS
  <2>1. result'[r] # result[r]
    <3>1. result[r] = None
      BY <1>t, <1>u DEF Sharing
    <3> QED BY <3>1
  <2>2. CASE ExactGet(r)
    <3>1. Keyed(r) /\ exact[task[r]] # None /\ result'[r] = exact[task[r]]
      BY <1>t, <2>1, <2>2 DEF ExactGet, Result, TypeOK
    <3> QED BY <1>t, <3>1, KeyTypes DEF RightQuestion
  <2>3. CASE StableGet(r)
    <3>1. Keyed(r) /\ ~LooksAgain(r) /\ pc[r] = "stable"
      BY <2>1, <2>3 DEF StableGet
    <3>2. joined[r] = None
      BY <1>t, <3>1 DEF Sharing
    <3>3. \A c \in Candidates : c = at[r] \/ c > at[r]
      BY <1>t, <3>1 DEF Tried, Candidates
    <3>4. \A c \in Candidates : status[r][c] = "idle"
      BY <1>t, <3>1, <3>3 DEF Ordered
    <3> QED BY <3>1, <3>2, <3>4 DEF FromStable
  <2>4. CASE Join(r)
    <3>1. joined[r] \in Requests /\ result'[r] = result[joined[r]]
      BY <1>t, <2>4 DEF Join, Result, Waiting, TypeOK
    <3>2. joined[r] # None /\ task[joined[r]] = task[r]
      BY <1>t, <2>4 DEF Join, Sharing
    <3> QED BY <1>t, <3>1, <3>2 DEF Own
  <2> QED BY <2>2, <2>3, <2>4
<1>1. RightQuestion'
  <2>1. \A q \in Requests : FromStable(q) => FromStable(q)'
    BY <1>u, StaysServed
  <2>2. \A q \in Requests : result'[q] \in Descriptions =>
          task[result'[q].by] = task[q] \/ FromStable(q)
    BY <1>t, <1>p, <1>r DEF RightQuestion
  <2>3. \A k \in Keys : exact[k] # None => task[exact[k].by] = k
    BY <1>t DEF RightQuestion
  <2> QED BY <1>u, <2>1, <2>2, <2>3 DEF RightQuestion
<1>2. Own'
  <2>1. \A q \in Requests : joined[q] # None =>
          joined[q] \in Requests /\ result'[joined[q]] = result[joined[q]]
    BY <1>t, <1>p, <1>n DEF TypeOK
  <2>2. \A q \in Requests : pc'[q] = "leave" => pc[q] = "leave" /\ result'[q] = result[q]
    BY <1>p
  <2> QED BY <1>t, <1>u, <2>1, <2>2 DEF Own
<1> QED BY <1>1, <1>2 DEF QuestInv

\* Whoever joins a flight joins the leader of its own key, who returns its own.
LEMMA EnterQuest ==
    ASSUME LeadInv, ServeInv, QuestInv, NEW r \in Requests, Enter(r)
    PROVE  QuestInv'
<1>t. TypeOK /\ Flying /\ Sharing /\ RightQuestion /\ Own
  BY DEF LeadInv, ServeInv, QuestInv
<1>u. UNCHANGED <<task, at, result, exact, stable, status, upstream>> /\ pc[r] = "enter"
  BY DEF Enter, calls
<1>p. /\ \A q \in Requests : pc'[q] = "leave" => pc[q] = "leave"
      /\ \A q \in Requests : q # r => joined'[q] = joined[q]
  BY <1>t DEF Enter, Goto, TypeOK
<1>j. \/ joined' = joined
      \/ \E k \in Keys : flights[k] # None /\ joined'[r] = flights[k]
  BY <1>t, KeyTypes DEF Enter, TypeOK
<1>1. RightQuestion'
  <2>1. result[r] = None /\ None \notin Descriptions
    BY <1>t, <1>u DEF Sharing
  <2>2. \A q \in Requests : q # r /\ FromStable(q) => FromStable(q)'
    BY <1>u, <1>p, StaysServed
  <2> QED BY <1>t, <1>u, <2>1, <2>2 DEF RightQuestion
<1>2. Own'
  <2>1. \A k \in Keys : flights[k] # None /\ result[flights[k]] \in Descriptions =>
          result[flights[k]].by = flights[k]
    <3> SUFFICES ASSUME NEW k \in Keys, flights[k] # None, result[flights[k]] \in Descriptions
                 PROVE  result[flights[k]].by = flights[k]
      OBVIOUS
    <3>1. flights[k] \in Requests /\ pc[flights[k]] \in {"loop", "call", "leave"}
      BY <1>t DEF TypeOK, Flying
    <3>2. pc[flights[k]] = "leave"
      BY <1>t, <3>1 DEF Sharing
    <3> QED BY <1>t, <3>1, <3>2 DEF Own
  <2>2. ASSUME NEW q \in Requests, joined'[q] # None, result[joined'[q]] \in Descriptions
        PROVE  result[joined'[q]].by = joined'[q]
    BY <1>t, <1>p, <1>j, <2>1, <2>2 DEF Own
  <2>3. \A q \in Requests : pc'[q] = "leave" /\ result[q] \in Descriptions => result[q].by = q
    BY <1>t, <1>p DEF Own
  <2> QED BY <1>u, <2>2, <2>3 DEF Own
<1> QED BY <1>1, <1>2 DEF QuestInv

\* The leader leaves with its own text, also in the exact memory, or a failure.
LEMMA LeaveQuest ==
    ASSUME LeadInv, ServeInv, QuestInv, NEW r \in Requests,
           Answered(r) \/ GiveUp(r) \/ Exhausted(r)
    PROVE  QuestInv'
<1>t. TypeOK /\ Sharing /\ RightQuestion /\ Own
  BY DEF LeadInv, ServeInv, QuestInv
<1>u. /\ UNCHANGED <<task, joined>> /\ pc[r] \in {"loop", "call"}
      /\ \A q \in Requests : q # r => pc'[q] = pc[q] /\ result'[q] = result[q] /\ status'[q] = status[q]
  BY <1>t DEF Answered, GiveUp, Exhausted, Goto, Result, Status, calls, TypeOK
<1>r. result'[r] \in Descriptions => result'[r].by = r
  BY <1>t DEF Answered, GiveUp, Exhausted, Result, TypeOK
<1>e. \A k \in Keys : exact'[k] = exact[k] \/ (k = task[r] /\ exact'[k].by = r)
  <2>1. CASE Answered(r)
    <3>1. result'[r].by = r
      BY <1>t, <2>1 DEF Answered, Result, TypeOK
    <3> QED BY <1>t, <2>1, <3>1 DEF Answered, TypeOK
  <2>2. CASE GiveUp(r) \/ Exhausted(r)
    BY <2>2 DEF GiveUp, Exhausted
  <2> QED BY <2>1, <2>2
<1>1. RightQuestion'
  <2>1. \A q \in Requests : q # r /\ FromStable(q) => FromStable(q)'
    BY <1>u, StaysServed
  <2>2. \A k \in Keys : exact'[k] # None => task[exact'[k].by] = k
    BY <1>t, <1>e DEF RightQuestion
  <2>3. \A q \in Requests : result'[q] \in Descriptions =>
          task[result'[q].by] = task[q] \/ (q # r /\ FromStable(q))
    BY <1>t, <1>u, <1>r DEF RightQuestion
  <2> QED BY <1>u, <2>1, <2>2, <2>3 DEF RightQuestion
<1>2. Own'
  <2>1. \A q \in Requests : pc'[q] = "leave" /\ result'[q] \in Descriptions => result'[q].by = q
    BY <1>t, <1>u, <1>r DEF Own
  <2>2. ASSUME NEW q \in Requests, joined[q] # None, result'[joined[q]] \in Descriptions
        PROVE  result'[joined[q]].by = joined[q]
    <3>1. joined[q] \in Requests
      BY <1>t, <2>2 DEF TypeOK
    <3> QED BY <1>t, <1>u, <1>r, <2>2, <3>1 DEF Own
  <2> QED BY <1>u, <2>1, <2>2 DEF Own
<1> QED BY <1>1, <1>2 DEF QuestInv

\* The other steps of the candidate loop, the end of a flight, the stable write,
\* an eviction and the host.
LEMMA OtherQuest ==
    ASSUME LeadInv, ServeInv, QuestInv,
           \/ \E r \in Requests :
                \/ Skip(r) \/ BeginCall(r) \/ RefuseCall(r) \/ FallBack(r)
                \/ FinishFlight(r) \/ Store(r)
           \/ Evict \/ UpstreamEnds \/ UNCHANGED vars
    PROVE  QuestInv'
<1>t. TypeOK /\ Sharing
  BY DEF LeadInv, ServeInv
<1>1. UNCHANGED <<task, joined, result>>
  BY DEF Skip, BeginCall, RefuseCall, FallBack, FinishFlight, Store, Evict, UpstreamEnds, vars
<1>2. \A k \in Keys : exact'[k] \in {exact[k], None}
  BY <1>t DEF Skip, BeginCall, RefuseCall, FallBack, FinishFlight, Store, Evict, UpstreamEnds,
              vars, TypeOK
<1>3. \A q \in Requests : pc'[q] = "leave" => pc[q] = "leave"
  BY <1>t DEF Skip, BeginCall, RefuseCall, FallBack, FinishFlight, Store, Evict, UpstreamEnds,
              vars, Goto, TypeOK
<1>4. ASSUME NEW q \in Requests, NEW c \in Candidates, result[q] # None
      PROVE  status'[q][c] = status[q][c]
  <2>1. ~(pc[q] \in {"loop", "call"})
    BY <1>t, <1>4 DEF Sharing
  <2>2. CASE \E r \in Requests : BeginCall(r) \/ RefuseCall(r) \/ FallBack(r)
    BY <1>t, <2>1, <2>2 DEF BeginCall, RefuseCall, FallBack, Status, TypeOK
  <2>3. CASE UNCHANGED status
    BY <2>3
  <2> QED BY <2>2, <2>3 DEF Skip, FinishFlight, Store, Evict, UpstreamEnds, vars, calls
<1> QED BY <1>1, <1>2, <1>3, <1>4, QuietQuest

\* A text answers the question it was extracted for in every state.
THEOREM QuestInvariance == Spec => []QuestInv
<1>1. LeadInv /\ ServeInv /\ QuestInv /\ [Next]_vars => QuestInv'
  <2> SUFFICES ASSUME LeadInv, ServeInv, QuestInv, [Next]_vars PROVE QuestInv'
    OBVIOUS
  <2>1. CASE \E r \in Requests : Plugin(r) \/ CallReturns(r)
    <3>1. PICK r \in Requests : Plugin(r) \/ CallReturns(r)
      BY <2>1
    <3>2. CASE ExactGet(r) \/ StableGet(r) \/ Join(r)
      BY <3>2, GivenQuest
    <3>3. CASE Enter(r)
      BY <3>3, EnterQuest
    <3>4. CASE Answered(r) \/ GiveUp(r) \/ Exhausted(r)
      BY <3>4, LeaveQuest
    <3>5. CASE \/ Skip(r) \/ BeginCall(r) \/ RefuseCall(r) \/ FallBack(r)
               \/ FinishFlight(r) \/ Store(r)
      BY <3>5, OtherQuest
    <3> QED BY <3>1, <3>2, <3>3, <3>4, <3>5 DEF Plugin, CallReturns
  <2>2. CASE Evict \/ UpstreamEnds \/ Terminated \/ UNCHANGED vars
    BY <2>2, OtherQuest DEF Terminated
  <2> QED BY <2>1, <2>2 DEF Next
<1> QED BY <1>1, InitQuestInv, ServeInvariance, PTL DEF Spec

\* The invariant that the runs check.
THEOREM ChainInvariance == Spec => []ChainInv
<1>1. LeadInv /\ ServeInv /\ QuestInv => ChainInv
  BY DEF ServeInv, QuestInv, ChainInv
<1> QED BY <1>1, ServeInvariance, QuestInvariance, PTL

\* A description is returned and remembered only for the image it was extracted
\* from (bridge.go:78, 114; image_transform.go:235, 247).
THEOREM RightImages == Spec => []RightImage
<1>1. LeadInv /\ ServeInv => RightImage
  BY DEF ServeInv
<1> QED BY <1>1, ServeInvariance, PTL

\* A text answers the question it was extracted for, except from the stable
\* memory and never to a request to look again (bridge.go:64-78; cache.go:138-159).
THEOREM RightQuestions == Spec => []RightQuestion
<1>1. QuestInv => RightQuestion
  BY DEF QuestInv
<1> QED BY <1>1, QuestInvariance, PTL

\* A request to look again is served by an extraction of its own text that ran
\* during the request (bridge.go:64-77).
THEOREM FreshReanalyses == Spec => []FreshReanalysis
<1>1. LeadInv /\ ServeInv => FreshReanalysis
  BY DEF ServeInv
<1> QED BY <1>1, ServeInvariance, PTL

\* A request fails only when its leader has no usable candidate left, or a call
\* of its leader whose end is uncertain (bridge.go:96-107, 119-122).
THEOREM Failures == Spec => []FailsLast
<1>1. LeadInv /\ ServeInv => FailsLast
  BY DEF ServeInv
<1> QED BY <1>1, ServeInvariance, PTL

\* What a step does to the one call it may touch, in the words of VisionCall.
LEMMA CallSteps ==
    ASSUME LeadInv, Tried, [Next]_vars, NEW r \in Requests, NEW c \in Candidates
    PROVE  Call(r, c)!Next \/ UNCHANGED Call(r, c)!vars
<1>t. TypeOK /\ Tried /\ Ordered /\ Calling
  BY DEF LeadInv
<1>f. /\ status \in [Requests -> [Candidates -> {"idle", "running"} \cup Outcomes]]
      /\ upstream \in [Requests -> [Candidates -> {"none", "live", "ended"}]]
  BY <1>t DEF TypeOK
<1>1. CASE status'[r][c] = status[r][c] /\ upstream'[r][c] = upstream[r][c]
  BY <1>1 DEF Call!vars
<1>2. ASSUME NEW q \in Requests, Plugin(q) \/ CallReturns(q)
      PROVE  Call(r, c)!Next \/ UNCHANGED Call(r, c)!vars
  <2>1. CASE UNCHANGED calls
    BY <1>1, <2>1 DEF calls
  <2>2. CASE BeginCall(q) \/ RefuseCall(q)
    <3>1. at[q] \in Candidates /\ status[q][at[q]] = "idle" /\ upstream[q][at[q]] = "none"
      BY <1>t, <2>2, KeyTypes DEF BeginCall, RefuseCall, Ordered
    <3>2. CASE q = r /\ c = at[q]
      <4>1. CASE BeginCall(q)
        <5>1. status'[r][c] = "running" /\ upstream'[r][c] = "live"
          BY <1>f, <3>1, <3>2, <4>1 DEF BeginCall, Status
        <5>2. Call(r, c)!Begin
          BY <3>1, <3>2, <5>1 DEF Call!Begin, Outcomes
        <5> QED BY <5>2 DEF Call!Next
      <4>2. CASE RefuseCall(q)
        <5>1. status'[r][c] = "error" /\ upstream'[r][c] = "none"
          BY <1>f, <3>1, <3>2, <4>2 DEF RefuseCall, Status
        <5>2. Call(r, c)!Refuse
          BY <3>1, <3>2, <5>1 DEF Call!Refuse, Outcomes
        <5> QED BY <5>2 DEF Call!Next
      <4> QED BY <2>2, <4>1, <4>2
    <3>3. CASE ~(q = r /\ c = at[q])
      BY <1>1, <1>f, <2>2, <3>1, <3>3 DEF BeginCall, RefuseCall, Status
    <3> QED BY <3>2, <3>3
  <2>3. CASE CallReturns(q)
    <3>1. /\ pc[q] = "call" /\ upstream' = upstream
          /\ \E o \in Outcomes :
               /\ Status(q, at[q], o)
               /\ o \in {"text", "timeout"} => upstream[q][at[q]] = "ended"
      BY <2>3 DEF CallReturns, Answered, GiveUp, FallBack, Outcomes
    <3>2. /\ at[q] \in Candidates /\ status[q][at[q]] = "running"
          /\ upstream[q][at[q]] # "none"
      BY <1>t, <3>1 DEF Calling, Tried
    <3>3. PICK o \in Outcomes :
            /\ Status(q, at[q], o)
            /\ o \in {"text", "timeout"} => upstream[q][at[q]] = "ended"
      BY <3>1
    <3>4. CASE q = r /\ c = at[q]
      <4>1. status'[r][c] = o /\ upstream'[r][c] = upstream[r][c]
        BY <1>f, <3>1, <3>2, <3>3, <3>4 DEF Status
      <4>2. Call(r, c)!Finish(o)
        BY <3>2, <3>3, <3>4, <4>1 DEF Call!Finish, Call!Certain
      <4>3. o \in Call(r, c)!Outcomes
        BY DEF Outcomes, Call!Outcomes
      <4> QED BY <4>2, <4>3 DEF Call!Next
    <3>5. CASE ~(q = r /\ c = at[q])
      BY <1>1, <1>f, <3>1, <3>2, <3>3, <3>5 DEF Status
    <3> QED BY <3>4, <3>5
  <2> QED BY <1>2, <2>1, <2>2, <2>3
          DEF Plugin, ExactGet, StableGet, Enter, Join, Skip, Exhausted, FinishFlight, Store
<1>3. CASE UpstreamEnds
  <2>1. status' = status
    BY <1>3 DEF UpstreamEnds
  <2>2. CASE upstream'[r][c] = upstream[r][c]
    BY <1>1, <2>1, <2>2
  <2>3. CASE upstream'[r][c] # upstream[r][c]
    <3>1. upstream[r][c] = "live" /\ upstream'[r][c] = "ended"
      BY <1>3, <1>f, <2>3 DEF UpstreamEnds
    <3>2. Call(r, c)!UpstreamEnds
      BY <2>1, <3>1 DEF Call!UpstreamEnds
    <3> QED BY <3>2 DEF Call!Next
  <2> QED BY <2>2, <2>3
<1>4. CASE Evict \/ Terminated \/ UNCHANGED vars
  BY <1>1, <1>4 DEF Evict, Terminated, vars, calls
<1> QED BY <1>2, <1>3, <1>4 DEF Next

\* Every call of a candidate starts as VisionCall does and takes its steps
\* (bridge.go:95, vision_stream.go:63).
THEOREM VisionCalls == Spec => MakesVisionCalls
<1>1. Init => \A r \in Requests, c \in Candidates : Call(r, c)!Init
  BY DEF Init, Call!Init, Outcomes
<1>2. LeadInv /\ ServeInv /\ [Next]_vars =>
        [\A r \in Requests, c \in Candidates : Call(r, c)!Next \/ UNCHANGED Call(r, c)!vars]_vars
  BY CallSteps DEF ServeInv
<1> QED BY <1>1, <1>2, ServeInvariance, PTL DEF Spec, MakesVisionCalls
=============================================================================
