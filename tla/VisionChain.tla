----------------------------- MODULE VisionChain -----------------------------
(***************************************************************************)
(* describeImage of src/bridge.go run by concurrent requests over one      *)
(* memoCache: the exact and the stable memory of an image, the single      *)
(* flight per exact key, and the candidate chain with its fallback.  A     *)
(* request carries one image; the write of the stable memory that          *)
(* transformRequestWithPlanAndMediaHint makes when its images are resolved *)
(* (src/image_transform.go:245-249) closes the request.                    *)
(*                                                                         *)
(* A call of a candidate takes the steps of VisionCall, which VisionStream *)
(* implements.  A description is abstracted to the request that had it     *)
(* extracted and the candidate that wrote it.                              *)
(***************************************************************************)
EXTENDS Naturals

CONSTANTS
    Requests,
    Images,
    Inline,             \* the images that are data: URLs; only they have keys
    Contexts,           \* user texts near an image
    Reanalysis,         \* those that explicitly ask to look again
    ChainLength,        \* number of configured VisionModels
    Usable,             \* Usable[x]: active candidates whose budget fits text x
    Tasks,              \* the image and text a request may be about
    ErrorEndsUpstream,  \* as in VisionStream
    None,               \* no flight, no memory, no result yet
    Failed              \* the result of a request no candidate could serve

Candidates == 1..ChainLength
Keys == [img : Inline, ctx : Contexts]
Descriptions == [by : Requests, model : Candidates]

ASSUME ImagesAssumption == Inline \subseteq Images /\ Reanalysis \subseteq Contexts
ASSUME ChainAssumption == ChainLength \in Nat /\ Usable \in [Contexts -> SUBSET Candidates]
ASSUME TasksAssumption == Tasks \subseteq [img : Images, ctx : Contexts]
ASSUME ErrorEndsUpstreamAssumption == ErrorEndsUpstream \in BOOLEAN
ASSUME MarkersAssumption ==
    None # Failed /\ {None, Failed} \cap (Descriptions \cup Requests) = {}

VARIABLES
    task,       \* what each request is about
    pc,         \* where describeImage is
    at,         \* index of the candidate loop
    joined,     \* the request whose flight a joiner waits for
    result,     \* what describeImage returns
    flights,    \* memoCache.flights: the leader of the flight of an exact key
    exact,      \* memory under visualCacheKey
    stable,     \* memory under stableVisualCacheKey
    status,     \* what a request knows of its call of each candidate
    upstream    \* what the host runs for that call

calls == <<status, upstream>>
vars == <<task, pc, at, joined, result, flights, exact, stable, calls>>

Outcomes == {"text", "timeout", "unconfirmed", "error"}

TypeOK ==
    /\ task \in [Requests -> Tasks]
    /\ pc \in [Requests -> {"exact", "stable", "enter", "wait", "loop", "call",
                            "leave", "store", "done"}]
    /\ at \in [Requests -> 1..(ChainLength + 1)]
    /\ joined \in [Requests -> Requests \cup {None}]
    /\ result \in [Requests -> Descriptions \cup {None, Failed}]
    /\ flights \in [Keys -> Requests \cup {None}]
    /\ exact \in [Keys -> Descriptions \cup {None}]
    /\ stable \in [Inline -> Descriptions \cup {None}]
    /\ status \in [Requests -> [Candidates -> {"idle", "running"} \cup Outcomes]]
    /\ upstream \in [Requests -> [Candidates -> {"none", "live", "ended"}]]

Init ==
    /\ task \in [Requests -> Tasks]
    /\ pc = [r \in Requests |-> "exact"]
    /\ at = [r \in Requests |-> 1]
    /\ joined = [r \in Requests |-> None]
    /\ result = [r \in Requests |-> None]
    /\ flights = [k \in Keys |-> None]
    /\ exact = [k \in Keys |-> None]
    /\ stable = [i \in Inline |-> None]
    /\ status = [r \in Requests |-> [c \in Candidates |-> "idle"]]
    /\ upstream = [r \in Requests |-> [c \in Candidates |-> "none"]]

-----------------------------------------------------------------------------

Goto(r, label) == pc' = [pc EXCEPT ![r] = label]
Result(r, v) == result' = [result EXCEPT ![r] = v]
Keyed(r) == task[r].img \in Inline
LooksAgain(r) == task[r].ctx \in Reanalysis

\* cache.get of the exact key, skipped for a reanalysis.
ExactGet(r) ==
    /\ pc[r] = "exact"
    /\ IF Keyed(r) /\ ~LooksAgain(r) /\ exact[task[r]] # None
       THEN Result(r, exact[task[r]]) /\ Goto(r, "store")
       ELSE UNCHANGED result /\ Goto(r, "stable")
    /\ UNCHANGED <<task, at, joined, flights, exact, stable, calls>>

\* Mutant of StableGet: a reanalysis takes the stable memory.
StableGetAlways(r) ==
    /\ pc[r] = "stable"
    /\ IF Keyed(r) /\ stable[task[r].img] # None
       THEN Result(r, stable[task[r].img]) /\ Goto(r, "store")
       ELSE UNCHANGED result /\ Goto(r, "enter")
    /\ UNCHANGED <<task, at, joined, flights, exact, stable, calls>>

\* cache.get of the stable key, skipped for a reanalysis.
StableGet(r) ==
    /\ pc[r] = "stable"
    /\ IF Keyed(r) /\ ~LooksAgain(r) /\ stable[task[r].img] # None
       THEN Result(r, stable[task[r].img]) /\ Goto(r, "store")
       ELSE UNCHANGED result /\ Goto(r, "enter")
    /\ UNCHANGED <<task, at, joined, flights, exact, stable, calls>>

\* Mutant of Enter: the flight is registered without a look at the map.
EnterUnchecked(r) ==
    /\ pc[r] = "enter"
    /\ IF Keyed(r) THEN flights' = [flights EXCEPT ![task[r]] = r] ELSE UNCHANGED flights
    /\ Goto(r, "loop")
    /\ UNCHANGED <<task, at, joined, result, exact, stable, calls>>

\* Mutant of Enter: a flight is shared by all who ask about the image.
EnterByImage(r) ==
    /\ pc[r] = "enter"
    /\ \/ ~Keyed(r) /\ Goto(r, "loop") /\ UNCHANGED <<flights, joined>>
       \/ \E k \in Keys :
            /\ Keyed(r) /\ k.img = task[r].img /\ flights[k] # None
            /\ joined' = [joined EXCEPT ![r] = flights[k]]
            /\ Goto(r, "wait")
            /\ UNCHANGED flights
       \/ /\ Keyed(r) /\ \A k \in Keys : k.img = task[r].img => flights[k] = None
          /\ flights' = [flights EXCEPT ![task[r]] = r]
          /\ Goto(r, "loop")
          /\ UNCHANGED joined
    /\ UNCHANGED <<task, at, result, exact, stable, calls>>

\* memoCache.do up to fn: lead without a key, join the flight of the key, or lead.
Enter(r) ==
    /\ pc[r] = "enter"
    /\ \/ ~Keyed(r) /\ Goto(r, "loop") /\ UNCHANGED <<flights, joined>>
       \/ /\ Keyed(r) /\ flights[task[r]] # None
          /\ joined' = [joined EXCEPT ![r] = flights[task[r]]]
          /\ Goto(r, "wait")
          /\ UNCHANGED flights
       \/ /\ Keyed(r) /\ flights[task[r]] = None
          /\ flights' = [flights EXCEPT ![task[r]] = r]
          /\ Goto(r, "loop")
          /\ UNCHANGED joined
    /\ UNCHANGED <<task, at, result, exact, stable, calls>>

\* <-flight.done, closed by the leader's FinishFlight.
Join(r) ==
    /\ pc[r] = "wait" /\ pc[joined[r]] \in {"store", "done"}
    /\ Result(r, result[joined[r]])
    /\ Goto(r, "store")
    /\ UNCHANGED <<task, at, joined, flights, exact, stable, calls>>

-----------------------------------------------------------------------------
\* The candidate loop.

Status(r, c, s) == status' = [status EXCEPT ![r][c] = s]

\* The candidate is inactive or the projected input exceeds its budget.
Skip(r) ==
    /\ pc[r] = "loop" /\ at[r] \in Candidates \ Usable[task[r].ctx]
    /\ at' = [at EXCEPT ![r] = @ + 1]
    /\ UNCHANGED <<task, pc, joined, result, flights, exact, stable, calls>>

\* The host returned a stream id.
BeginCall(r) ==
    /\ pc[r] = "loop" /\ at[r] \in Usable[task[r].ctx]
    /\ Status(r, at[r], "running")
    /\ upstream' = [upstream EXCEPT ![r][at[r]] = "live"]
    /\ Goto(r, "call")
    /\ UNCHANGED <<task, at, joined, result, flights, exact, stable>>

\* The host refused the call: the loop goes on.  A start that fails is taken to
\* leave no upstream request (vision_stream.go:77-97).
RefuseCall(r) ==
    /\ pc[r] = "loop" /\ at[r] \in Usable[task[r].ctx]
    /\ Status(r, at[r], "error")
    /\ at' = [at EXCEPT ![r] = @ + 1]
    /\ UNCHANGED <<task, pc, joined, result, flights, exact, stable, upstream>>

\* A text is written to the exact memory before the flight ends.
Answered(r) ==
    /\ pc[r] = "call" /\ upstream[r][at[r]] = "ended"
    /\ Status(r, at[r], "text")
    /\ Result(r, [by |-> r, model |-> at[r]])
    /\ IF Keyed(r) THEN exact' = [exact EXCEPT ![task[r]] = result'[r]] ELSE UNCHANGED exact
    /\ Goto(r, "leave")
    /\ UNCHANGED <<task, at, joined, flights, stable, upstream>>

\* Mutants of GiveUp: an unconfirmed cancellation falls back like an error; a
\* confirmed timeout ends the chain too.
GiveUpNever(r) ==
    /\ pc[r] = "call"
    /\ Status(r, at[r], "unconfirmed")
    /\ at' = [at EXCEPT ![r] = @ + 1]
    /\ Goto(r, "loop")
    /\ UNCHANGED <<task, joined, result, flights, exact, stable, upstream>>
GiveUpOnTimeout(r) ==
    /\ pc[r] = "call"
    /\ \E s \in {"unconfirmed", "timeout"} : Status(r, at[r], s)
    /\ Result(r, Failed)
    /\ Goto(r, "leave")
    /\ UNCHANGED <<task, at, joined, flights, exact, stable, upstream>>

\* The cancellation could not be confirmed: no other candidate is tried.
GiveUp(r) ==
    /\ pc[r] = "call"
    /\ Status(r, at[r], "unconfirmed")
    /\ Result(r, Failed)
    /\ Goto(r, "leave")
    /\ UNCHANGED <<task, at, joined, flights, exact, stable, upstream>>

\* Mutant of FallBack: the end of the upstream request is not waited for.
FallBackEarly(r) ==
    /\ pc[r] = "call"
    /\ \E s \in {"timeout", "error"} : Status(r, at[r], s)
    /\ at' = [at EXCEPT ![r] = @ + 1]
    /\ Goto(r, "loop")
    /\ UNCHANGED <<task, joined, result, flights, exact, stable, upstream>>

\* A confirmed timeout or any other error: the next candidate is tried.
FallBack(r) ==
    /\ pc[r] = "call"
    /\ \E s \in {"timeout", "error"} :
         /\ s = "timeout" \/ ErrorEndsUpstream => upstream[r][at[r]] = "ended"
         /\ Status(r, at[r], s)
    /\ at' = [at EXCEPT ![r] = @ + 1]
    /\ Goto(r, "loop")
    /\ UNCHANGED <<task, joined, result, flights, exact, stable, upstream>>

\* Every candidate was tried or skipped: the last error is the result.
Exhausted(r) ==
    /\ pc[r] = "loop" /\ at[r] > ChainLength
    /\ Result(r, Failed)
    /\ Goto(r, "leave")
    /\ UNCHANGED <<task, at, joined, flights, exact, stable, calls>>

-----------------------------------------------------------------------------

\* Mutant of FinishFlight: only a successful flight is removed.
FinishFlightIfGood(r) ==
    /\ pc[r] = "leave" /\ ~(Keyed(r) /\ result[r] = Failed)
    /\ IF Keyed(r) THEN flights' = [flights EXCEPT ![task[r]] = None] ELSE UNCHANGED flights
    /\ Goto(r, "store")
    /\ UNCHANGED <<task, at, joined, result, exact, stable, calls>>

\* memoCache.do after fn: the flight leaves the map and its joiners are released.
FinishFlight(r) ==
    /\ pc[r] = "leave"
    /\ IF Keyed(r) THEN flights' = [flights EXCEPT ![task[r]] = None] ELSE UNCHANGED flights
    /\ Goto(r, "store")
    /\ UNCHANGED <<task, at, joined, result, exact, stable, calls>>

\* Mutants of Store: the placeholder of a failed image is stored; a reanalysed
\* image of another request is written.
StoreFailed(r) ==
    /\ pc[r] = "store"
    /\ IF Keyed(r) THEN stable' = [stable EXCEPT ![task[r].img] = result[r]] ELSE UNCHANGED stable
    /\ Goto(r, "done")
    /\ UNCHANGED <<task, at, joined, result, flights, exact, calls>>
StoreEverywhere(r) ==
    /\ pc[r] = "store"
    /\ IF Keyed(r) /\ result[r] # Failed
       THEN stable' = [i \in Inline |-> result[r]] ELSE UNCHANGED stable
    /\ Goto(r, "done")
    /\ UNCHANGED <<task, at, joined, result, flights, exact, calls>>

\* The transformation stores what was described, hit or extracted, as the stable
\* memory; the placeholder of a failed image is not cacheable.
Store(r) ==
    /\ pc[r] = "store"
    /\ IF Keyed(r) /\ result[r] # Failed
       THEN stable' = [stable EXCEPT ![task[r].img] = result[r]] ELSE UNCHANGED stable
    /\ Goto(r, "done")
    /\ UNCHANGED <<task, at, joined, result, flights, exact, calls>>

\* An entry expires or is the least recently used one.
Evict ==
    /\ \/ \E k \in Keys : exact[k] # None /\ exact' = [exact EXCEPT ![k] = None] /\ UNCHANGED stable
       \/ \E i \in Inline : stable[i] # None /\ stable' = [stable EXCEPT ![i] = None] /\ UNCHANGED exact
    /\ UNCHANGED <<task, pc, at, joined, result, flights, calls>>

\* The host ends an upstream request, also one whose call has returned.
UpstreamEnds ==
    /\ \E r \in Requests, c \in Candidates :
         /\ upstream[r][c] = "live"
         /\ upstream' = [upstream EXCEPT ![r][c] = "ended"]
    /\ UNCHANGED <<task, pc, at, joined, result, flights, exact, stable, status>>

Terminated == (\A r \in Requests : pc[r] = "done") /\ UNCHANGED vars

CallReturns(r) == Answered(r) \/ GiveUp(r) \/ FallBack(r)

Plugin(r) ==
    \/ ExactGet(r) \/ StableGet(r) \/ Enter(r) \/ Join(r)
    \/ Skip(r) \/ BeginCall(r) \/ RefuseCall(r) \/ Exhausted(r)
    \/ FinishFlight(r) \/ Store(r)

Next ==
    \/ \E r \in Requests : Plugin(r) \/ CallReturns(r)
    \/ Evict \/ UpstreamEnds
    \/ Terminated

\* A goroutine that can run does, the host answers a start request, and an open
\* call returns: VisionStream!ReturnsInTime.
Fairness == \A r \in Requests : WF_vars(Plugin(r)) /\ WF_vars(CallReturns(r))

Spec == Init /\ [][Next]_vars
FairSpec == Spec /\ Fairness

-----------------------------------------------------------------------------
\* Properties.

\* At most one request at a time extracts the image and text of one exact key;
\* every other one is served by its flight or by a memory (cache.go:143-159).
OneLeader ==
    \A r, s \in Requests :
        /\ r # s /\ Keyed(r) /\ task[r] = task[s]
        => ~({pc[r], pc[s]} \subseteq {"loop", "call", "leave"})

Describes(v, img) ==
    /\ v \in Descriptions
    /\ task[v.by].img = img
    /\ status[v.by][v.model] = "text"

\* A description is returned, and remembered, only for the image it was
\* extracted from, by a call that ended in a text: not for another image a
\* flight or a memory is shared with, and never the placeholder of a failure
\* (bridge.go:78, 114; image_transform.go:235, 247).  It says nothing of the
\* question; RightQuestion does.
RightImage ==
    /\ \A r \in Requests : result[r] \notin {None, Failed} => Describes(result[r], task[r].img)
    /\ \A k \in Keys : exact[k] # None => Describes(exact[k], k.img)
    /\ \A i \in Inline : stable[i] # None => Describes(stable[i], i)

\* The stable memory may have answered r: a plain question that waited for no
\* flight and called no candidate.
FromStable(r) ==
    /\ Keyed(r) /\ ~LooksAgain(r)
    /\ joined[r] = None
    /\ \A c \in Candidates : status[r][c] = "idle"

\* What is remembered under an exact key was extracted for its text too, and a
\* request that an exact memory, a flight or its own call served has a text for
\* its own question.  Only the stable memory answers another one, on purpose and
\* never one that asks to look again (bridge.go:64-78; cache.go:138-159).
RightQuestion ==
    /\ \A k \in Keys : exact[k] # None => task[exact[k].by] = k
    /\ \A r \in Requests : result[r] \in Descriptions =>
         task[result[r].by] = task[r] \/ FromStable(r)

\* A request that asks to look again is served by an extraction for its own
\* text that was running or started during the request, never by a memory
\* (bridge.go:64-77).
FreshReanalysis ==
    \A r \in Requests : LooksAgain(r) /\ result[r] \in Descriptions =>
        /\ result[r].by \in {r, joined[r]}
        /\ task[result[r].by].ctx = task[r].ctx

\* A candidate is called only when the upstream requests of the candidates
\* before it are over: one request never pays for two at a time (plugin.go:161,
\* vision_stream.go:59-62).
NoOverlap ==
    \A r \in Requests, c, d \in Candidates :
        c < d /\ status[r][d] # "idle" => upstream[r][c] # "live"

\* The request whose candidates were called for r.
Server(r) == IF joined[r] = None THEN r ELSE joined[r]

\* A request fails only when no usable candidate is left, or when the state of
\* the last one called is uncertain (bridge.go:96-107, 119-122).
FailsLast ==
    \A r \in Requests : result[r] = Failed =>
        \/ \A c \in Usable[task[Server(r)].ctx] : status[Server(r)][c] \in {"timeout", "error"}
        \/ \E c \in Candidates : status[Server(r)][c] = "unconfirmed"

\* Every call of a candidate is a VisionCall, the promise that VisionStream
\* keeps: the two modules fit together (bridge.go:95, vision_stream.go:63).
Call(r, c) == INSTANCE VisionCall WITH
    status   <- status[r][c],
    upstream <- upstream[r][c],
    asked    <- status[r][c] \in Outcomes /\ upstream[r][c] # "none"

MakesVisionCalls ==
    /\ \A r \in Requests, c \in Candidates : Call(r, c)!Init
    /\ [][\A r \in Requests, c \in Candidates :
             Call(r, c)!Next \/ UNCHANGED Call(r, c)!vars]_vars

\* Every request is answered, those that wait for another one's flight included
\* (cache.go:144-147).
AllAnswered == \A r \in Requests : <>(pc[r] = "done")

-----------------------------------------------------------------------------
\* The inductive invariant behind these, in named parts: who leads and which
\* candidates are over, and then whom a request is served by.

\* A joiner knows whose flight it waits for.
Waiting == \A r \in Requests : pc[r] = "wait" => joined[r] \in Requests

\* Whoever is inside a keyed flight is the one the map names.
Leading ==
    \A r \in Requests :
        Keyed(r) /\ pc[r] \in {"loop", "call", "leave"} => flights[task[r]] = r

\* Candidates after the index are untouched, and so is the one at the index
\* until it is called; those before it are over.
Ordered ==
    \A r \in Requests, c \in Candidates :
        /\ c > at[r] \/ (c = at[r] /\ pc[r] \in {"exact", "stable", "enter", "wait", "loop"})
             => status[r][c] = "idle" /\ upstream[r][c] = "none"
        /\ c < at[r] /\ ErrorEndsUpstream => upstream[r][c] # "live"

\* A request in a call has a candidate.
Calling == \A r \in Requests : pc[r] = "call" => at[r] \in Candidates

LeadInv == TypeOK /\ Waiting /\ Leading /\ Calling /\ Ordered

\* The call at the index runs, and the usable candidates before it have failed.
Tried ==
    \A r \in Requests :
        /\ pc[r] \in {"exact", "stable", "enter"} => at[r] = 1
        /\ pc[r] = "call" => status[r][at[r]] = "running" /\ upstream[r][at[r]] # "none"
        /\ pc[r] \in {"loop", "call"} =>
             \A c \in Usable[task[r].ctx] : c < at[r] => status[r][c] \in {"timeout", "error"}

\* A flight is that of a request with its key, which is inside.
Flying ==
    \A k \in Keys : flights[k] # None =>
        task[flights[k]] = k /\ pc[flights[k]] \in {"loop", "call", "leave"}

\* A request has joined a leader of its own key, who joined nobody, and has no
\* result before that leader does.
Sharing ==
    \A r \in Requests :
        /\ pc[r] = "wait" => joined[r] # None
        /\ joined[r] # None =>
             /\ pc[r] \in {"wait", "store", "done"}
             /\ joined[joined[r]] = None /\ task[joined[r]] = task[r]
             /\ pc[joined[r]] \in {"loop", "call", "leave", "store", "done"}
             /\ pc[r] # "wait" => pc[joined[r]] \in {"store", "done"}
        /\ result[r] = None <=> pc[r] \in {"exact", "stable", "enter", "wait", "loop", "call"}

\* Whoever leads a flight returns what it extracted itself.
Own ==
    \A r \in Requests :
        /\ pc[r] = "leave" /\ result[r] \in Descriptions => result[r].by = r
        /\ joined[r] # None /\ result[joined[r]] \in Descriptions =>
             result[joined[r]].by = joined[r]

ChainInv == LeadInv /\ Tried /\ Flying /\ Sharing /\ Own
=============================================================================
