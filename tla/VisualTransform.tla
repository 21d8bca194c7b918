-------------------------- MODULE VisualTransform --------------------------
(***************************************************************************)
(* transformRequestWithPlanAndMediaHint of src/image_transform.go for one  *)
(* request whose media inspection found images and no unsupported media:   *)
(* the checks before any upstream call, the pool of workers that describe  *)
(* the chosen images (an unbuffered channel of jobs fed by a goroutine, a  *)
(* buffered channel of results), the collector with its early return, and  *)
(* the writes to the stable memory, which other requests use meanwhile.    *)
(*                                                                         *)
(* describe is describeImage, which VisionChain models: it returns a text  *)
(* for the image it was given (RightImage there) or an error.  A           *)
(* description is the image it is of and the asset it was made for, 0 when *)
(* another request made it.                                                *)
(***************************************************************************)
EXTENDS ImageSelection

CONSTANTS
    Requests,       \* the requests that may come
    Configs,        \* the configurations they may meet
    Images,         \* image contents
    Keyed,          \* those sent as data: URLs that a description was stored for
    MaxAssets,      \* most images in a request
    Length,         \* Length[i]: size of the memory of i in a request
    MemoryBudget,   \* historicalVisualMemoryTotalChars
    MaxWorkers,     \* largest max_concurrent_extractions
    None, Failed, Marker, Short

Numbers == 1..MaxAssets
Workers == 1..MaxWorkers
Descriptions == [of : Images, by : Numbers \cup {0}]

ASSUME RequestsAssumption ==
    \A r \in Requests :
        /\ Len(r.images) <= MaxAssets
        /\ r.items \in Seq([user : BOOLEAN, result : BOOLEAN, text : SUBSET Marks])
        /\ r.images \in Seq([at : DOMAIN r.items, kind : Kinds, img : Images])
        /\ \A a, b \in DOMAIN r.images : a < b => r.images[a].at <= r.images[b].at
        /\ \A a \in DOMAIN r.images :
              r.images[a].kind \in {"inline", "remote"} =>
                (r.images[a].img \in Keyed <=> r.images[a].kind = "inline")
ASSUME ConfigsAssumption ==
    Configs \subseteq [retain : BOOLEAN, textOnly : BOOLEAN, max : Nat \ {0},
                       restore : Nat \ {0}, workers : Workers]
ASSUME MemoryAssumption ==
    /\ Keyed \subseteq Images /\ Length \in [Images -> Nat] /\ MemoryBudget \in Nat
    /\ MaxWorkers \in Nat /\ MaxAssets \in Nat
ASSUME MarkersAssumption ==
    /\ None \notin {Failed, Marker, Short} /\ Failed \notin {Marker, Short} /\ Marker # Short
    /\ {None, Failed, Marker, Short} \cap Descriptions = {}

VARIABLES
    request, cfg,
    pc,         \* of the request's goroutine
    full,       \* the images to resolve, once they are chosen
    queue,      \* jobs the feeder still holds
    closed,     \* close(jobs)
    wpc, job,   \* the workers and the job of each
    results,    \* the channel of results
    resolved,   \* resolvedDescriptions
    memory,     \* stable memories, shared with other requests
    body        \* what stands where each image was; None: the image

pool == <<queue, closed, wpc, job>>
vars == <<request, cfg, pc, full, pool, results, resolved, memory, body>>

ImageOf(a) == request.images[a].img
Remembers(a) == ImageOf(a) \in Keyed /\ memory[ImageOf(a)] # None

TypeOK ==
    /\ request \in Requests /\ cfg \in Configs
    /\ pc \in {"plan", "collect", "finish", "sent", "failed", "refused"}
    /\ full \subseteq Assets(request) /\ queue \subseteq full /\ closed \in BOOLEAN
    /\ wpc \in [Workers -> {"off", "range", "describe", "text", "error", "ended"}]
    /\ job \in [Workers -> Numbers \cup {0}]
    /\ results \in Seq([asset : Numbers, ok : BOOLEAN])
    /\ resolved \in [Assets(request) -> Descriptions \cup {None, Failed}]
    /\ memory \in [Keyed -> Descriptions \cup {None}]
    /\ body \in [Assets(request) -> Descriptions \cup {None, Failed, Marker, Short}]

Init ==
    /\ request \in Requests /\ cfg \in Configs
    /\ pc = "plan" /\ full = {}
    /\ queue = {} /\ closed = FALSE
    /\ wpc = [w \in Workers |-> "off"] /\ job = [w \in Workers |-> 0]
    /\ results = <<>>
    /\ resolved = [a \in Assets(request) |-> None]
    /\ memory \in {m \in [Keyed -> [of : Keyed, by : {0}] \cup {None}] :
                     \A i \in Keyed : m[i] # None => m[i].of = i}
    /\ body = [a \in Assets(request) |-> None]

-----------------------------------------------------------------------------

\* Over the limit, or an image that does not pass its check.
Refuse ==
    /\ pc = "plan"
    /\ TooMany(request, cfg) \/ Invalid(request, cfg)
    /\ pc' = "refused"
    /\ UNCHANGED <<request, cfg, full, pool, results, resolved, memory, body>>

\* The archived images whose memories fit, and what replaces the others: a
\* marker that explains, then short ones.
Sizes == [a \in Assets(request) |-> Length[ImageOf(a)]]
Recalled(archived) ==
    Kept(Len(request.images), {a \in archived : Remembers(a)}, Sizes, MemoryBudget)
Archive(archived, recalled) ==
    [a \in Assets(request) |->
        IF a \notin archived THEN None
        ELSE IF a \in recalled THEN memory[ImageOf(a)]
        ELSE IF a = Min(archived \ recalled) THEN Marker ELSE Short]

\* The plan is made; the feeder and the workers start if there is a job.
Start ==
    /\ pc = "plan" /\ ~TooMany(request, cfg) /\ ~Invalid(request, cfg)
    /\ full' = Full(request, cfg)
    /\ LET archived == Assets(request) \ full'
       IN  body' = Archive(archived, Recalled(archived))
    /\ queue' = full'
    /\ wpc' = [w \in Workers |->
                 IF w <= cfg.workers /\ w <= Cardinality(full') THEN "range" ELSE "off"]
    /\ pc' = IF full' = {} THEN "finish" ELSE "collect"
    /\ UNCHANGED <<request, cfg, closed, job, results, resolved, memory>>

\* The feeder hands the next job to a worker that waits for one.
Hand(w) ==
    /\ queue # {} /\ wpc[w] = "range"
    /\ queue' = queue \ {Min(queue)}
    /\ job' = [job EXCEPT ![w] = Min(queue)]
    /\ wpc' = [wpc EXCEPT ![w] = "describe"]
    /\ UNCHANGED <<request, cfg, pc, full, closed, results, resolved, memory, body>>

CloseJobs ==
    /\ queue = {} /\ ~closed /\ \E w \in Workers : wpc[w] # "off"
    /\ closed' = TRUE
    /\ UNCHANGED <<request, cfg, pc, full, queue, wpc, job, results, resolved, memory, body>>

Leave(w) ==
    /\ wpc[w] = "range" /\ closed
    /\ wpc' = [wpc EXCEPT ![w] = "ended"]
    /\ UNCHANGED <<request, cfg, pc, full, queue, closed, job, results, resolved, memory, body>>

Describe(w) ==
    /\ wpc[w] = "describe"
    /\ \E outcome \in {"text", "error"} : wpc' = [wpc EXCEPT ![w] = outcome]
    /\ UNCHANGED <<request, cfg, pc, full, queue, closed, job, results, resolved, memory, body>>

\* Mutant of Capacity: a channel of one result.
CapacityOne == 1
Capacity == Cardinality(full)

Report(w) ==
    /\ wpc[w] \in {"text", "error"} /\ Len(results) < Capacity
    /\ results' = Append(results, [asset |-> job[w], ok |-> wpc[w] = "text"])
    /\ wpc' = [wpc EXCEPT ![w] = "range"]
    /\ UNCHANGED <<request, cfg, pc, full, queue, closed, job, resolved, memory, body>>

\* Mutant of Collect: an error is dropped like a text in both modes.
CollectAny ==
    /\ pc = "collect" /\ results # <<>>
    /\ LET item == Head(results) IN
         resolved' = [resolved EXCEPT ![item.asset] =
                        IF item.ok THEN [of |-> ImageOf(item.asset), by |-> item.asset] ELSE Failed]
    /\ pc' = IF \A a \in full : resolved'[a] # None THEN "finish" ELSE "collect"
    /\ results' = Tail(results)
    /\ UNCHANGED <<request, cfg, full, pool, memory, body>>

\* The collector takes a result: the first error ends the request, or is
\* replaced by a placeholder in the mode text_only.
Collect ==
    /\ pc = "collect" /\ results # <<>>
    /\ LET item == Head(results) IN
         \/ /\ ~item.ok /\ ~cfg.textOnly
            /\ pc' = "failed"
            /\ UNCHANGED resolved
         \/ /\ item.ok \/ cfg.textOnly
            /\ resolved' = [resolved EXCEPT ![item.asset] =
                  IF item.ok THEN [of |-> ImageOf(item.asset), by |-> item.asset] ELSE Failed]
            /\ pc' = IF \A a \in full : resolved'[a] # None THEN "finish" ELSE "collect"
    /\ results' = Tail(results)
    /\ UNCHANGED <<request, cfg, full, pool, memory, body>>

\* Mutant of Stored: the placeholder is remembered too.
StoredAny(i) ==
    LET S == {a \in full : ImageOf(a) = i}
    IN  IF S = {} THEN memory[i] ELSE resolved[Max(S)]

\* The last description of an image becomes its memory, a placeholder does not.
Stored(i) ==
    LET S == {a \in full : ImageOf(a) = i /\ resolved[a] # Failed}
    IN  IF S = {} THEN memory[i] ELSE resolved[Max(S)]

\* The memories are written and every image is replaced.
Finish ==
    /\ pc = "finish"
    /\ memory' = [i \in Keyed |-> Stored(i)]
    /\ body' = [a \in Assets(request) |-> IF a \in full THEN resolved[a] ELSE body[a]]
    /\ pc' = "sent"
    /\ UNCHANGED <<request, cfg, full, pool, results, resolved>>

\* Another request describes an image, or a memory is evicted.
Elsewhere ==
    /\ pc \notin {"sent", "failed", "refused"}
    /\ \E i \in Keyed : \E d \in {None, [of |-> i, by |-> 0]} :
         memory[i] # d /\ memory' = [memory EXCEPT ![i] = d]
    /\ UNCHANGED <<request, cfg, pc, full, pool, results, resolved, body>>

Returned == pc \in {"sent", "failed", "refused"}
PoolOver == queue = {} /\ \A w \in Workers : wpc[w] \in {"off", "ended"}

Terminated == Returned /\ PoolOver /\ UNCHANGED vars

Goroutine == Refuse \/ Start \/ Collect \/ Finish
Feeder == CloseJobs \/ \E w \in Workers : Hand(w)
Worker(w) == Leave(w) \/ Describe(w) \/ Report(w)

Next == Goroutine \/ Feeder \/ (\E w \in Workers : Worker(w)) \/ Elsewhere \/ Terminated

\* A goroutine that can run does, and describeImage returns: AllAnswered of
\* VisionChain.
Fairness == WF_vars(Goroutine) /\ WF_vars(Feeder) /\ \A w \in Workers : WF_vars(Worker(w))

Spec == Init /\ [][Next]_vars
FairSpec == Spec /\ Fairness

-----------------------------------------------------------------------------
\* Properties.

\* Every job is in exactly one place: with the feeder, with one worker, in the
\* channel of results or collected; and the stable memory of an image is of
\* that image and never a placeholder (image_transform.go:215-249).
Busy == {w \in Workers : wpc[w] \in {"describe", "text", "error"}}
Given == {job[w] : w \in Busy}
Reported == {results[k].asset : k \in DOMAIN results}
Collected == {a \in Assets(request) : resolved[a] # None}

GivenOnce == \A v, w \in Busy : job[v] = job[w] => v = w
ReportedOnce == \A k, l \in DOMAIN results : results[k].asset = results[l].asset => k = l
OnePlace ==
    /\ queue \cap (Given \cup Reported \cup Collected) = {}
    /\ Given \cap (Reported \cup Collected) = {}
    /\ Reported \cap Collected = {}
    /\ queue \cup Given \cup Reported \cup Collected \subseteq full
    /\ pc = "collect" => full = queue \cup Given \cup Reported \cup Collected
Started == pc = "plan" => full = {} /\ queue = {} /\ Busy = {} /\ results = <<>> /\ Collected = {}
OwnText ==
    /\ \A a \in Collected : resolved[a] \in {[of |-> ImageOf(a), by |-> a], Failed}
    /\ \A a \in Assets(request) : resolved[a] = Failed => cfg.textOnly
    /\ pc \in {"finish", "sent"} => Collected = full
OwnMemories == \A i \in Keyed : memory[i] # None => memory[i].of = i

\* What the plan chose stays, and so does what it put in the place of the others:
\* a memory of the same image, or a marker, of which the first one explains.
Chosen ==
    pc \notin {"plan", "refused"} =>
        /\ full = Full(request, cfg) /\ ~TooMany(request, cfg)
        /\ \A w \in Workers : wpc[w] # "off" => w <= cfg.workers
Replaced ==
    pc \notin {"plan", "refused"} =>
        LET archived == Assets(request) \ full
            marked == {a \in archived : body[a] \in {Marker, Short}}
        IN  /\ \A a \in archived \ marked : body[a] \in Descriptions /\ body[a].of = ImageOf(a)
            /\ \A a \in marked : body[a] = Marker <=> \A b \in marked : a <= b
            /\ pc = "sent" => \A a \in full : body[a] = resolved[a]

TransformInv ==
    /\ TypeOK /\ GivenOnce /\ ReportedOnce /\ OnePlace
    /\ Started /\ OwnText /\ OwnMemories /\ Chosen /\ Replaced

\* What is sent holds no image: a wanted one is replaced by the text its own
\* job had, or in the mode text_only by the placeholder; an archived one by a
\* memory of the same image or by a marker, of which the first one explains
\* (image_transform.go:138-159, 229-257).
RightReplacements ==
    pc = "sent" =>
      LET kept == {a \in Assets(request) \ full : body[a] \in Descriptions}
          marked == {a \in Assets(request) : body[a] \in {Marker, Short}}
      IN  /\ \A a \in full :
                \/ body[a] = [of |-> ImageOf(a), by |-> a]
                \/ body[a] = Failed /\ cfg.textOnly
          /\ kept \cup marked = Assets(request) \ full
          /\ \A a \in kept : body[a].of = ImageOf(a)
          /\ \A a \in marked : body[a] = Marker <=> \A b \in marked : a <= b

\* Whatever old images a text restores, a request has at most the configured
\* number of images described, at most the configured number of them at a time,
\* and each for the question of the latest user turn, if it has one; they are the
\* ones a count of tokens reserves room for (token_estimator.go:42-63).  The
\* memories of the others fit their budget, and an older one is kept in the place
\* of a newer one only if it is shorter (image_transform.go:70-137).
RecallFair ==
    LET archived == Archived(request, cfg)
        recalled == Recalled(archived)
    IN  /\ MapThenSumSet(LAMBDA a : Sizes[a], recalled) <= MemoryBudget
        /\ \A a \in recalled, b \in {b \in archived : Remembers(b)} \ recalled :
              a < b => Sizes[a] < Sizes[b]
Limits ==
    pc \notin {"plan", "refused"} =>
        /\ Cardinality(full) <= cfg.max /\ Current(request) \subseteq full
        /\ full = EstimatedFull(request, cfg)
        /\ Cardinality(Busy) <= cfg.workers
        /\ LatestText(request) # {} =>
              \A a \in full : ContextOf(request, a) = LatestText(request)
WithinLimits == (pc = "plan" => RecallFair) /\ Limits

\* The request returns and every goroutine it started ends, also those that
\* describe the remaining images of a request that already failed
\* (image_transform.go:215-241).
PoolEnds == <>(Returned /\ PoolOver)
=============================================================================
