------------------------ MODULE VisualTransformProofs ------------------------
(***************************************************************************)
(* What holds of VisualTransform for requests of any length with any number *)
(* of images, any settings and any number of workers: its inductive         *)
(* invariant, that what is sent holds the right text in the place of every  *)
(* image, and that the limits on descriptions and workers are kept.         *)
(***************************************************************************)
EXTENDS VisualTransform, SequenceTheorems, FiniteSetTheorems, WellFoundedInduction, TLAPS

-----------------------------------------------------------------------------
\* Least and greatest elements of sets of positions.

\* A set of naturals has a least element.
LEMMA LeastElement ==
    ASSUME NEW S \in SUBSET Nat, S # {}
    PROVE  Min(S) \in S /\ \A y \in S : Min(S) <= y
<1> DEFINE R == {p \in Nat \X Nat : p[1] < p[2]}
<1>1. IsWellFoundedOn(R, Nat)
  BY NatLessThanWellFounded, Zenon DEF OpToRel
<1> HIDE DEF R
<1>2. PICK x \in S : \A y \in S : <<y, x>> \notin R
  BY <1>1, WFMin, Zenon
<1>3. ASSUME NEW y \in S, ~(x <= y) PROVE FALSE
  <2>1. x \in Nat /\ y \in Nat
    OBVIOUS
  <2>2. y < x
    BY <1>3, <2>1
  <2>3. <<y, x>> \in R
    BY <2>1, <2>2 DEF R
  <2> QED BY <1>2, <2>3
<1> QED BY <1>3 DEF Min

\* A bounded set of naturals has a greatest element.
LEMMA GreatestElement ==
    ASSUME NEW n \in Nat, NEW S \in SUBSET (0..n), S # {}
    PROVE  Max(S) \in S /\ \A y \in S : y <= Max(S)
<1> DEFINE D == {d \in 0..n : n - d \in S}
<1>1. D \in SUBSET Nat /\ D # {}
  <2>1. PICK y \in S : TRUE
    OBVIOUS
  <2>2. y \in Nat /\ y <= n
    BY <2>1
  <2>3. n - y \in 0..n /\ n - (n - y) = y
    BY <2>2
  <2>4. n - y \in D
    BY <2>1, <2>3
  <2>5. D \subseteq 0..n /\ 0..n \subseteq Nat
    OBVIOUS
  <2> QED BY <2>4, <2>5
<1>2. PICK d \in D : \A y \in D : d <= y
  BY <1>1, LeastElement
<1>3. ASSUME NEW y \in S PROVE y <= n - d
  <2>1. n - y \in D /\ y \in Int
    <3>1. y \in Nat /\ y <= n
      BY <1>3
    <3>2. n - y \in 0..n /\ n - (n - y) = y
      BY <3>1
    <3> QED BY <1>3, <3>1, <3>2
  <2>2. d \in 0..n
    BY <1>2
  <2>3. d <= n - y
    BY <1>2, <2>1, Zenon
  <2> QED BY <2>1, <2>2, <2>3
<1>4. n - d \in S
  OBVIOUS
<1> QED BY <1>3, <1>4 DEF Max

-----------------------------------------------------------------------------
\* The images of a request.

\* They are numbered from 1, and each is in an item.
LEMMA AssetTypes ==
    ASSUME request \in Requests
    PROVE  /\ Assets(request) = 1..Len(request.images) /\ Len(request.images) \in Nat
           /\ Assets(request) \subseteq Numbers /\ Assets(request) \subseteq Nat
           /\ \A a \in Assets(request) : ImageOf(a) \in Images
<1>1. /\ Len(request.images) <= MaxAssets
      /\ request.images \in Seq([at : DOMAIN request.items, kind : Kinds, img : Images])
  BY RequestsAssumption
<1>2. DOMAIN request.images = 1..Len(request.images) /\ Len(request.images) \in Nat
  BY <1>1
<1>3. \A a \in Assets(request) : request.images[a] \in [at : DOMAIN request.items, kind : Kinds, img : Images]
  <2> DEFINE T == [at : DOMAIN request.items, kind : Kinds, img : Images]
  <2>1. request.images \in Seq(T)
    BY <1>1
  <2> HIDE DEF T
  <2>2. \A a \in Assets(request) : request.images[a] \in T
    BY <1>2, <2>1, ElementOfSeq DEF Assets
  <2> QED BY <2>2 DEF T
<1>4. \A a \in Assets(request) : ImageOf(a) \in Images
  BY <1>3 DEF ImageOf
<1> QED BY <1>1, <1>2, <1>4, MemoryAssumption DEF Assets, Numbers

\* The chosen ones are images of the request.
LEMMA FullTypes == Full(request, cfg) \subseteq Assets(request)
  BY DEF Full, Current, Newest

-----------------------------------------------------------------------------
\* The inductive invariant.

\* What an image is described as is a description, and no marker.
LEMMA DescriptionTypes ==
    ASSUME request \in Requests, NEW a \in Assets(request)
    PROVE  /\ [of |-> ImageOf(a), by |-> a] \in Descriptions
           /\ \A d \in Descriptions : d \notin {None, Failed, Marker, Short}
           /\ Failed \notin {None, Marker, Short}
           /\ Marker # None /\ Short # None /\ Marker # Short
  BY AssetTypes, MarkersAssumption DEF Descriptions

LEMMA InitTransformInv == Init => TransformInv
<1> SUFFICES ASSUME Init PROVE TransformInv
  OBVIOUS
<1>1. Busy = {} /\ Given = {} /\ Reported = {} /\ Collected = {}
  BY DEF Init, Busy, Given, Reported, Collected
<1>2. memory \in [Keyed -> Descriptions \cup {None}] /\ OwnMemories
  BY MemoryAssumption DEF Init, OwnMemories, Descriptions
<1>3. TypeOK
  <2>1. <<>> \in Seq([asset : Numbers, ok : BOOLEAN])
    OBVIOUS
  <2> QED BY <1>2, <2>1 DEF Init, TypeOK
<1>4. GivenOnce /\ ReportedOnce /\ OnePlace /\ Started
  BY <1>1 DEF Init, GivenOnce, ReportedOnce, OnePlace, Started
<1>5. OwnText
  BY <1>1, MarkersAssumption DEF Init, OwnText
<1>6. Chosen /\ Replaced
  BY DEF Init, Chosen, Replaced
<1> QED BY <1>2, <1>3, <1>4, <1>5, <1>6 DEF TransformInv

\* What leaves every job where it is and every text as it is.
LEMMA IdleKeeps ==
    ASSUME TransformInv,
           Refuse \/ CloseJobs \/ Elsewhere \/ UNCHANGED vars
             \/ \E w \in Workers : Leave(w) \/ Describe(w)
    PROVE  TransformInv'
<1>t. /\ TypeOK /\ GivenOnce /\ ReportedOnce /\ OnePlace
      /\ Started /\ OwnText /\ OwnMemories /\ Chosen /\ Replaced
  BY DEF TransformInv
<1>u. /\ UNCHANGED <<request, cfg, full, queue, job, results, resolved, body>>
      /\ pc' = pc \/ (pc = "plan" /\ pc' = "refused")
  BY DEF Refuse, CloseJobs, Elsewhere, vars, pool, Leave, Describe
<1>w. /\ wpc' \in [Workers -> {"off", "range", "describe", "text", "error", "ended"}]
      /\ \A w \in Workers :
           /\ wpc'[w] \in {"describe", "text", "error"} <=> wpc[w] \in {"describe", "text", "error"}
           /\ wpc'[w] = "off" <=> wpc[w] = "off"
  BY <1>t DEF TypeOK, Refuse, CloseJobs, Elsewhere, vars, pool, Leave, Describe
<1>m. memory' \in [Keyed -> Descriptions \cup {None}] /\ OwnMemories'
  <2>1. CASE memory' = memory
    BY <1>t, <2>1 DEF TypeOK, OwnMemories
  <2>2. CASE Elsewhere
    <3>1. PICK i \in Keyed : \E d \in {None, [of |-> i, by |-> 0]} : memory' = [memory EXCEPT ![i] = d]
      BY <2>2 DEF Elsewhere
    <3>2. PICK d \in {None, [of |-> i, by |-> 0]} : memory' = [memory EXCEPT ![i] = d]
      BY <3>1
    <3>3. d # None => d \in Descriptions /\ d.of = i
      BY <3>2, MemoryAssumption DEF Descriptions
    <3> QED BY <1>t, <3>2, <3>3 DEF TypeOK, OwnMemories
  <2> QED BY <2>1, <2>2 DEF Refuse, CloseJobs, Elsewhere, vars, pool, Leave, Describe
<1>b. Busy' = Busy /\ Given' = Given /\ Reported' = Reported /\ Collected' = Collected
  BY <1>u, <1>w DEF Busy, Given, Reported, Collected
<1>1. TypeOK'
  <2>1. closed' \in BOOLEAN
    BY <1>t DEF TypeOK, Refuse, CloseJobs, Elsewhere, vars, pool, Leave, Describe
  <2> QED BY <1>t, <1>u, <1>w, <1>m, <2>1 DEF TypeOK
<1>2. GivenOnce' /\ ReportedOnce' /\ OnePlace' /\ Started'
  BY <1>t, <1>u, <1>b DEF GivenOnce, ReportedOnce, OnePlace, Started
<1>3. OwnText'
  BY <1>t, <1>u, <1>b DEF OwnText, ImageOf
<1>4. Chosen'
  BY <1>t, <1>u, <1>w DEF Chosen
<1>5. Replaced'
  BY <1>t, <1>u DEF Replaced, ImageOf
<1> QED BY <1>m, <1>1, <1>2, <1>3, <1>4, <1>5 DEF TransformInv

\* The plan: every chosen image becomes a job, every other one is replaced.
LEMMA StartKeeps ==
    ASSUME TransformInv, Start
    PROVE  TransformInv'
<1>t. /\ TypeOK /\ GivenOnce /\ ReportedOnce /\ OnePlace
      /\ Started /\ OwnText /\ OwnMemories /\ Chosen /\ Replaced
  BY DEF TransformInv
<1>u. /\ UNCHANGED <<request, cfg, closed, job, results, resolved, memory>>
      /\ pc = "plan" /\ pc' = IF full' = {} THEN "finish" ELSE "collect"
      /\ full' = Full(request, cfg) /\ ~TooMany(request, cfg) /\ queue' = full'
      /\ body' = Archive(Assets(request) \ full', Recalled(Assets(request) \ full'))
      /\ wpc' = [w \in Workers |->
                   IF w <= cfg.workers /\ w <= Cardinality(full') THEN "range" ELSE "off"]
  BY DEF Start
<1>a. /\ request \in Requests /\ full' \subseteq Assets(request)
      /\ Assets(request) \subseteq Nat
  BY <1>t, <1>u, AssetTypes, FullTypes DEF TypeOK
<1>b. /\ Busy' = {} /\ Given' = {} /\ Reported' = {} /\ Collected' = {}
      /\ \A w \in Workers : wpc'[w] # "off" => w <= cfg.workers
  BY <1>t, <1>u DEF Started, Busy, Given, Reported, Collected
<1> DEFINE archived == Assets(request) \ full'
           recalled == Recalled(archived)
           others == archived \ recalled
<1>c. /\ recalled \subseteq archived
      /\ \A a \in recalled : memory[ImageOf(a)] \in Descriptions /\ memory[ImageOf(a)].of = ImageOf(a)
      /\ others # {} => Min(others) \in others /\ \A b \in others : Min(others) <= b
  <2>1. recalled \subseteq {a \in archived : Remembers(a)}
    BY DEF Recalled, Kept
  <2>2. others # {} => Min(others) \in others /\ \A b \in others : Min(others) <= b
    <3>1. others \in SUBSET Nat
      BY <1>a
    <3> QED BY <3>1, LeastElement
  <2> QED BY <1>t, <2>1, <2>2 DEF Remembers, TypeOK, OwnMemories
<1>d. /\ \A a \in Assets(request) \ archived : body'[a] = None
      /\ \A a \in recalled : body'[a] = memory[ImageOf(a)]
      /\ \A a \in others : body'[a] = IF a = Min(others) THEN Marker ELSE Short
      /\ DOMAIN body' = Assets(request)
      /\ body' = [a \in Assets(request) |-> body'[a]]
  BY <1>u, <1>c DEF Archive
<1>1. body' \in [Assets(request) -> Descriptions \cup {None, Failed, Marker, Short}]
  BY <1>c, <1>d
<1>2. TypeOK'
  BY <1>t, <1>u, <1>a, <1>1 DEF TypeOK
<1>3. GivenOnce' /\ ReportedOnce' /\ OnePlace' /\ Started'
  BY <1>t, <1>u, <1>b DEF GivenOnce, ReportedOnce, OnePlace, Started
<1>4. OwnText' /\ OwnMemories'
  BY <1>t, <1>u, <1>b DEF OwnText, OwnMemories, Started, ImageOf
<1>5. Chosen'
  BY <1>u, <1>b DEF Chosen
<1>6. Replaced'
  <2> DEFINE marked == {a \in archived : body'[a] \in {Marker, Short}}
  <2>1. Marker # Short
    BY MarkersAssumption
  <2>2. marked = others
    <3>1. ASSUME NEW a \in archived, a \in recalled PROVE body'[a] \notin {Marker, Short}
      <4>1. body'[a] \in Descriptions
        BY <1>c, <1>d, <3>1
      <4> QED BY <4>1, MarkersAssumption
    <3>2. ASSUME NEW a \in others PROVE body'[a] \in {Marker, Short}
      BY <1>d, <3>2
    <3> QED BY <3>1, <3>2
  <2>3. \A a \in archived \ marked : body'[a] \in Descriptions /\ body'[a].of = ImageOf(a)
    BY <1>c, <1>d, <2>2
  <2>4. \A a \in marked : body'[a] = Marker <=> \A b \in marked : a <= b
    <3> SUFFICES ASSUME NEW a \in others
                 PROVE  body'[a] = Marker <=> \A b \in others : a <= b
      BY <2>2
    <3>1. a \in Nat /\ Min(others) \in Nat /\ Min(others) \in others /\ Min(others) <= a
      BY <1>a, <1>c
    <3>2. a = Min(others) <=> \A b \in others : a <= b
      <4>1. a = Min(others) => \A b \in others : a <= b
        BY <1>c, Zenon
      <4>2. (\A b \in others : a <= b) => a <= Min(others)
        BY <3>1, Zenon
      <4>3. a <= Min(others) => a = Min(others)
        BY <3>1
      <4> QED BY <4>1, <4>2, <4>3
    <3> QED BY <1>d, <2>1, <3>2
  <2> QED BY <1>u, <2>3, <2>4 DEF Replaced, ImageOf
<1> QED BY <1>2, <1>3, <1>4, <1>5, <1>6 DEF TransformInv

\* A job moves from the feeder to a worker, and from nowhere else.
LEMMA HandKeeps ==
    ASSUME TransformInv, NEW w \in Workers, Hand(w)
    PROVE  TransformInv'
<1>t. /\ TypeOK /\ GivenOnce /\ ReportedOnce /\ OnePlace
      /\ Started /\ OwnText /\ OwnMemories /\ Chosen /\ Replaced
  BY DEF TransformInv
<1>u. /\ UNCHANGED <<request, cfg, pc, full, closed, results, resolved, memory, body>>
      /\ queue # {} /\ wpc[w] = "range" /\ queue' = queue \ {Min(queue)}
      /\ job' = [job EXCEPT ![w] = Min(queue)]
      /\ wpc' = [wpc EXCEPT ![w] = "describe"]
  BY DEF Hand
<1>m. Min(queue) \in queue /\ Min(queue) \in Numbers
  <2>1. queue \in SUBSET Nat /\ queue \subseteq Numbers
    BY <1>t, AssetTypes DEF TypeOK
  <2> QED BY <1>u, <2>1, LeastElement
<1>p. /\ job'[w] = Min(queue) /\ wpc'[w] = "describe"
      /\ \A v \in Workers : v # w => job'[v] = job[v] /\ wpc'[v] = wpc[v]
  BY <1>t, <1>u DEF TypeOK
<1>b. /\ Busy' = Busy \cup {w} /\ w \notin Busy
      /\ Given' = Given \cup {Min(queue)}
      /\ Reported' = Reported /\ Collected' = Collected
  <2>1. Busy' = Busy \cup {w} /\ w \notin Busy
    BY <1>u, <1>p DEF Busy
  <2>2. \A v \in Busy : job'[v] = job[v]
    BY <1>p, <2>1 DEF Busy
  <2>3. Given' = Given \cup {Min(queue)}
    BY <1>p, <2>1, <2>2 DEF Given
  <2>4. Reported' = Reported /\ Collected' = Collected
    BY <1>u DEF Reported, Collected
  <2> QED BY <2>1, <2>3, <2>4
<1>1. TypeOK'
  BY <1>t, <1>u, <1>m DEF TypeOK
<1>2. GivenOnce'
  <2>1. \A v \in Busy : job[v] \in Given /\ job[v] # Min(queue)
    BY <1>t, <1>m DEF OnePlace, Given
  <2>2. \A v \in Busy : job'[v] = job[v] /\ v # w
    BY <1>b, <1>p DEF Busy
  <2> QED BY <1>t, <1>b, <1>p, <2>1, <2>2 DEF GivenOnce
<1>3. ReportedOnce'
  BY <1>t, <1>u DEF ReportedOnce
<1>4. OnePlace'
  BY <1>t, <1>u, <1>m, <1>b DEF OnePlace
<1>5. Started'
  BY <1>t, <1>u DEF Started
<1>6. OwnText' /\ OwnMemories'
  BY <1>t, <1>u, <1>b DEF OwnText, OwnMemories, ImageOf
<1>7. Chosen'
  BY <1>t, <1>u, <1>p DEF Chosen
<1>8. Replaced'
  BY <1>t, <1>u DEF Replaced, ImageOf
<1> QED BY <1>1, <1>2, <1>3, <1>4, <1>5, <1>6, <1>7, <1>8 DEF TransformInv

\* A job moves from a worker to the channel of results.
LEMMA ReportKeeps ==
    ASSUME TransformInv, NEW w \in Workers, Report(w)
    PROVE  TransformInv'
<1>t. /\ TypeOK /\ GivenOnce /\ ReportedOnce /\ OnePlace
      /\ Started /\ OwnText /\ OwnMemories /\ Chosen /\ Replaced
  BY DEF TransformInv
<1>u. /\ UNCHANGED <<request, cfg, pc, full, queue, closed, job, resolved, memory, body>>
      /\ wpc[w] \in {"text", "error"} /\ wpc' = [wpc EXCEPT ![w] = "range"]
      /\ results' = Append(results, [asset |-> job[w], ok |-> wpc[w] = "text"])
  BY DEF Report
<1>j. w \in Busy /\ job[w] \in Given /\ job[w] \in full /\ job[w] \in Numbers
  <2>1. w \in Busy /\ job[w] \in Given
    BY <1>u DEF Busy, Given
  <2> QED BY <1>t, <2>1, AssetTypes DEF OnePlace, TypeOK
<1>p. /\ wpc'[w] = "range"
      /\ \A v \in Workers : v # w => wpc'[v] = wpc[v]
  BY <1>t, <1>u DEF TypeOK
<1>r. /\ results' \in Seq([asset : Numbers, ok : BOOLEAN])
      /\ DOMAIN results' = DOMAIN results \cup {Len(results) + 1}
      /\ DOMAIN results = 1..Len(results) /\ Len(results) \in Nat
      /\ results'[Len(results) + 1].asset = job[w]
      /\ \A k \in DOMAIN results : results'[k] = results[k] /\ k # Len(results) + 1
  <2> DEFINE T == [asset : Numbers, ok : BOOLEAN]
             e == [asset |-> job[w], ok |-> wpc[w] = "text"]
  <2>1. results \in Seq(T) /\ e \in T /\ results' = Append(results, e) /\ e.asset = job[w]
    BY <1>t, <1>u, <1>j DEF TypeOK
  <2> HIDE DEF T, e
  <2>2. /\ results' \in Seq(T) /\ Len(results') = Len(results) + 1
        /\ \A i \in 1..Len(results) : results'[i] = results[i]
        /\ results'[Len(results) + 1] = e
    BY <2>1, AppendProperties
  <2>3. /\ DOMAIN results = 1..Len(results) /\ Len(results) \in Nat
        /\ DOMAIN results' = 1..Len(results')
    BY <2>1, <2>2, LenProperties
  <2>4. 1..(Len(results) + 1) = 1..Len(results) \cup {Len(results) + 1}
    BY <2>3
  <2>5. \A k \in 1..Len(results) : k # Len(results) + 1
    BY <2>3
  <2> QED BY <2>1, <2>2, <2>3, <2>4, <2>5 DEF T
<1>b. /\ Busy' = Busy \ {w} /\ Given' = Given \ {job[w]}
      /\ Reported' = Reported \cup {job[w]} /\ Collected' = Collected
  <2>1. Busy' = Busy \ {w}
    BY <1>u, <1>p DEF Busy
  <2>2. Given' = Given \ {job[w]}
    BY <1>t, <1>u, <1>j, <2>1 DEF Given, GivenOnce
  <2>3. Reported' = Reported \cup {job[w]}
    BY <1>r DEF Reported
  <2> QED BY <1>u, <2>1, <2>2, <2>3 DEF Collected
<1>1. TypeOK'
  BY <1>t, <1>u, <1>r DEF TypeOK
<1>2. GivenOnce'
  BY <1>t, <1>u, <1>b DEF GivenOnce
<1>3. ReportedOnce'
  <2>1. \A k \in DOMAIN results : results[k].asset # job[w]
    BY <1>t, <1>j DEF OnePlace, Reported
  <2> QED BY <1>t, <1>r, <2>1 DEF ReportedOnce
<1>4. OnePlace'
  BY <1>t, <1>u, <1>j, <1>b DEF OnePlace
<1>5. Started'
  BY <1>t, <1>u, <1>j DEF Started
<1>6. OwnText' /\ OwnMemories'
  BY <1>t, <1>u, <1>b DEF OwnText, OwnMemories, ImageOf
<1>7. Chosen'
  BY <1>t, <1>u, <1>p DEF Chosen
<1>8. Replaced'
  BY <1>t, <1>u DEF Replaced, ImageOf
<1> QED BY <1>1, <1>2, <1>3, <1>4, <1>5, <1>6, <1>7, <1>8 DEF TransformInv

\* A job moves from the channel to what is collected, with the text of its own
\* image, or leaves with the request that fails.
LEMMA CollectKeeps ==
    ASSUME TransformInv, Collect
    PROVE  TransformInv'
<1>t. /\ TypeOK /\ GivenOnce /\ ReportedOnce /\ OnePlace
      /\ Started /\ OwnText /\ OwnMemories /\ Chosen /\ Replaced
  BY DEF TransformInv
<1> DEFINE item == Head(results)
           a == item.asset
           text == IF item.ok THEN [of |-> ImageOf(a), by |-> a] ELSE Failed
<1>u. /\ UNCHANGED <<request, cfg, full, queue, closed, wpc, job, memory, body>>
      /\ pc = "collect" /\ results # <<>> /\ results' = Tail(results)
      /\ \/ pc' = "failed" /\ resolved' = resolved
         \/ /\ item.ok \/ cfg.textOnly
            /\ resolved' = [resolved EXCEPT ![a] = text]
            /\ pc' = IF \A b \in full : resolved'[b] # None THEN "finish" ELSE "collect"
  BY DEF Collect, pool
<1>r. /\ results' \in Seq([asset : Numbers, ok : BOOLEAN])
      /\ DOMAIN results' = 1..(Len(results) - 1) /\ DOMAIN results = 1..Len(results)
      /\ Len(results) \in Nat \ {0} /\ results[1] = item
      /\ \A k \in 1..(Len(results) - 1) : results'[k] = results[k + 1]
  <2> DEFINE T == [asset : Numbers, ok : BOOLEAN]
  <2>1. results \in Seq(T)
    BY <1>t DEF TypeOK
  <2> HIDE DEF T
  <2>2. /\ results' \in Seq(T) /\ Len(results') = Len(results) - 1
        /\ \A i \in 1..Len(results') : results'[i] = results[i + 1]
    BY <1>u, <2>1, HeadTailProperties
  <2>3. /\ DOMAIN results = 1..Len(results) /\ Len(results) \in Nat \ {0}
        /\ DOMAIN results' = 1..Len(results')
    BY <1>u, <2>1, <2>2, LenProperties, EmptySeq
  <2> QED BY <2>1, <2>2, <2>3 DEF T
<1>b. /\ Busy' = Busy /\ Given' = Given
      /\ Reported' = Reported \ {a} /\ a \in Reported
      /\ ReportedOnce'
  <2>1. Busy' = Busy /\ Given' = Given
    BY <1>u DEF Busy, Given
  <2>2. a \in Reported
    BY <1>r DEF Reported
  <2>3. \A k \in 1..(Len(results) - 1) : k + 1 \in 1..Len(results) /\ k + 1 # 1
    BY <1>r
  <2>4. \A k \in 1..Len(results) : k = 1 \/ (k - 1 \in 1..(Len(results) - 1) /\ k - 1 + 1 = k)
    BY <1>r
  <2>5. \A k \in 1..Len(results) : results[k].asset = a => k = 1
    BY <1>t, <1>r DEF ReportedOnce
  <2>6. Reported' \subseteq Reported \ {a}
    <3> SUFFICES ASSUME NEW k \in 1..(Len(results) - 1)
                 PROVE  results'[k].asset \in Reported \ {a}
      BY <1>r DEF Reported
    <3>1. results'[k] = results[k + 1] /\ k + 1 \in DOMAIN results
      BY <1>r, <2>3
    <3>2. results[k + 1].asset # a
      BY <1>r, <2>3, <2>5
    <3> QED BY <3>1, <3>2 DEF Reported
  <2>7. Reported \ {a} \subseteq Reported'
    <3> SUFFICES ASSUME NEW k \in 1..Len(results), results[k].asset # a
                 PROVE  results[k].asset \in Reported'
      BY <1>r DEF Reported
    <3>1. k # 1
      BY <1>r
    <3>2. results'[k - 1] = results[k] /\ k - 1 \in DOMAIN results'
      BY <1>r, <2>4, <3>1
    <3> QED BY <3>2 DEF Reported
  <2>8. ReportedOnce'
    <3> SUFFICES ASSUME NEW k \in 1..(Len(results) - 1), NEW l \in 1..(Len(results) - 1),
                        results'[k].asset = results'[l].asset
                 PROVE  k = l
      BY <1>r DEF ReportedOnce
    <3>1. results[k + 1].asset = results[l + 1].asset /\ k + 1 \in DOMAIN results /\ l + 1 \in DOMAIN results
      BY <1>r, <2>3
    <3>2. k + 1 = l + 1
      BY <1>t, <3>1 DEF ReportedOnce
    <3> QED BY <3>2
  <2> QED BY <2>1, <2>2, <2>6, <2>7, <2>8
<1>a. a \in full /\ a \in Assets(request) /\ request \in Requests /\ resolved[a] = None
  BY <1>t, <1>b DEF OnePlace, TypeOK, Collected
<1>x. /\ text \in Descriptions \cup {Failed} /\ text # None
      /\ text \in {[of |-> ImageOf(a), by |-> a], Failed}
      /\ (item.ok \/ cfg.textOnly) => (text = Failed => cfg.textOnly)
  BY <1>a, DescriptionTypes
<1>c. \/ pc' = "failed" /\ resolved' = resolved /\ Collected' = Collected
      \/ /\ item.ok \/ cfg.textOnly
         /\ resolved'[a] = text /\ \A b \in Assets(request) : b # a => resolved'[b] = resolved[b]
         /\ Collected' = Collected \cup {a}
         /\ pc' \in {"collect", "finish"} /\ (pc' = "finish" => \A b \in full : resolved'[b] # None)
  <2>1. CASE pc' = "failed" /\ resolved' = resolved
    BY <1>u, <2>1 DEF Collected
  <2>2. CASE /\ item.ok \/ cfg.textOnly
             /\ resolved' = [resolved EXCEPT ![a] = text]
             /\ pc' = IF \A b \in full : resolved'[b] # None THEN "finish" ELSE "collect"
    <3>1. resolved'[a] = text /\ \A b \in Assets(request) : b # a => resolved'[b] = resolved[b]
      BY <1>t, <1>a, <2>2 DEF TypeOK
    <3>2. Collected' = Collected \cup {a}
      BY <1>u, <1>a, <1>x, <3>1 DEF Collected
    <3> QED BY <2>2, <3>1, <3>2
  <2> QED BY <1>u, <2>1, <2>2
<1>1. TypeOK'
  <2>1. resolved' \in [Assets(request) -> Descriptions \cup {None, Failed}]
    BY <1>t, <1>u, <1>x DEF TypeOK
  <2> QED BY <1>t, <1>u, <1>r, <1>c, <2>1 DEF TypeOK
<1>2. GivenOnce'
  BY <1>t, <1>u, <1>b DEF GivenOnce
<1>3. OnePlace'
  BY <1>t, <1>u, <1>b, <1>c DEF OnePlace
<1>4. Started'
  BY <1>c DEF Started
<1>5. OwnText'
  <2>1. CASE pc' = "failed" /\ resolved' = resolved /\ Collected' = Collected
    BY <1>t, <1>u, <2>1 DEF OwnText, ImageOf
  <2>2. CASE /\ item.ok \/ cfg.textOnly
             /\ resolved'[a] = text /\ \A b \in Assets(request) : b # a => resolved'[b] = resolved[b]
             /\ Collected' = Collected \cup {a}
             /\ pc' \in {"collect", "finish"} /\ (pc' = "finish" => \A b \in full : resolved'[b] # None)
    <3>1. \A b \in Collected' : resolved'[b] \in {[of |-> ImageOf(b), by |-> b], Failed}
      <4>1. Collected \subseteq Assets(request)
        BY DEF Collected
      <4> QED BY <1>t, <1>x, <2>2, <4>1 DEF OwnText
    <3>2. \A b \in Assets(request) : resolved'[b] = Failed => cfg.textOnly
      BY <1>t, <1>x, <2>2 DEF OwnText
    <3>3. pc' = "finish" => Collected' = full
      <4>1. Collected' \subseteq full
        BY <1>t, <1>a, <2>2 DEF OnePlace
      <4>2. pc' = "finish" => full \subseteq Collected'
        BY <1>t, <1>u, <2>2 DEF Collected, TypeOK
      <4> QED BY <4>1, <4>2
    <3> QED BY <1>u, <2>2, <3>1, <3>2, <3>3 DEF OwnText, ImageOf
  <2> QED BY <1>c, <2>1, <2>2
<1>6. OwnMemories'
  BY <1>t, <1>u DEF OwnMemories
<1>7. Chosen'
  BY <1>t, <1>u DEF Chosen
<1>8. Replaced'
  BY <1>t, <1>u, <1>c DEF Replaced, ImageOf
<1> QED BY <1>b, <1>1, <1>2, <1>3, <1>4, <1>5, <1>6, <1>7, <1>8 DEF TransformInv

\* The memories take the last text of each image, and every job's text stands
\* where its image was.
LEMMA FinishKeeps ==
    ASSUME TransformInv, Finish
    PROVE  TransformInv'
<1>t. /\ TypeOK /\ GivenOnce /\ ReportedOnce /\ OnePlace
      /\ Started /\ OwnText /\ OwnMemories /\ Chosen /\ Replaced
  BY DEF TransformInv
<1>u. /\ UNCHANGED <<request, cfg, full, queue, closed, wpc, job, results, resolved>>
      /\ pc = "finish" /\ pc' = "sent"
      /\ memory' = [i \in Keyed |-> Stored(i)]
      /\ body' = [a \in Assets(request) |-> IF a \in full THEN resolved[a] ELSE body[a]]
  BY DEF Finish, pool
<1>a. request \in Requests /\ full \subseteq Assets(request) /\ Collected = full
  BY <1>t, <1>u DEF TypeOK, OwnText
<1>s. ASSUME NEW i \in Keyed
      PROVE  Stored(i) \in Descriptions \cup {None} /\ (Stored(i) # None => Stored(i).of = i)
  <2> DEFINE S == {a \in full : ImageOf(a) = i /\ resolved[a] # Failed}
  <2>1. CASE S = {}
    BY <1>t, <2>1 DEF Stored, TypeOK, OwnMemories
  <2>2. CASE S # {}
    <3>1. S \in SUBSET (0..Len(request.images)) /\ Len(request.images) \in Nat
      BY <1>a, AssetTypes
    <3>2. Max(S) \in S
      BY <2>2, <3>1, GreatestElement
    <3>3. resolved[Max(S)] = [of |-> i, by |-> Max(S)]
      BY <1>t, <1>a, <3>2 DEF OwnText
    <3>4. [of |-> ImageOf(Max(S)), by |-> Max(S)] \in Descriptions
      BY <1>a, <3>2, DescriptionTypes
    <3>5. Stored(i) = resolved[Max(S)]
      BY <2>2 DEF Stored
    <3> QED BY <3>2, <3>3, <3>4, <3>5
  <2> QED BY <2>1, <2>2
<1>b. Busy' = Busy /\ Given' = Given /\ Reported' = Reported /\ Collected' = Collected
  BY <1>u DEF Busy, Given, Reported, Collected
<1>1. TypeOK'
  <2>1. memory' \in [Keyed -> Descriptions \cup {None}]
    BY <1>u, <1>s
  <2>2. body' \in [Assets(request) -> Descriptions \cup {None, Failed, Marker, Short}]
    BY <1>t, <1>u DEF TypeOK
  <2> QED BY <1>t, <1>u, <2>1, <2>2 DEF TypeOK
<1>2. GivenOnce' /\ ReportedOnce' /\ Started'
  BY <1>t, <1>u, <1>b DEF GivenOnce, ReportedOnce, Started
<1>3. OnePlace'
  BY <1>t, <1>u, <1>b DEF OnePlace
<1>4. OwnText'
  BY <1>t, <1>u, <1>a, <1>b DEF OwnText, ImageOf
<1>5. OwnMemories'
  BY <1>u, <1>s DEF OwnMemories
<1>6. Chosen'
  BY <1>t, <1>u DEF Chosen
<1>7. Replaced'
  <2>1. /\ \A a \in Assets(request) \ full : body'[a] = body[a]
        /\ \A a \in full : body'[a] = resolved[a]
    BY <1>u, <1>a
  <2> QED BY <1>t, <1>u, <2>1 DEF Replaced, ImageOf
<1> QED BY <1>1, <1>2, <1>3, <1>4, <1>5, <1>6, <1>7 DEF TransformInv


\* The invariant holds in every state, for any request, settings and workers
\* (image_transform.go:138-268).
THEOREM TransformInvariance == Spec => []TransformInv
<1>1. TransformInv /\ [Next]_vars => TransformInv'
  BY IdleKeeps, StartKeeps, HandKeeps, ReportKeeps, CollectKeeps, FinishKeeps
     DEF Next, Goroutine, Feeder, Worker, Terminated
<1> QED BY <1>1, InitTransformInv, PTL DEF Spec

\* What is sent holds no image, and in the place of each one what was made for
\* it (image_transform.go:138-159, 229-257).
THEOREM Replacements == Spec => []RightReplacements
<1>1. TransformInv => RightReplacements
  <2> SUFFICES ASSUME TransformInv, pc = "sent" PROVE RightReplacements
    BY DEF RightReplacements
  <2> DEFINE kept == {a \in Assets(request) \ full : body[a] \in Descriptions}
             marked == {a \in Assets(request) : body[a] \in {Marker, Short}}
             archived == {a \in Assets(request) \ full : body[a] \in {Marker, Short}}
  <2>1. /\ TypeOK /\ OwnText /\ Replaced
        /\ request \in Requests /\ full \subseteq Assets(request)
        /\ Collected = full
    BY DEF TransformInv, TypeOK, OwnText
  <2>2. \A a \in full : body[a] = [of |-> ImageOf(a), by |-> a] \/ (body[a] = Failed /\ cfg.textOnly)
    BY <2>1 DEF Replaced, OwnText
  <2>3. \A a \in full : body[a] \notin {Marker, Short}
    BY <2>1, <2>2, DescriptionTypes
  <2>4. marked = archived
    BY <2>1, <2>3
  <2>5. /\ \A a \in (Assets(request) \ full) \ archived : body[a] \in Descriptions /\ body[a].of = ImageOf(a)
        /\ \A a \in archived : body[a] = Marker <=> \A b \in archived : a <= b
    BY <2>1 DEF Replaced
  <2>6. \A a \in archived : body[a] \notin Descriptions
    BY <2>1, DescriptionTypes
  <2> QED BY <2>2, <2>4, <2>5, <2>6 DEF RightReplacements
<1> QED BY <1>1, TransformInvariance, PTL

-----------------------------------------------------------------------------
\* The limits.

\* The newest n of a set of images are at most n.
LEMMA NewestBound ==
    ASSUME NEW l \in Nat, NEW S \in SUBSET (1..l), NEW n \in Nat
    PROVE  IsFiniteSet(Newest(S, n)) /\ Cardinality(Newest(S, n)) \in 0..n
<1> DEFINE N == Newest(S, n)
<1>1. IsFiniteSet(S) /\ N \subseteq S /\ S \subseteq Nat
  <2>1. IsFiniteSet(1..l)
    BY FS_Interval
  <2>2. IsFiniteSet(S)
    BY <2>1, FS_Subset
  <2>3. N \subseteq S /\ S \subseteq Nat
    BY DEF Newest
  <2> QED BY <2>2, <2>3
<1>2. IsFiniteSet(N) /\ Cardinality(N) \in Nat
  BY <1>1, FS_Subset, FS_CardinalityType
<1>3. CASE N = {}
  BY <1>2, <1>3, FS_EmptySet
<1>4. CASE N # {}
  <2> DEFINE later == {b \in S : b > Min(N)}
  <2>1. Min(N) \in N /\ \A y \in N : Min(N) <= y
    BY <1>1, <1>4, LeastElement
  <2>2. Cardinality(later) < n
    BY <2>1 DEF Newest
  <2>3. IsFiniteSet(later) /\ Cardinality(later) \in Nat
    BY <1>1, FS_Subset, FS_CardinalityType
  <2>4. N \subseteq later \cup {Min(N)}
    <3> SUFFICES ASSUME NEW y \in N, y # Min(N) PROVE y \in later
      OBVIOUS
    <3>1. y \in S /\ y \in Nat /\ Min(N) \in Nat
      BY <1>1, <2>1
    <3>2. Min(N) <= y
      BY <2>1
    <3> QED BY <3>1, <3>2
  <2>5. /\ IsFiniteSet(later \cup {Min(N)})
        /\ Cardinality(later \cup {Min(N)}) = IF Min(N) \in later THEN Cardinality(later) ELSE Cardinality(later) + 1
    BY <2>3, FS_AddElement, Zenon
  <2>6. Cardinality(N) <= Cardinality(later \cup {Min(N)})
    BY <2>4, <2>5, FS_Subset
  <2> QED BY <1>2, <2>2, <2>3, <2>5, <2>6
<1> QED BY <1>3, <1>4

\* The numbers a plan counts with.
LEMMA Counts ==
    ASSUME request \in Requests, cfg \in Configs
    PROVE  /\ cfg.max \in Nat /\ cfg.restore \in Nat /\ cfg.workers \in Workers
           /\ RestoreCount(LatestText(request), cfg.restore) \in Nat
           /\ IsFiniteSet(Current(request)) /\ Cardinality(Current(request)) \in Nat
           /\ IsFiniteSet(Assets(request)) /\ Cardinality(Assets(request)) \in Nat
           /\ Current(request) \subseteq Assets(request)
<1>1. cfg.max \in Nat /\ cfg.restore \in Nat /\ cfg.workers \in Workers
  BY ConfigsAssumption
<1>2. RestoreCount(LatestText(request), cfg.restore) \in Nat
  BY <1>1 DEF RestoreCount
<1>3. IsFiniteSet(Assets(request))
  <2>1. Assets(request) = 1..Len(request.images) /\ Len(request.images) \in Nat
    BY AssetTypes
  <2> QED BY <2>1, FS_Interval
<1>4. Current(request) \subseteq Assets(request)
  BY DEF Current
<1> QED BY <1>1, <1>2, <1>3, <1>4, FS_Subset, FS_CardinalityType

\* What is chosen is within the limit, holds the images of the turn, and is what
\* the estimate of tokens reserves room for.
LEMMA FullFits ==
    ASSUME request \in Requests, cfg \in Configs, ~TooMany(request, cfg)
    PROVE  /\ Cardinality(Full(request, cfg)) <= cfg.max
           /\ Current(request) \subseteq Full(request, cfg)
           /\ Full(request, cfg) = EstimatedFull(request, cfg)
<1> DEFINE current == Current(request)
           historical == Assets(request) \ current
           count == RestoreCount(LatestText(request), cfg.restore)
           slots == cfg.max - Cardinality(current)
           n == Least(count, slots)
<1>1. /\ cfg.max \in Nat /\ count \in Nat /\ slots \in Nat /\ n \in Nat /\ n <= slots
      /\ IsFiniteSet(current) /\ Cardinality(current) \in Nat
      /\ Cardinality(current) + slots = cfg.max
  <2>1. Cardinality(current) <= cfg.max
    BY Counts DEF TooMany
  <2>2. cfg.max \in Nat /\ count \in Nat /\ Cardinality(current) \in Nat /\ IsFiniteSet(current)
    BY Counts
  <2>3. slots \in Nat /\ Cardinality(current) + slots = cfg.max
    BY <2>1, <2>2
  <2> HIDE DEF slots, count
  <2>4. n \in Nat /\ n <= slots
    BY <2>2, <2>3 DEF Least
  <2> QED BY <2>2, <2>3, <2>4
<1>2. CASE cfg.retain
  <2>1. Full(request, cfg) = Assets(request) /\ EstimatedFull(request, cfg) = Assets(request)
    BY <1>2, Counts DEF Full, EstimatedFull
  <2>2. Cardinality(Assets(request)) <= cfg.max
    BY <1>1, <1>2, Counts DEF TooMany
  <2> QED BY <2>1, <2>2, Counts
<1>3. CASE ~cfg.retain
  <2>1. Full(request, cfg) = current \cup Newest(historical, n)
    BY <1>3 DEF Full
  <2>2. IsFiniteSet(Newest(historical, n)) /\ Cardinality(Newest(historical, n)) \in 0..n
    <3>1. historical \in SUBSET (1..Len(request.images)) /\ Len(request.images) \in Nat
      BY AssetTypes
    <3> QED BY <1>1, <3>1, NewestBound
  <2>3. /\ Cardinality(current \cup Newest(historical, n)) =
             Cardinality(current) + Cardinality(Newest(historical, n))
             - Cardinality(current \cap Newest(historical, n))
    BY <1>1, <2>2, FS_Union
  <2>4. current \cap Newest(historical, n) = {}
    BY DEF Newest
  <2>5. Cardinality(current \cap Newest(historical, n)) = 0
    BY <2>4, FS_EmptySet
  <2>6. Cardinality(Full(request, cfg)) <= cfg.max
    BY <1>1, <2>1, <2>2, <2>3, <2>5
  <2>7. Max({0, slots}) = slots
    <3>1. {0, slots} \in SUBSET (0..slots) /\ {0, slots} # {}
      BY <1>1
    <3>2. Max({0, slots}) \in {0, slots} /\ \A y \in {0, slots} : y <= Max({0, slots})
      BY <1>1, <3>1, GreatestElement
    <3>3. slots <= Max({0, slots}) /\ Max({0, slots}) \in Nat
      BY <1>1, <3>2
    <3> QED BY <1>1, <3>2, <3>3
  <2>8. EstimatedFull(request, cfg) = current \cup Newest(historical, n)
    BY <1>3, <2>7 DEF EstimatedFull
  <2> QED BY <2>1, <2>6, <2>8
<1> QED BY <1>2, <1>3

\* Every image is described for the text of the latest user turn, if it has one.
LEMMA ContextIsLatest ==
    ASSUME request \in Requests, LatestText(request) # {}, NEW a \in Assets(request)
    PROVE  ContextOf(request, a) = LatestText(request)
<1> DEFINE len == Len(request.items)
           turn == LatestUserTurn(request)
           at == request.images[a].at
           turns == {0} \cup {i \in DOMAIN request.items :
                       request.items[i].user /\ (request.items[i].text # {} \/ ~request.items[i].result)}
           said == {j \in 1..at : request.items[j].user /\ request.items[j].text # {}}
<1>1. DOMAIN request.items = 1..len /\ len \in Nat
  <2> DEFINE T == [user : BOOLEAN, result : BOOLEAN, text : SUBSET Marks]
  <2>1. request.items \in Seq(T)
    BY RequestsAssumption
  <2> HIDE DEF T
  <2> QED BY <2>1, LenProperties
<1>2. at \in 1..len
  <2> DEFINE T == [at : DOMAIN request.items, kind : Kinds, img : Images]
  <2>1. request.images \in Seq(T)
    BY RequestsAssumption
  <2>2. a \in 1..Len(request.images)
    BY AssetTypes
  <2> HIDE DEF T
  <2>3. request.images[a] \in T
    BY <2>1, <2>2, ElementOfSeq
  <2> QED BY <1>1, <2>3 DEF T
<1>3. turn \in turns /\ \A i \in turns : i <= turn
  <2>1. turns \in SUBSET (0..len) /\ turns # {}
    BY <1>1
  <2>2. turn = Max(turns)
    BY DEF LatestUserTurn
  <2> HIDE DEF turns, turn
  <2> QED BY <1>1, <2>1, <2>2, GreatestElement
<1>4. /\ turn \in 1..len /\ LatestText(request) = request.items[turn].text
      /\ request.items[turn].user
  BY <1>1, <1>3 DEF LatestText
<1>5. CASE at < turn
  BY <1>5 DEF ContextOf
<1>6. CASE ~(at < turn)
  <2>1. turn \in said
    BY <1>2, <1>4, <1>6
  <2>2. said \in SUBSET (0..len)
    BY <1>2
  <2>3. Max(said) \in said /\ \A j \in said : j <= Max(said)
    BY <1>1, <2>1, <2>2, GreatestElement
  <2>4. Max(said) \in turns
    <3>1. 1..at \subseteq 1..len
      BY <1>1, <1>2
    <3>2. /\ Max(said) \in 1..at /\ request.items[Max(said)].user
          /\ request.items[Max(said)].text # {}
      BY <2>3, Zenon
    <3> QED BY <1>1, <3>1, <3>2
  <2>5. Max(said) = turn
    <3>1. Max(said) <= turn /\ turn <= Max(said)
      BY <1>3, <2>1, <2>3, <2>4
    <3>2. Max(said) \in Nat /\ turn \in Nat
      BY <1>4, <2>2, <2>3
    <3> QED BY <3>1, <3>2
  <2>6. ContextOf(request, a) = request.items[Max(said)].text
    BY <1>6, <2>1 DEF ContextOf, Nearby
  <2> QED BY <1>4, <2>5, <2>6
<1> QED BY <1>5, <1>6

-----------------------------------------------------------------------------
\* The memories of the archived images and their budget.

\* A set of numbers that has 0 and the successor of each has all.
LEMMA Induction ==
    ASSUME NEW S \in SUBSET Nat, 0 \in S, \A n \in S : n + 1 \in S
    PROVE  S = Nat
<1> DEFINE T == Nat \ S
<1>1. ASSUME T # {} PROVE FALSE
  <2>1. T \in SUBSET Nat
    OBVIOUS
  <2> DEFINE x == Min(T)
  <2>2. x \in T /\ \A y \in T : x <= y
    BY <1>1, <2>1, LeastElement
  <2> HIDE DEF x
  <2>3. x \in Nat /\ x # 0 /\ x - 1 \in Nat /\ ~(x <= x - 1)
    BY <2>2
  <2>4. x - 1 \in S
    BY <2>2, <2>3
  <2>5. (x - 1) + 1 \in S
    BY <2>4
  <2> QED BY <2>2, <2>3, <2>5
<1> QED BY <1>1

\* The same from a number down to 1.
LEMMA Downward ==
    ASSUME NEW n \in Nat, NEW T, n + 1 \in T, \A a \in 1..n : a + 1 \in T => a \in T
    PROVE  \A a \in 1..(n + 1) : a \in T
<1> DEFINE D == {d \in Nat : d <= n => (n + 1) - d \in T}
<1>1. D \in SUBSET Nat /\ 0 \in D
  <2>1. (n + 1) - 0 = n + 1
    OBVIOUS
  <2> QED BY <2>1
<1>2. ASSUME NEW d \in D PROVE d + 1 \in D
  <2> SUFFICES ASSUME d + 1 <= n PROVE (n + 1) - (d + 1) \in T
    OBVIOUS
  <2>1. d \in Nat /\ (n + 1) - (d + 1) \in 1..n /\ ((n + 1) - (d + 1)) + 1 = (n + 1) - d /\ d <= n
    OBVIOUS
  <2>2. (n + 1) - d \in T
    BY <2>1
  <2> QED BY <2>1, <2>2
<1>3. D = Nat
  <2> HIDE DEF D
  <2> QED BY <1>1, <1>2, Induction
<1>4. ASSUME NEW a \in 1..(n + 1) PROVE a \in T
  <2>1. (n + 1) - a \in Nat /\ (n + 1) - a <= n /\ (n + 1) - ((n + 1) - a) = a
    OBVIOUS
  <2> QED BY <1>3, <2>1
<1> QED BY <1>4

\* f is the sum of the lengths of each set of numbers up to n.
Sums(f, n, length) ==
    /\ f \in [SUBSET (1..n) -> Nat]
    /\ f[{}] = 0
    /\ \A s \in SUBSET (1..n) : \A x \in s : f[s] = length[x] + f[s \ {x}]

\* There is such a function: the sums up to n + 1 extend those up to n.
LEMMA SumsExist ==
    ASSUME NEW n \in Nat, NEW length \in [1..n -> Nat]
    PROVE  \E f : Sums(f, n, length)
<1> DEFINE P == {m \in Nat : m <= n => \E f : Sums(f, m, length)}
<1>1. P \in SUBSET Nat /\ 0 \in P
  <2>1. Sums([s \in SUBSET (1..0) |-> 0], 0, length)
    BY DEF Sums
  <2> QED BY <2>1
<1>2. ASSUME NEW m \in P PROVE m + 1 \in P
  <2> SUFFICES ASSUME m + 1 <= n PROVE \E f : Sums(f, m + 1, length)
    OBVIOUS
  <2>1. m \in Nat /\ m <= n /\ m + 1 \in 1..n /\ m + 1 \notin 1..m
    OBVIOUS
  <2>2. PICK f : Sums(f, m, length)
    BY <2>1
  <2> DEFINE k == m + 1
             h == [s \in SUBSET (1..(m + 1)) |-> IF k \in s THEN length[k] + f[s \ {k}] ELSE f[s]]
  <2>3. \A s \in SUBSET (1..(m + 1)) : s \ {k} \in SUBSET (1..m) /\ (k \notin s => s \in SUBSET (1..m))
    BY <2>1
  <2>4. \A x \in 1..(m + 1) : length[x] \in Nat
    BY <2>1
  <2> HIDE DEF k
  <2>5. h \in [SUBSET (1..(m + 1)) -> Nat]
    <3>1. ASSUME NEW s \in SUBSET (1..(m + 1))
          PROVE  (IF k \in s THEN length[k] + f[s \ {k}] ELSE f[s]) \in Nat
      <4>1. CASE k \in s
        <5>1. length[k] \in Nat /\ f[s \ {k}] \in Nat
          BY <2>2, <2>3, <2>4, <4>1 DEF Sums
        <5> QED BY <4>1, <5>1
      <4>2. CASE k \notin s
        BY <2>2, <2>3, <4>2 DEF Sums
      <4> QED BY <4>1, <4>2
    <3> QED BY <3>1
  <2>6. h[{}] = 0
    BY <2>2 DEF Sums
  <2>7. ASSUME NEW s \in SUBSET (1..(m + 1)), NEW x \in s
        PROVE  h[s] = length[x] + h[s \ {x}]
    <3>1. s \ {x} \in SUBSET (1..(m + 1))
      OBVIOUS
    <3>2. CASE x = k
      BY <2>3, <3>1, <3>2
    <3>3. CASE x # k /\ k \notin s
      <4>1. h[s] = f[s] /\ h[s \ {x}] = f[s \ {x}]
        BY <3>1, <3>3
      <4> QED BY <2>2, <2>3, <3>3, <4>1 DEF Sums
    <3>4. CASE x # k /\ k \in s
      <4>1. h[s] = length[k] + f[s \ {k}] /\ h[s \ {x}] = length[k] + f[(s \ {x}) \ {k}]
        BY <3>1, <3>4
      <4>2. x \in s \ {k} /\ (s \ {k}) \ {x} = (s \ {x}) \ {k}
        BY <3>4
      <4>5. s \ {k} \in SUBSET (1..m)
        BY <2>3
      <4>6. f[s \ {k}] = length[x] + f[(s \ {k}) \ {x}]
        BY <2>2, <4>2, <4>5 DEF Sums
      <4>3. f[s \ {k}] = length[x] + f[(s \ {x}) \ {k}]
        BY <4>2, <4>6
      <4>4. length[k] \in Nat /\ length[x] \in Nat /\ f[(s \ {x}) \ {k}] \in Nat
        BY <2>2, <2>3, <2>4, <3>1, <3>4 DEF Sums
      <4> QED BY <4>1, <4>3, <4>4
    <3> QED BY <3>2, <3>3, <3>4
  <2> HIDE DEF h
  <2>8. Sums(h, m + 1, length)
    BY <2>5, <2>6, <2>7 DEF Sums
  <2> QED BY <2>8
<1>3. n \in P
  <2> HIDE DEF P
  <2> QED BY <1>1, <1>2, Induction
<1> QED BY <1>3

\* What MapThenSumSet computes for the lengths of the set T.
Total(length, T) == MapThenSumSet(LAMBDA a : length[a], T)

\* It takes the elements in some order, and every order gives the sum.
LEMMA TotalIs ==
    ASSUME NEW n \in Nat, NEW length, NEW f, Sums(f, n, length), NEW T \in SUBSET (1..n)
    PROVE  Total(length, T) = f[T]
<1> DEFINE Step(g, s) == IF s = {} THEN 0
                         ELSE LET x == CHOOSE x \in s : TRUE IN length[x] + g[s \ {x}]
           iter == CHOOSE g : g = [s \in SUBSET T |-> Step(g, s)]
           h == [s \in SUBSET T |-> f[s]]
<1>1. Total(length, T) = iter[T]
  BY DEF Total, MapThenSumSet, MapThenFoldSet
<1>2. \A s \in SUBSET T : s # {} => (CHOOSE x \in s : TRUE) \in s
  OBVIOUS
<1>3. h = [s \in SUBSET T |-> Step(h, s)]
  <2>1. ASSUME NEW s \in SUBSET T PROVE h[s] = Step(h, s)
    <3>1. CASE s = {}
      BY <3>1 DEF Sums
    <3>2. CASE s # {}
      <4> DEFINE x == CHOOSE x \in s : TRUE
      <4>1. x \in s
        BY <1>2, <3>2
      <4> HIDE DEF x
      <4>2. s \in SUBSET (1..n) /\ s \ {x} \in SUBSET T
        OBVIOUS
      <4>3. f[s] = length[x] + f[s \ {x}]
        BY <4>1, <4>2 DEF Sums
      <4>4. h[s] = length[x] + h[s \ {x}]
        BY <4>2, <4>3
      <4> QED BY <3>2, <4>4 DEF x
    <3> QED BY <3>1, <3>2
  <2> HIDE DEF Step
  <2> QED BY <2>1
<1>4. iter = [s \in SUBSET T |-> Step(iter, s)]
  <2> HIDE DEF Step, h
  <2> QED BY <1>3
<1> HIDE DEF iter
<1>5. \A s \in SUBSET T : iter[s] = Step(iter, s)
  <2> HIDE DEF Step
  <2> QED BY <1>4
<1> DEFINE Same(k) == \A s \in SUBSET T : Cardinality(s) = k => iter[s] = f[s]
           K == {k \in Nat : Same(k)}
<1>6. \A s \in SUBSET T : IsFiniteSet(s)
  <2>1. 1 \in Int /\ n \in Int
    OBVIOUS
  <2>2. IsFiniteSet(1..n)
    BY <2>1, FS_Interval
  <2> QED BY <2>2, FS_Subset
<1>7. Same(0)
  BY <1>5, <1>6, FS_EmptySet DEF Sums
<1>8. ASSUME NEW k \in Nat, Same(k) PROVE Same(k + 1)
  <2> SUFFICES ASSUME NEW s \in SUBSET T, Cardinality(s) = k + 1 PROVE iter[s] = f[s]
    OBVIOUS
  <2>1. s # {}
    BY FS_EmptySet
  <2> DEFINE x == CHOOSE x \in s : TRUE
  <2>2. x \in s
    BY <1>2, <2>1
  <2>3. iter[s] = length[x] + iter[s \ {x}]
    BY <1>5, <2>1
  <2> HIDE DEF x
  <2>4. s \ {x} \in SUBSET T /\ Cardinality(s \ {x}) = k
    <3>1. IsFiniteSet(s)
      BY <1>6
    <3>2. Cardinality(s \ {x}) = Cardinality(s) - 1
      BY <2>2, <3>1, FS_RemoveElement
    <3>3. s \ {x} \in SUBSET T
      OBVIOUS
    <3>4. Cardinality(s \ {x}) = k
      BY <3>2
    <3> QED BY <3>3, <3>4
  <2>5. iter[s \ {x}] = f[s \ {x}]
    BY <1>8, <2>4
  <2>6. s \in SUBSET (1..n)
    OBVIOUS
  <2>7. f[s] = length[x] + f[s \ {x}]
    BY <2>2, <2>6 DEF Sums
  <2> QED BY <2>3, <2>5, <2>7
<1>9. Cardinality(T) \in K
  <2> HIDE DEF Same
  <2>1. K \in SUBSET Nat /\ 0 \in K /\ \A k \in K : k + 1 \in K
    BY <1>7, <1>8
  <2> HIDE DEF K
  <2> QED BY <1>6, <2>1, FS_CardinalityType, Induction
<1> QED BY <1>1, <1>9

\* g is what is left of the budget for the images before each, from the newest.
Left(g, n, S, length, budget) ==
    /\ g \in [1..(n + 1) -> Nat]
    /\ g[n + 1] = budget
    /\ \A a \in 1..n :
          g[a] = IF a \in S /\ length[a] <= g[a + 1] THEN g[a + 1] - length[a] ELSE g[a + 1]

KeptWith(g, n, S, length, budget) ==
    /\ Left(g, n, S, length, budget)
    /\ Kept(n, S, length, budget) = {a \in S : length[a] <= g[a + 1]}

\* Kept looks at such a function.
LEMMA KeptIs ==
    ASSUME NEW n \in Nat, NEW S, NEW length \in [1..n -> Nat], NEW budget \in Nat
    PROVE  \E g : KeptWith(g, n, S, length, budget)
<1> DEFINE Def(g, a) == IF a > n THEN budget
                        ELSE IF a \in S /\ length[a] <= g[a + 1] THEN g[a + 1] - length[a] ELSE g[a + 1]
           From(m) == \E g \in [m..(n + 1) -> Nat] : \A a \in m..(n + 1) : g[a] = Def(g, a)
           left == CHOOSE left : left = [a \in 1..(n + 1) |-> Def(left, a)]
           T == {m \in 1..(n + 1) : From(m)}
<1>1. Kept(n, S, length, budget) = {a \in S : length[a] <= left[a + 1]}
  BY DEF Kept
<1>2. From(n + 1)
  <2> DEFINE g == [a \in (n + 1)..(n + 1) |-> budget]
  <2>1. g \in [(n + 1)..(n + 1) -> Nat] /\ \A a \in (n + 1)..(n + 1) : g[a] = Def(g, a)
    OBVIOUS
  <2> HIDE DEF g, Def
  <2> QED BY <2>1
<1>3. ASSUME NEW m \in 1..n, From(m + 1) PROVE From(m)
  <2>1. PICK g \in [(m + 1)..(n + 1) -> Nat] : \A a \in (m + 1)..(n + 1) : g[a] = Def(g, a)
    BY <1>3
  <2> DEFINE h == [a \in m..(n + 1) |-> IF a = m THEN Def(g, m) ELSE g[a]]
  <2>2. m + 1 \in (m + 1)..(n + 1) /\ m \in 1..n /\ length[m] \in Nat /\ ~(m > n)
    OBVIOUS
  <2>3. g[m + 1] \in Nat
    BY <2>2
  <2>4. Def(g, m) \in Nat
    BY <2>2, <2>3
  <2>5. \A a \in m..(n + 1) : a # m => a \in (m + 1)..(n + 1) /\ g[a] \in Nat
    OBVIOUS
  <2>6. h \in [m..(n + 1) -> Nat]
    <3> HIDE DEF Def
    <3> QED BY <2>4, <2>5
  <2>7. ASSUME NEW a \in m..(n + 1) PROVE h[a] = Def(h, a)
    <3>1. CASE a = m
      <4>1. h[a] = Def(g, m)
        BY <3>1
      <4>2. h[m + 1] = g[m + 1]
        <5>1. m + 1 \in m..(n + 1) /\ m + 1 # m
          OBVIOUS
        <5> HIDE DEF Def
        <5> QED BY <5>1
      <4> HIDE DEF h
      <4> QED BY <3>1, <4>1, <4>2
    <3>2. CASE a > n
      <4>1. a = n + 1 /\ a # m
        BY <3>2
      <4>2. h[a] = g[a]
        BY <4>1
      <4> HIDE DEF h
      <4> QED BY <2>1, <2>5, <3>2, <4>1, <4>2
    <3>3. CASE a # m /\ ~(a > n)
      <4>1. a \in (m + 1)..(n + 1) /\ a + 1 \in m..(n + 1) /\ a + 1 # m
        BY <3>3
      <4>2. h[a] = g[a] /\ h[a + 1] = g[a + 1]
        <5> HIDE DEF Def
        <5> QED BY <3>3, <4>1
      <4>3. g[a] = Def(g, a)
        BY <2>1, <4>1
      <4> HIDE DEF h
      <4> QED BY <3>3, <4>2, <4>3
    <3> QED BY <3>1, <3>2, <3>3
  <2> HIDE DEF h, Def
  <2> QED BY <2>6, <2>7
<1>4. From(1)
  <2> HIDE DEF From
  <2>1. n + 1 \in T /\ (\A a \in 1..n : a + 1 \in T => a \in T)
    BY <1>2, <1>3
  <2> HIDE DEF T
  <2>3. 1 \in 1..(n + 1)
    OBVIOUS
  <2>4. \A a \in 1..(n + 1) : a \in T
    BY <2>1, Downward
  <2>2. 1 \in T
    BY <2>3, <2>4
  <2> QED BY <2>2 DEF T
<1>5. PICK g \in [1..(n + 1) -> Nat] : \A a \in 1..(n + 1) : g[a] = Def(g, a)
  BY <1>4
<1>6. left = [a \in 1..(n + 1) |-> Def(left, a)]
  <2> HIDE DEF Def
  <2>1. g = [a \in 1..(n + 1) |-> Def(g, a)]
    BY <1>5
  <2> QED BY <2>1
<1> HIDE DEF left
<1>7. \A a \in 1..(n + 1) : left[a] = Def(left, a)
  <2> HIDE DEF Def
  <2> QED BY <1>6
<1>8. \A a \in 1..(n + 1) : left[a] \in Nat
  <2> DEFINE U == {a \in 1..(n + 1) : left[a] \in Nat}
  <2>1. n + 1 \in U
    BY <1>7
  <2>2. ASSUME NEW a \in 1..n, a + 1 \in U PROVE a \in U
    <3>1. a \in 1..(n + 1) /\ ~(a > n) /\ left[a + 1] \in Nat /\ length[a] \in Nat
      BY <2>2
    <3>2. left[a] = Def(left, a)
      BY <1>7, <3>1
    <3>3. CASE a \in S /\ length[a] <= left[a + 1]
      <4>1. left[a] = left[a + 1] - length[a]
        BY <3>1, <3>2, <3>3
      <4> QED BY <3>1, <3>3, <4>1
    <3>4. CASE ~(a \in S /\ length[a] <= left[a + 1])
      <4>1. left[a] = left[a + 1]
        BY <3>1, <3>2, <3>4
      <4> QED BY <3>1, <4>1
    <3> QED BY <3>3, <3>4
  <2> HIDE DEF U
  <2>3. \A a \in 1..(n + 1) : a \in U
    BY <2>1, <2>2, Downward
  <2> QED BY <2>3 DEF U
<1>9. Left(left, n, S, length, budget)
  <2>1. left \in [1..(n + 1) -> Nat]
    <3> HIDE DEF Def
    <3> QED BY <1>6, <1>8
  <2>2. \A a \in 1..n : a \in 1..(n + 1) /\ ~(a > n)
    OBVIOUS
  <2>3. n + 1 \in 1..(n + 1) /\ n + 1 > n
    OBVIOUS
  <2> QED BY <1>7, <2>1, <2>2, <2>3 DEF Left
<1> QED BY <1>1, <1>9 DEF KeptWith

\* The lengths of those kept fit the budget, and one that is passed over is longer
\* than each older one that is kept.
LEMMA KeptFair ==
    ASSUME NEW n \in Nat, NEW S \in SUBSET (1..n), NEW length \in [1..n -> Nat],
           NEW budget \in Nat
    PROVE  LET kept == Kept(n, S, length, budget)
           IN  /\ kept \subseteq S
               /\ Total(length, kept) <= budget
               /\ \A a \in kept, b \in S \ kept : a < b => length[a] < length[b]
<1>0. PICK kept : kept = Kept(n, S, length, budget)
  OBVIOUS
<1> DEFINE After(a) == {b \in kept : a <= b}
<1>k. PICK g : KeptWith(g, n, S, length, budget)
  BY KeptIs
<1>1. Left(g, n, S, length, budget) /\ kept = {a \in S : length[a] <= g[a + 1]}
  BY <1>0, <1>k DEF KeptWith
<1>2. PICK f : Sums(f, n, length)
  BY SumsExist
<1>3. kept \in SUBSET (1..n) /\ kept \subseteq S
  BY <1>1
<1>r. \A b \in kept : b \in 1..n
  BY <1>3
<1>4. \A a \in 1..n : a \in 1..(n + 1) /\ a + 1 \in 1..(n + 1)
  OBVIOUS
<1>5. ASSUME NEW a \in 1..n
      PROVE  /\ g[a] \in Nat /\ g[a + 1] \in Nat /\ length[a] \in Nat
             /\ a \in kept => g[a] = g[a + 1] - length[a]
             /\ a \notin kept => g[a] = g[a + 1]
  BY <1>1, <1>4 DEF Left
<1>6. \A a \in 1..(n + 1) : g[a] + f[After(a)] = budget
  <2> DEFINE T == {a \in 1..(n + 1) : g[a] + f[After(a)] = budget}
  <2>1. n + 1 \in T
    <3>1. After(n + 1) = {}
      BY <1>r
    <3>2. g[n + 1] = budget /\ f[{}] = 0 /\ n + 1 \in 1..(n + 1)
      BY <1>1, <1>2 DEF Left, Sums
    <3>3. g[n + 1] + f[After(n + 1)] = budget + 0
      <4> HIDE DEF After
      <4> QED BY <3>1, <3>2
    <3>4. g[n + 1] + f[After(n + 1)] = budget
      <4> HIDE DEF After
      <4> QED BY <3>3
    <3> HIDE DEF After
    <3> QED BY <3>2, <3>4
  <2>2. ASSUME NEW a \in 1..n, a + 1 \in T PROVE a \in T
    <3>1. After(a) \in SUBSET (1..n) /\ After(a + 1) \in SUBSET (1..n)
      BY <1>3
    <3>2. f[After(a)] \in Nat /\ f[After(a + 1)] \in Nat
      <4> HIDE DEF After
      <4> QED BY <1>2, <3>1 DEF Sums
    <3>3. CASE a \in kept
      <4>6. a \in After(a)
        BY <1>r, <3>3
      <4>7. After(a) \ {a} = After(a + 1)
        <5>1. \A b \in kept : a <= b /\ b # a <=> a + 1 <= b
          BY <1>r
        <5> QED BY <5>1
      <4>1. a \in After(a) /\ After(a) \ {a} = After(a + 1)
        BY <4>6, <4>7
      <4> HIDE DEF After
      <4>5. f[After(a)] = length[a] + f[After(a) \ {a}]
        BY <1>2, <3>1, <4>1 DEF Sums
      <4>2. f[After(a)] = length[a] + f[After(a + 1)]
        BY <4>1, <4>5
      <4>3. g[a + 1] + f[After(a + 1)] = budget /\ a \in 1..(n + 1)
        BY <2>2, <1>4
      <4>4. g[a] + f[After(a)] = budget
        BY <1>5, <3>2, <3>3, <4>2, <4>3
      <4> QED BY <4>3, <4>4
    <3>4. CASE a \notin kept
      <4>1. After(a) = After(a + 1)
        BY <1>r, <3>4
      <4> QED BY <1>4, <1>5, <2>2, <3>4, <4>1
    <3> QED BY <3>3, <3>4
  <2> HIDE DEF T
  <2>3. \A a \in 1..(n + 1) : a \in T
    BY <2>1, <2>2, Downward
  <2> QED BY <2>3 DEF T
<1>7. ASSUME NEW b \in 1..(n + 1) PROVE \A a \in 1..(n + 1) : a <= b => g[a] <= g[b]
  <2> DEFINE T == {a \in 1..(n + 1) : a <= b => g[a] <= g[b]}
  <2>1. \A a \in 1..(n + 1) : g[a] \in Nat
    BY <1>1 DEF Left
  <2>2. n + 1 \in T
    <3>1. n + 1 \in 1..(n + 1) /\ (n + 1 <= b => n + 1 = b)
      OBVIOUS
    <3> QED BY <2>1, <3>1
  <2>3. ASSUME NEW a \in 1..n, a + 1 \in T PROVE a \in T
    <3>1. CASE a + 1 <= b
      <4>2. g[a + 1] <= g[b]
        BY <2>3, <3>1
      <4>3. g[a] <= g[a + 1]
        <5>1. g[a] \in Nat /\ g[a + 1] \in Nat /\ length[a] \in Nat
          BY <1>5
        <5>2. g[a] = g[a + 1] \/ g[a] = g[a + 1] - length[a]
          BY <1>5
        <5> QED BY <5>1, <5>2
      <4>1. g[a + 1] <= g[b] /\ g[a] <= g[a + 1]
        BY <4>2, <4>3
      <4> QED BY <1>4, <2>1, <4>1
    <3>2. CASE ~(a + 1 <= b)
      <4>1. a <= b => a = b
        BY <3>2
      <4> QED BY <1>4, <2>1, <4>1
    <3> QED BY <3>1, <3>2
  <2> HIDE DEF T
  <2>4. \A a \in 1..(n + 1) : a \in T
    BY <2>2, <2>3, Downward
  <2> QED BY <2>4 DEF T
<1>8. Total(length, kept) <= budget
  <2>1. After(1) = kept /\ 1 \in 1..(n + 1)
    BY <1>r
  <2>2. g[1] + f[kept] = budget
    BY <1>6, <2>1
  <2>3. g[1] \in Nat /\ f[kept] \in Nat
    BY <1>1, <1>2, <1>3, <2>1 DEF Left, Sums
  <2>4. Total(length, kept) = f[kept]
    BY <1>2, <1>3, TotalIs
  <2> QED BY <2>2, <2>3, <2>4
<1>9. ASSUME NEW a \in kept, NEW b \in S \ kept, a < b PROVE length[a] < length[b]
  <2>1. a \in 1..n /\ b \in 1..n /\ a + 1 <= b + 1
    BY <1>3, <1>9
  <2>2. length[a] <= g[a + 1] /\ ~(length[b] <= g[b + 1])
    BY <1>1
  <2>3. g[a + 1] <= g[b + 1]
    BY <1>4, <1>7, <2>1
  <2> QED BY <1>5, <2>1, <2>2, <2>3
<1> QED BY <1>3, <1>8, <1>9, <1>0

\* So it is for the memories of a request that is planned.
LEMMA RecallIsFair == TypeOK => RecallFair
<1> SUFFICES ASSUME TypeOK PROVE RecallFair
  OBVIOUS
<1> DEFINE n == Len(request.images)
           archived == Archived(request, cfg)
           S == {a \in archived : Remembers(a)}
           recalled == Kept(n, S, Sizes, MemoryBudget)
<1>1. Assets(request) = 1..n /\ n \in Nat /\ \A a \in Assets(request) : ImageOf(a) \in Images
  BY AssetTypes DEF TypeOK
<1>2. Sizes \in [1..n -> Nat] /\ MemoryBudget \in Nat
  BY <1>1, MemoryAssumption DEF Sizes
<1>3. S \in SUBSET (1..n)
  BY <1>1 DEF Archived
<1>4. Recalled(archived) = recalled
  BY DEF Recalled
<1> HIDE DEF n, S
<1>5. /\ recalled \subseteq S
      /\ Total(Sizes, recalled) <= MemoryBudget
      /\ \A a \in recalled, b \in S \ recalled : a < b => Sizes[a] < Sizes[b]
  BY <1>1, <1>2, <1>3, KeptFair
<1> HIDE DEF archived, recalled
<1>6. MapThenSumSet(LAMBDA a : Sizes[a], Recalled(archived)) <= MemoryBudget
  BY <1>4, <1>5 DEF Total
<1>7. \A a \in Recalled(archived), b \in {b \in archived : Remembers(b)} \ Recalled(archived) :
         a < b => Sizes[a] < Sizes[b]
  BY <1>4, <1>5 DEF S
<1> QED BY <1>6, <1>7 DEF RecallFair, archived

\* Whatever a text restores, the images described and the workers at work stay
\* within the configured numbers, each image is described for the question of
\* the latest turn, and the memories put in the places of the others fit their
\* budget, an older one before a newer one only if it is shorter
\* (image_transform.go:70-137, token_estimator.go:42-63).
THEOREM KeepsLimits == Spec => []WithinLimits
<1>1. TransformInv => Limits
  <2> SUFFICES ASSUME TransformInv, pc \notin {"plan", "refused"}
               PROVE  /\ Cardinality(full) <= cfg.max /\ Current(request) \subseteq full
                      /\ full = EstimatedFull(request, cfg)
                      /\ Cardinality(Busy) <= cfg.workers
                      /\ LatestText(request) # {} =>
                            \A a \in full : ContextOf(request, a) = LatestText(request)
    BY DEF Limits
  <2>1. /\ request \in Requests /\ cfg \in Configs
        /\ full = Full(request, cfg) /\ ~TooMany(request, cfg)
        /\ \A w \in Workers : wpc[w] # "off" => w <= cfg.workers
    BY DEF TransformInv, TypeOK, Chosen
  <2>2. Cardinality(Busy) <= cfg.workers
    <3>1. cfg.workers \in Nat
      BY <2>1, Counts, MemoryAssumption DEF Workers
    <3>2. Busy \subseteq 1..cfg.workers
      BY <2>1, <3>1, MemoryAssumption DEF Busy, Workers
    <3>3. IsFiniteSet(1..cfg.workers) /\ Cardinality(1..cfg.workers) <= cfg.workers
      <4>1. /\ IsFiniteSet(1..cfg.workers)
            /\ Cardinality(1..cfg.workers) = IF 1 > cfg.workers THEN 0 ELSE cfg.workers - 1 + 1
        <5>1. 1 \in Int /\ cfg.workers \in Int
          BY <3>1
        <5> QED BY <5>1, FS_Interval, Zenon
      <4> QED BY <3>1, <4>1
    <3>4. Cardinality(Busy) <= Cardinality(1..cfg.workers) /\ IsFiniteSet(Busy)
      BY <3>2, <3>3, FS_Subset
    <3>5. Cardinality(Busy) \in Nat /\ Cardinality(1..cfg.workers) \in Nat
      BY <3>3, <3>4, FS_CardinalityType
    <3> QED BY <3>1, <3>3, <3>4, <3>5
  <2> QED BY <2>1, <2>2, FullFits, FullTypes, ContextIsLatest
<1>2. TransformInv => WithinLimits
  BY <1>1, RecallIsFair DEF TransformInv, WithinLimits
<1> QED BY <1>2, TransformInvariance, PTL
=============================================================================
