--------------------------- MODULE LifecycleProofs ---------------------------
(***************************************************************************)
(* Proofs about Lifecycle: its inductive invariant and InForce, for any    *)
(* number of paths, requests and lifecycle calls.  One lemma per action,   *)
(* one step per part of the invariant.                                     *)
(*                                                                         *)
(* Then proofs about Settings: SoundSettings, for any configurations the   *)
(* host may give and any limits of clients.  First what the loops over     *)
(* lists of models compute, then what normalizeConfig returns, then the    *)
(* chains and the numbers of what it accepts.                              *)
(***************************************************************************)
EXTENDS Lifecycle, Settings, SequenceTheorems, FiniteSetTheorems, WellFoundedInduction, TLAPS

\* What pruneLocked leaves and pushes out: nothing but what has expired goes
\* unless there is more than the limit allows.
LEMMA PrunedKeeps ==
    ASSUME NEW values, NEW max, NEW kept \in Pruned(values, max)
    PROVE  /\ kept \subseteq values \ expired
           /\ PushedOut(values, kept) \subseteq values
           /\ values \ (expired \cup PushedOut(values, kept)) \subseteq kept
  BY DEF Pruned, PushedOut

\* What is pushed out is pushed out of more than the limit.
LEMMA PrunedFacts ==
    ASSUME NEW S, IsFiniteSet(S), NEW values \in SUBSET S, NEW max \in Nat,
           NEW kept \in Pruned(values, max), PushedOut(values, kept) # {}
    PROVE  Cardinality(S) > max
<1> DEFINE live == values \ expired
<1>1. CASE Cardinality(live) <= max
  BY <1>1 DEF Pruned, PushedOut
<1>2. CASE ~(Cardinality(live) <= max)
  <2>1. kept \subseteq live
    BY <1>2 DEF Pruned
  <2>2. live \subseteq S
    OBVIOUS
  <2> HIDE DEF live
  <2>3. Cardinality(live) \in Nat /\ Cardinality(S) \in Nat /\ Cardinality(live) <= Cardinality(S)
    BY <2>2, FS_Subset, FS_CardinalityType
  <2>4. Cardinality(S) > max
    BY <1>2, <2>3
  <2> QED BY <2>1, <2>4 DEF PushedOut, live
<1> QED BY <1>1, <1>2

\* A prune of one cache: the others stay as they are, and only a cache whose
\* writer runs pushes anything out.
LEMMA PruneFacts ==
    ASSUME TypeOK, NEW c \in Made, NEW values \in SUBSET Requests, NEW max \in Limits,
           Prune(c, values, max)
    PROVE  /\ entries' \in [Made -> SUBSET Requests]
           /\ entries'[c] \subseteq values
           /\ \A d \in Made : d # c => entries'[d] = entries[d]
           /\ evicted \subseteq evicted' /\ evicted' \subseteq Requests
           /\ over[c] => evicted' = evicted
           /\ ~over[c] => values \ (expired \cup evicted') \subseteq entries'[c]
           /\ \A S \in SUBSET Requests :
                values \subseteq S /\ evicted' # evicted => Cardinality(S) > max
<1>1. PICK kept \in Pruned(values, max) :
        /\ entries' = [entries EXCEPT ![c] = kept]
        /\ evicted' = IF over[c] THEN evicted ELSE evicted \cup PushedOut(values, kept)
  BY DEF Prune
<1>2. max \in Nat /\ IsFiniteSet(Requests)
  BY LimitsAssumption, CallsAssumption
<1>3. /\ kept \subseteq values \ expired
      /\ PushedOut(values, kept) \subseteq values
      /\ values \ (expired \cup PushedOut(values, kept)) \subseteq kept
  BY PrunedKeeps
<1>4. ASSUME NEW S \in SUBSET Requests, values \subseteq S, evicted' # evicted
      PROVE  Cardinality(S) > max
  <2>1. IsFiniteSet(S) /\ values \in SUBSET S
    BY <1>2, <1>4, FS_Subset
  <2>2. PushedOut(values, kept) # {}
    BY <1>1, <1>4
  <2> QED BY <1>2, <2>1, <2>2, PrunedFacts
<1>5. /\ entries' \in [Made -> SUBSET Requests] /\ entries'[c] = kept
      /\ \A d \in Made : d # c => entries'[d] = entries[d]
  BY <1>1, <1>3 DEF TypeOK
<1>6. evicted \subseteq evicted' /\ evicted' \subseteq Requests /\ (over[c] => evicted' = evicted)
  BY <1>1, <1>3 DEF TypeOK
<1>7. ~over[c] => values \ (expired \cup evicted') \subseteq entries'[c]
  BY <1>1, <1>3, <1>5
<1> QED BY <1>3, <1>4, <1>5, <1>6, <1>7

\* newMemoCache adds an open cache of the path and limit, with what it took of the
\* file, and leaves the others alone.
LEMMA NewCacheFacts ==
    ASSUME TypeOK, NEW p \in Paths, NEW max \in Limits, NewCache(p, max)
    PROVE  /\ made' = made + 1 /\ made' \in Nat
           /\ Made' = Made \cup {made + 1} /\ made + 1 \notin Made
           /\ 0..made' = (0..made) \cup {made + 1} /\ made + 1 \notin 0..made
           /\ Made \subseteq Made' /\ 0..made \subseteq 0..made'
           /\ path' \in [Made' -> Paths] /\ stopped' \in [Made' -> BOOLEAN]
           /\ over' \in [Made' -> BOOLEAN] /\ dirty' \in [Made' -> BOOLEAN]
           /\ entries' \in [Made' -> SUBSET Requests] /\ limit' \in [Made' -> Limits]
           /\ evicted' \subseteq Requests
           /\ \A c \in Made : path'[c] = path[c] /\ stopped'[c] = stopped[c] /\ over'[c] = over[c]
           /\ \A c \in Made : limit'[c] = limit[c] /\ dirty'[c] = dirty[c] /\ entries'[c] = entries[c]
           /\ path'[made + 1] = p /\ stopped'[made + 1] = FALSE /\ over'[made + 1] = FALSE
           /\ limit'[made + 1] = max /\ dirty'[made + 1] = FALSE
           /\ evicted \subseteq evicted'
           /\ entries'[made + 1] \subseteq file[p]
           /\ file[p] \ (expired \cup evicted') \subseteq entries'[made + 1]
           /\ \A S \in SUBSET Requests :
                file[p] \subseteq S /\ evicted' # evicted => Cardinality(S) > max
<1>1. made \in Nat /\ made' = made + 1
  BY DEF TypeOK, NewCache
<1>2. /\ Made' = Made \cup {made + 1} /\ made + 1 \notin Made
      /\ 0..made' = (0..made) \cup {made + 1} /\ made + 1 \notin 0..made
      /\ Made' = 1..(made + 1)
      /\ \A c \in Made : c \in 1..(made + 1) /\ c # made + 1
  BY <1>1 DEF Made
<1>3. path' \in [Made' -> Paths] /\ path'[made + 1] = p /\ \A c \in Made : path'[c] = path[c]
  BY <1>2 DEF TypeOK, NewCache, Extended
<1>4. /\ stopped' \in [Made' -> BOOLEAN] /\ stopped'[made + 1] = FALSE
      /\ \A c \in Made : stopped'[c] = stopped[c]
  BY <1>2 DEF TypeOK, NewCache, Extended
<1>5. /\ over' \in [Made' -> BOOLEAN] /\ over'[made + 1] = FALSE
      /\ \A c \in Made : over'[c] = over[c]
  BY <1>2 DEF TypeOK, NewCache, Extended
<1>6. /\ dirty' \in [Made' -> BOOLEAN] /\ dirty'[made + 1] = FALSE
      /\ \A c \in Made : dirty'[c] = dirty[c]
  BY <1>2 DEF TypeOK, NewCache, Extended
<1>7. /\ limit' \in [Made' -> Limits] /\ limit'[made + 1] = max
      /\ \A c \in Made : limit'[c] = limit[c]
  BY <1>2 DEF TypeOK, NewCache, Extended
<1>8. PICK kept \in Pruned(file[p], max) :
        entries' = Extended(entries, kept) /\ evicted' = evicted \cup PushedOut(file[p], kept)
  BY DEF NewCache
<1>9. max \in Nat /\ IsFiniteSet(Requests) /\ file[p] \in SUBSET Requests
  BY LimitsAssumption, CallsAssumption DEF TypeOK
<1>10. /\ kept \subseteq file[p] \ expired
       /\ PushedOut(file[p], kept) \subseteq file[p]
       /\ file[p] \ (expired \cup PushedOut(file[p], kept)) \subseteq kept
  BY PrunedKeeps
<1>11. /\ entries' \in [Made' -> SUBSET Requests] /\ entries'[made + 1] = kept
       /\ \A c \in Made : entries'[c] = entries[c]
  BY <1>2, <1>8, <1>9, <1>10 DEF TypeOK, Extended
<1>12. evicted \subseteq evicted' /\ evicted' \subseteq Requests
  BY <1>8, <1>9, <1>10 DEF TypeOK
<1>13. /\ entries'[made + 1] \subseteq file[p]
       /\ file[p] \ (expired \cup evicted') \subseteq entries'[made + 1]
  BY <1>8, <1>10, <1>11
<1>14. ASSUME NEW S \in SUBSET Requests, file[p] \subseteq S, evicted' # evicted
       PROVE  Cardinality(S) > max
  <2>1. IsFiniteSet(S) /\ file[p] \in SUBSET S
    BY <1>9, <1>14, FS_Subset
  <2>2. PushedOut(file[p], kept) # {}
    BY <1>8, <1>14
  <2> QED BY <1>9, <2>1, <2>2, PrunedFacts
<1>15. Made \subseteq Made' /\ 0..made \subseteq 0..made' /\ made' \in Nat
  BY <1>1, <1>2
<1> QED BY <1>1, <1>2, <1>3, <1>4, <1>5, <1>6, <1>7, <1>11, <1>12, <1>13, <1>14, <1>15

-----------------------------------------------------------------------------
\* The writers: over and dirty only.

LEMMA FlushInv ==
    ASSUME CallsInv, NEW c \in Made, Writer(c)
    PROVE  CallsInv'
<1> USE DEF Made
<1>u. /\ UNCHANGED <<made, path, limit, stopped, configured, calls, host, pc, uses, expired, late,
                     leaked, down>>
      /\ Prune(c, entries[c], limit[c])
      /\ file' = [file EXCEPT ![path[c]] = entries'[c]]
      /\ dirty' = [dirty EXCEPT ![c] = FALSE]
      /\ over' = over \/ (stopped[c] /\ over' = [over EXCEPT ![c] = TRUE])
  BY DEF Writer, Flush, LastFlush, Save, requests
<1>t. TypeOK /\ Sensible /\ KnownWriters /\ Fresh /\ Fitting
  BY DEF CallsInv
<1>1. TypeOK'
  <2>0. path[c] \in Paths /\ entries[c] \in SUBSET Requests /\ limit[c] \in Limits
    BY <1>t DEF TypeOK
  <2>1. entries' \in [Made -> SUBSET Requests] /\ evicted' \subseteq Requests
    <3>1. c \in Made
      OBVIOUS
    <3> HIDE DEF Made
    <3> QED BY <1>t, <1>u, <2>0, <3>1, PruneFacts
  <2>2. file' \in [Paths -> SUBSET Requests] /\ dirty' \in [Made -> BOOLEAN] /\ over' \in [Made -> BOOLEAN]
    BY <1>t, <1>u, <2>0, <2>1 DEF TypeOK
  <2> QED BY <1>t, <1>u, <2>1, <2>2 DEF TypeOK
<1>2. Sensible'
  <2>1. \A d \in Made : over'[d] => stopped[d]
    BY <1>t, <1>u DEF TypeOK, Sensible
  <2> QED BY <1>t, <1>u, <2>1 DEF Sensible, Nothing, Idle
<1>3. KnownWriters' /\ Fresh' /\ Fitting'
  BY <1>t, <1>u DEF KnownWriters, InHand, Fresh, Fitting
<1> QED BY <1>1, <1>2, <1>3 DEF CallsInv

-----------------------------------------------------------------------------
\* The lifecycle calls.

LEMMA ConfigureInv ==
    ASSUME CallsInv, Configure
    PROVE  CallsInv'
<1>t. TypeOK /\ Sensible /\ KnownWriters /\ Fresh /\ Fitting
  BY DEF CallsInv
<1>p. PICK p \in Paths, max \in Limits :
        LET old == configured.cache
            kept == old # 0 /\ path[old] = p
        IN  /\ host' = [at |-> IF kept THEN "store" ELSE IF old # 0 THEN "close" ELSE "make",
                        shutdown |-> FALSE, path |-> p, limit |-> max, seen |-> old,
                        cache |-> IF kept THEN old ELSE 0]
            /\ IF kept THEN SetLimit(old, max) ELSE UNCHANGED caches
  BY DEF Configure
<1>u. UNCHANGED <<made, path, stopped, over, file, configured, pc, uses, expired, late, leaked, down>>
  BY <1>p DEF Configure, SetLimit, caches, requests
<1>c. calls' \in 0..MaxCalls
  BY <1>t, CallsAssumption DEF TypeOK, Configure
<1>i. host.at = "idle" /\ host.seen = 0
  BY <1>t DEF Configure, Sensible, Idle
<1>d. configured.cache \in 0..made /\ (configured.cache # 0 => configured.cache \in Made)
  BY <1>t DEF TypeOK, Made
<1>h. /\ host'.at \in {"store", "close", "make"} /\ host'.shutdown = FALSE /\ host'.path = p
      /\ host'.limit = max /\ host'.seen = configured.cache
      /\ host'.at = "store" => /\ host'.cache = configured.cache /\ configured.cache # 0
                               /\ path[configured.cache] = p
      /\ host'.at = "close" => configured.cache # 0
      /\ host'.at = "make" => configured.cache = 0
      /\ host' \in [at : {"idle", "close", "wait", "make", "store"}, shutdown : BOOLEAN,
                    path : Paths, limit : Limits, seen : 0..made, cache : 0..made]
  BY <1>p, <1>d, <1>t DEF TypeOK
<1>l. /\ limit' \in [Made -> Limits] /\ dirty' \in [Made -> BOOLEAN]
      /\ entries' \in [Made -> SUBSET Requests] /\ evicted' \subseteq Requests
      /\ \A c \in Made : c # configured.cache \/ host'.at # "store" => limit'[c] = limit[c]
      /\ host'.at = "store" => limit'[configured.cache] = max
  <2>1. CASE host'.at = "store"
    <3>1. SetLimit(configured.cache, max) /\ configured.cache \in Made
      BY <1>p, <1>d, <1>h, <2>1
    <3>2. entries[configured.cache] \in SUBSET Requests
      BY <1>t, <3>1 DEF TypeOK
    <3>3. entries' \in [Made -> SUBSET Requests] /\ evicted' \subseteq Requests
      BY <1>t, <3>1, <3>2, PruneFacts DEF SetLimit
    <3> QED BY <1>t, <2>1, <3>1, <3>3 DEF SetLimit, TypeOK
  <2>2. CASE host'.at # "store"
    <3>1. UNCHANGED caches
      BY <1>p, <2>2
    <3> QED BY <1>t, <2>2, <3>1 DEF caches, TypeOK
  <2> QED BY <2>1, <2>2
<1>1. TypeOK'
  BY <1>t, <1>u, <1>c, <1>h, <1>l DEF TypeOK, Made
<1>2. Sensible'
  BY <1>t, <1>u, <1>h, <1>d, <1>i DEF Sensible, Made, Nothing
<1>3. KnownWriters'
  BY <1>t, <1>u, <1>h, <1>i DEF KnownWriters, InHand, Made
<1>4. Fresh'
  <2> SUFFICES ASSUME NEW r \in Requests, pc[r] = "store"
               PROVE  /\ uses[r] \notin {configured.cache, host'.seen}
                      /\ host'.at = "store" => uses[r] # host'.cache
                      /\ \A s \in Requests : pc[s] = "store" /\ uses[s] = uses[r] => s = r
                      /\ path[uses[r]] = DefaultPath /\ limit'[uses[r]] = DefaultMaxEntries
                      /\ ~stopped[uses[r]]
    BY <1>u DEF Fresh
  <2>1. uses[r] \in Made /\ uses[r] # configured.cache
    BY <1>t DEF Sensible, Fresh
  <2>2. limit'[uses[r]] = limit[uses[r]]
    BY <1>l, <2>1
  <2> QED BY <1>t, <1>h, <2>1, <2>2 DEF Fresh
<1>5. Fitting'
  <2>1. host'.at = "store" =>
          /\ path[host'.cache] = host'.path /\ limit'[host'.cache] = host'.limit
          /\ stopped[host'.cache] => host'.cache \in down /\ host'.cache = host'.seen
    BY <1>t, <1>h, <1>i, <1>l DEF Fitting
  <2>2. configured.cache # 0 =>
          /\ path[configured.cache] = configured.path
          /\ limit'[configured.cache] = configured.limit
               \/ (host'.at = "store" /\ host'.cache = configured.cache)
          /\ stopped[configured.cache] =>
               configured.cache \in down \/ (host'.at # "idle" /\ configured.cache = host'.seen)
    BY <1>t, <1>d, <1>h, <1>i, <1>l DEF Fitting
  <2> QED BY <1>u, <2>1, <2>2 DEF Fitting
<1> QED BY <1>1, <1>2, <1>3, <1>4, <1>5 DEF CallsInv

LEMMA RefusedInv ==
    ASSUME CallsInv, ConfigureRefused
    PROVE  CallsInv'
<1>u. UNCHANGED <<made, path, limit, stopped, over, entries, dirty, evicted, file, configured, host, pc, uses,
                expired, late, leaked, down>>
  BY DEF ConfigureRefused, caches, requests
<1>c. calls' \in 0..MaxCalls
  BY CallsAssumption DEF CallsInv, TypeOK, ConfigureRefused
<1>1. TypeOK'
  BY <1>u, <1>c DEF CallsInv, TypeOK, Made
<1>2. Sensible' /\ KnownWriters' /\ Fresh' /\ Fitting'
  BY <1>u DEF CallsInv, Sensible, KnownWriters, Fresh, Fitting, InHand, Made, Nothing, Idle
<1> QED BY <1>1, <1>2 DEF CallsInv

LEMMA ShutdownInv ==
    ASSUME CallsInv, Shutdown
    PROVE  CallsInv'
<1>t. TypeOK /\ Sensible /\ KnownWriters /\ Fresh /\ Fitting
  BY DEF CallsInv
<1>u. UNCHANGED <<made, path, limit, stopped, over, entries, dirty, evicted, file, configured, pc, uses,
                expired, late, leaked>>
  BY DEF Shutdown, caches, requests
<1>c. calls' \in 0..MaxCalls
  BY <1>t, CallsAssumption DEF TypeOK, Shutdown
<1>i. host = Idle /\ host.at = "idle" /\ host.seen = 0
  BY <1>t DEF Shutdown, Sensible, Idle
<1>d. configured.cache \in 0..made /\ (configured.cache # 0 => configured.cache \in Made)
  BY <1>t DEF TypeOK, Made
<1>a. CASE configured.cache = 0
  <2>u. UNCHANGED <<host, down>>
    BY <1>a DEF Shutdown
  <2>1. TypeOK'
    BY <1>t, <1>u, <1>c, <2>u DEF TypeOK, Made
  <2>2. Sensible' /\ KnownWriters' /\ Fresh' /\ Fitting'
    BY <1>t, <1>u, <2>u DEF Sensible, KnownWriters, Fresh, Fitting, InHand, Made, Nothing, Idle
  <2> QED BY <2>1, <2>2 DEF CallsInv
<1>b. CASE configured.cache # 0
  <2>h. /\ host' = [Idle EXCEPT !.at = "close", !.shutdown = TRUE, !.seen = configured.cache]
        /\ down' = down \cup {configured.cache}
    BY <1>b DEF Shutdown
  <2>g. /\ host'.at = "close" /\ host'.seen = configured.cache /\ host'.shutdown = TRUE
        /\ host' \in [at : {"idle", "close", "wait", "make", "store"}, shutdown : BOOLEAN,
                      path : Paths, limit : Limits, seen : 0..made, cache : 0..made]
    <3>1. host' = [at |-> "close", shutdown |-> TRUE, path |-> DefaultPath, limit |-> DefaultMaxEntries,
                   seen |-> configured.cache, cache |-> 0]
      BY <2>h DEF Idle
    <3>2. 0 \in 0..made
      BY <1>t DEF TypeOK
    <3> QED BY <1>d, <3>1, <3>2, PathsAssumption, LimitsAssumption
  <2>1. TypeOK'
    BY <1>t, <1>u, <1>c, <1>d, <1>b, <2>h, <2>g DEF TypeOK, Made
  <2>2. Sensible'
    BY <1>t, <1>u, <1>d, <1>b, <1>i, <2>h, <2>g DEF Sensible, Made, Nothing
  <2>3. KnownWriters'
    BY <1>t, <1>u, <1>i, <2>g DEF KnownWriters, InHand, Made
  <2>4. Fresh'
    BY <1>t, <1>u, <2>g DEF Fresh
  <2>5. Fitting'
    BY <1>t, <1>u, <1>i, <2>g, <2>h DEF Fitting
  <2> QED BY <2>1, <2>2, <2>3, <2>4, <2>5 DEF CallsInv
<1> QED BY <1>a, <1>b

\* What follows a close: nothing after a shutdown, else a new cache.
LEMMA AfterCloseFacts ==
    ASSUME CallsInv, host.at \in {"close", "wait"}, host' = AfterClose
    PROVE  /\ host' \in [at : {"idle", "close", "wait", "make", "store"}, shutdown : BOOLEAN,
                         path : Paths, limit : Limits, seen : 0..made, cache : 0..made]
           /\ \/ host' = Idle /\ host'.at = "idle" /\ host'.seen = 0 /\ host.seen \in down
              \/ /\ host'.at = "make" /\ host'.shutdown = FALSE
                 /\ host'.seen = host.seen /\ host'.path = host.path
<1>1. host \in [at : {"idle", "close", "wait", "make", "store"}, shutdown : BOOLEAN,
                path : Paths, limit : Limits, seen : 0..made, cache : 0..made]
      /\ 0 \in 0..made /\ (host.shutdown => host.seen \in down)
  BY DEF CallsInv, TypeOK, Sensible
<1>2. CASE host.shutdown = TRUE
  BY <1>1, <1>2, PathsAssumption, LimitsAssumption DEF AfterClose, Idle
<1>3. CASE host.shutdown = FALSE
  <2>1. host' = [host EXCEPT !.at = "make"]
    BY <1>3 DEF AfterClose
  <2> QED BY <1>1, <1>3, <2>1
<1> QED BY <1>1, <1>2, <1>3

LEMMA CloseOldInv ==
    ASSUME CallsInv, CloseOld
    PROVE  CallsInv'
<1>t. TypeOK /\ Sensible /\ KnownWriters /\ Fresh /\ Fitting
  BY DEF CallsInv
<1>u. /\ UNCHANGED <<made, path, limit, over, entries, dirty, evicted, file, configured, calls, pc, uses,
                     expired, late, leaked, down>>
      /\ host.at = "close"
      /\ stopped' = [stopped EXCEPT ![host.seen] = TRUE]
  BY DEF CloseOld, requests
<1>d. host.seen \in Made /\ configured.cache \in 0..made
  BY <1>t, <1>u DEF Sensible, TypeOK
<1>s. /\ stopped' \in [Made -> BOOLEAN] /\ stopped'[host.seen] = TRUE
      /\ \A c \in Made : stopped[c] => stopped'[c]
      /\ \A c \in Made : c # host.seen => stopped'[c] = stopped[c]
  BY <1>t, <1>u, <1>d DEF TypeOK
<1>h. /\ host' \in [at : {"idle", "close", "wait", "make", "store"}, shutdown : BOOLEAN,
                    path : Paths, limit : Limits, seen : 0..made, cache : 0..made]
      /\ \/ host' = Idle /\ host'.at = "idle" /\ host'.seen = 0 /\ host.seen \in down
         \/ /\ host'.at = "make" /\ host'.shutdown = FALSE
            /\ host'.seen = host.seen /\ host'.path = host.path
         \/ /\ host'.at = "wait" /\ host'.shutdown = host.shutdown
            /\ host'.seen = host.seen /\ host'.path = host.path
  <2>1. CASE stopped[host.seen]
    BY <1>u, <2>1, AfterCloseFacts DEF CloseOld
  <2>2. CASE ~stopped[host.seen]
    <3>1. host' = [host EXCEPT !.at = "wait"]
      BY <2>2 DEF CloseOld
    <3> QED BY <1>t, <3>1 DEF TypeOK
  <2> QED BY <2>1, <2>2
<1>1. TypeOK'
  BY <1>t, <1>u, <1>s, <1>h DEF TypeOK, Made
<1>2. Sensible'
  <2>1. /\ \A c \in Made' : over'[c] => stopped'[c]
        /\ configured'.cache = 0 => configured' = Nothing' /\ leaked' = {}
        /\ \A r \in Requests : pc'[r] \in {"store", "set", "done"} => uses'[r] \in Made'
    BY <1>t, <1>u, <1>s DEF Sensible, Made, Nothing
  <2>2. /\ host'.at = "idle" => host' = Idle'
        /\ host'.at \in {"close", "wait"} => host'.seen \in Made'
        /\ host'.at = "wait" => stopped'[host'.seen]
        /\ host'.at = "store" => host'.cache \in Made'
    BY <1>u, <1>s, <1>h, <1>d DEF Made, Idle
  <2>3. /\ host'.at # "idle" => configured'.cache = host'.seen \/ leaked' # {} \/ host'.seen = 0
        /\ host'.at \in {"make", "store"} /\ host'.seen # 0 =>
             stopped'[host'.seen] \/ (host'.at = "store" /\ host'.cache = host'.seen)
        /\ host'.at # "idle" /\ host'.shutdown => host'.seen \in down' /\ host'.at \in {"close", "wait"}
    BY <1>t, <1>u, <1>s, <1>h DEF Sensible
  <2> QED BY <2>1, <2>2, <2>3 DEF Sensible
<1>3. KnownWriters'
  BY <1>t, <1>u, <1>s, <1>h DEF KnownWriters, InHand, Made
<1>4. Fresh'
  <2> SUFFICES ASSUME NEW r \in Requests, pc[r] = "store"
               PROVE  /\ uses[r] \notin {configured.cache, host'.seen}
                      /\ host'.at = "store" => uses[r] # host'.cache
                      /\ \A s \in Requests : pc[s] = "store" /\ uses[s] = uses[r] => s = r
                      /\ path[uses[r]] = DefaultPath /\ limit[uses[r]] = DefaultMaxEntries
                      /\ ~stopped'[uses[r]]
    BY <1>u DEF Fresh
  <2>1. uses[r] \in Made /\ uses[r] # host.seen /\ uses[r] # 0
    BY <1>t DEF Sensible, Fresh, Made
  <2> QED BY <1>t, <1>s, <1>h, <2>1 DEF Fresh
<1>5. Fitting'
  <2>1. host'.at # "store"
    BY <1>h
  <2>2. ASSUME configured.cache # 0
        PROVE  /\ path[configured.cache] = configured.path
               /\ limit[configured.cache] = configured.limit
               /\ stopped'[configured.cache] =>
                    configured.cache \in down \/ (host'.at # "idle" /\ configured.cache = host'.seen)
    <3>1. configured.cache \in Made
      BY <1>d, <2>2 DEF Made, TypeOK
    <3> QED BY <1>t, <1>s, <1>h, <1>u, <2>2, <3>1 DEF Fitting
  <2> QED BY <1>u, <2>1, <2>2 DEF Fitting
<1> QED BY <1>1, <1>2, <1>3, <1>4, <1>5 DEF CallsInv

LEMMA OldClosedInv ==
    ASSUME CallsInv, OldClosed
    PROVE  CallsInv'
<1>t. TypeOK /\ Sensible /\ KnownWriters /\ Fresh /\ Fitting
  BY DEF CallsInv
<1>u. /\ UNCHANGED <<made, path, limit, stopped, over, entries, dirty, evicted, file, configured, calls,
                     pc, uses, expired, late, leaked, down>>
      /\ host.at = "wait" /\ host' = AfterClose
  BY DEF OldClosed, caches, requests
<1>s. stopped[host.seen]
  BY <1>t, <1>u DEF Sensible
<1>h. /\ host' \in [at : {"idle", "close", "wait", "make", "store"}, shutdown : BOOLEAN,
                    path : Paths, limit : Limits, seen : 0..made, cache : 0..made]
      /\ \/ host' = Idle /\ host'.at = "idle" /\ host'.seen = 0 /\ host.seen \in down
         \/ /\ host'.at = "make" /\ host'.shutdown = FALSE
            /\ host'.seen = host.seen /\ host'.path = host.path
  BY <1>u, AfterCloseFacts
<1>1. TypeOK'
  BY <1>t, <1>u, <1>h DEF TypeOK, Made
<1>2. Sensible'
  BY <1>t, <1>u, <1>s, <1>h DEF Sensible, Made, Nothing, Idle
<1>3. KnownWriters'
  BY <1>t, <1>u, <1>h DEF KnownWriters, InHand, Made
<1>4. Fresh'
  <2>1. \A r \in Requests : pc[r] = "store" => uses[r] # 0
    BY <1>t DEF Sensible, Made
  <2> QED BY <1>t, <1>u, <1>h, <2>1 DEF Fresh
<1>5. Fitting'
  BY <1>t, <1>u, <1>h DEF Fitting
<1> QED BY <1>1, <1>2, <1>3, <1>4, <1>5 DEF CallsInv

LEMMA MakeNewInv ==
    ASSUME CallsInv, MakeNew
    PROVE  CallsInv'
<1>t. TypeOK /\ Sensible /\ KnownWriters /\ Fresh /\ Fitting
  BY DEF CallsInv
<1>u. /\ UNCHANGED <<file, configured, calls, pc, uses, expired, late, leaked, down>>
      /\ host.at = "make" /\ NewCache(host.path, host.limit)
      /\ host' = [host EXCEPT !.at = "store", !.cache = made + 1]
  BY DEF MakeNew, requests
<1>p. host.path \in Paths /\ host.limit \in Limits /\ host.seen \in 0..made /\ configured.cache \in 0..made
  BY <1>t DEF TypeOK
<1>n. /\ made' = made + 1 /\ made' \in Nat
      /\ Made' = Made \cup {made + 1} /\ made + 1 \notin Made
      /\ 0..made' = (0..made) \cup {made + 1} /\ made + 1 \notin 0..made
      /\ Made \subseteq Made' /\ 0..made \subseteq 0..made'
      /\ path' \in [Made' -> Paths] /\ stopped' \in [Made' -> BOOLEAN]
      /\ over' \in [Made' -> BOOLEAN] /\ dirty' \in [Made' -> BOOLEAN]
      /\ entries' \in [Made' -> SUBSET Requests] /\ limit' \in [Made' -> Limits]
      /\ evicted' \subseteq Requests /\ \A c \in Made : limit'[c] = limit[c]
      /\ \A c \in Made : path'[c] = path[c] /\ stopped'[c] = stopped[c] /\ over'[c] = over[c]
      /\ path'[made + 1] = host.path /\ stopped'[made + 1] = FALSE /\ over'[made + 1] = FALSE
      /\ limit'[made + 1] = host.limit
  BY <1>t, <1>u, <1>p, NewCacheFacts
<1>h. /\ host'.at = "store" /\ host'.cache = made + 1 /\ host'.path = host.path
      /\ host'.limit = host.limit
      /\ host'.seen = host.seen /\ host'.shutdown = FALSE /\ host.shutdown = FALSE
      /\ host' \in [at : {"idle", "close", "wait", "make", "store"}, shutdown : BOOLEAN,
                    path : Paths, limit : Limits, seen : 0..made', cache : 0..made']
  <2>1. host.shutdown = FALSE
    BY <1>t, <1>u DEF TypeOK, Sensible
  <2> QED BY <1>t, <1>u, <1>n, <2>1 DEF TypeOK
<1>o. (host.seen # 0 => host.seen \in Made) /\ (configured.cache # 0 => configured.cache \in Made)
  BY <1>t, <1>p DEF TypeOK, Made
<1>1. TypeOK'
  <2>1. configured' \in [path : Paths, limit : Limits, cache : 0..made']
    BY <1>t, <1>u, <1>n DEF TypeOK
  <2>2. uses' \in [Requests -> 0..made'] /\ leaked' \subseteq Made' /\ down' \subseteq Made'
    BY <1>t, <1>u, <1>n DEF TypeOK
  <2> QED BY <1>t, <1>u, <1>n, <1>h, <2>1, <2>2 DEF TypeOK
<1>2. Sensible'
  <2>1. \A c \in Made' : over'[c] => stopped'[c]
    BY <1>t, <1>n DEF Sensible
  <2>2. host.seen # 0 => stopped'[host.seen]
    BY <1>t, <1>u, <1>n, <1>o DEF Sensible
  <2>3. \A r \in Requests : pc'[r] \in {"store", "set", "done"} => uses'[r] \in Made'
    BY <1>t, <1>u, <1>n DEF Sensible
  <2>4. configured'.cache = 0 => configured' = Nothing' /\ leaked' = {}
    BY <1>t, <1>u DEF Sensible, Nothing
  <2>5. configured'.cache = host'.seen \/ leaked' # {} \/ host'.seen = 0
    BY <1>t, <1>u, <1>h DEF Sensible
  <2> QED BY <1>h, <1>n, <2>1, <2>2, <2>3, <2>4, <2>5 DEF Sensible
<1>3. KnownWriters'
  <2>1. InHand' = InHand \cup {made + 1}
    BY <1>u, <1>h DEF InHand
  <2> QED BY <1>t, <1>u, <1>n, <2>1 DEF KnownWriters
<1>4. Fresh'
  <2> SUFFICES ASSUME NEW r \in Requests, pc[r] = "store"
               PROVE  /\ uses[r] \notin {configured.cache, host'.seen}
                      /\ uses[r] # host'.cache
                      /\ \A s \in Requests : pc[s] = "store" /\ uses[s] = uses[r] => s = r
                      /\ path'[uses[r]] = DefaultPath /\ limit'[uses[r]] = DefaultMaxEntries
                      /\ ~stopped'[uses[r]]
    BY <1>u DEF Fresh
  <2>1. uses[r] \in Made
    BY <1>t DEF Sensible
  <2> QED BY <1>t, <1>n, <1>h, <2>1 DEF Fresh
<1>5. Fitting'
  <2>1. /\ path'[host'.cache] = host'.path /\ limit'[host'.cache] = host'.limit
        /\ stopped'[host'.cache] = FALSE
    BY <1>h, <1>n
  <2>2. configured.cache # 0 =>
          /\ path'[configured.cache] = configured.path
          /\ limit'[configured.cache] = configured.limit
          /\ stopped'[configured.cache] =>
               configured.cache \in down \/ configured.cache = host'.seen
    BY <1>t, <1>u, <1>n, <1>h, <1>o DEF Fitting
  <2> QED BY <1>u, <1>h, <2>1, <2>2 DEF Fitting
<1> QED BY <1>1, <1>2, <1>3, <1>4, <1>5 DEF CallsInv

LEMMA StoreNewInv ==
    ASSUME CallsInv, StoreNew
    PROVE  CallsInv'
<1>t. TypeOK /\ Sensible /\ KnownWriters /\ Fresh /\ Fitting
  BY DEF CallsInv
<1>u. /\ UNCHANGED <<made, path, limit, stopped, over, entries, dirty, evicted, file, calls, pc, uses,
                     expired, late, down>>
      /\ host.at = "store" /\ host' = Idle
      /\ configured' = [path |-> host.path, limit |-> host.limit, cache |-> host.cache]
      /\ leaked' = IF configured.cache \in {0, host.seen} THEN leaked
                   ELSE leaked \cup {configured.cache}
  BY DEF StoreNew, Publish, caches, requests
<1>d. /\ host.cache \in Made /\ host.cache \in 0..made /\ host.cache # 0
      /\ host.path \in Paths /\ host.limit \in Limits /\ host.shutdown = FALSE
      /\ configured.cache # 0 => configured.cache \in Made
      /\ host.seen # 0 => host.seen \in Made
  BY <1>t, <1>u DEF TypeOK, Sensible, Made
<1>h. /\ host'.at = "idle" /\ host'.seen = 0 /\ host' = Idle'
      /\ host' \in [at : {"idle", "close", "wait", "make", "store"}, shutdown : BOOLEAN,
                    path : Paths, limit : Limits, seen : 0..made, cache : 0..made]
  <2>1. 0 \in 0..made
    BY <1>t DEF TypeOK
  <2> QED BY <1>u, <2>1, PathsAssumption, LimitsAssumption DEF Idle
<1>1. TypeOK'
  <2>1. configured' \in [path : Paths, limit : Limits, cache : 0..made]
    BY <1>t, <1>u, <1>d DEF TypeOK
  <2>2. leaked' \subseteq Made
    BY <1>t, <1>u, <1>d DEF TypeOK
  <2> QED BY <1>t, <1>u, <1>h, <2>1, <2>2 DEF TypeOK, Made
<1>2. Sensible'
  <2>1. configured'.cache # 0
    BY <1>u, <1>d
  <2>2. /\ \A c \in Made' : over'[c] => stopped'[c]
        /\ \A r \in Requests : pc'[r] \in {"store", "set", "done"} => uses'[r] \in Made'
    BY <1>t, <1>u DEF Sensible, Made
  <2> QED BY <1>h, <2>1, <2>2 DEF Sensible
<1>3. KnownWriters'
  <2> SUFFICES ASSUME NEW c \in Made, stopped[c] = FALSE
               PROVE  c \in {configured'.cache} \cup InHand' \cup leaked'
    BY <1>t, <1>u DEF KnownWriters, Made, TypeOK
  <2>1. c \in {configured.cache} \cup InHand \cup leaked
    BY <1>t DEF KnownWriters
  <2>2. CASE c = host.cache
    BY <1>u, <2>2
  <2>3. CASE c \in {uses[r] : r \in {s \in Requests : pc[s] = "store"}}
    BY <1>u, <2>3 DEF InHand
  <2>4. CASE c \in leaked
    BY <1>u, <2>4
  <2>5. CASE c = configured.cache /\ c # host.cache
    <3>1. c # 0
      BY <1>t DEF TypeOK, Made
    <3>2. c # host.seen
      BY <1>t, <1>u, <2>5, <3>1 DEF Sensible
    <3> QED BY <1>u, <2>5, <3>1, <3>2
  <2> QED BY <1>u, <2>1, <2>2, <2>3, <2>4, <2>5 DEF InHand
<1>4. Fresh'
  <2> SUFFICES ASSUME NEW r \in Requests, pc[r] = "store"
               PROVE  /\ uses[r] \notin {configured'.cache, host'.seen}
                      /\ \A s \in Requests : pc[s] = "store" /\ uses[s] = uses[r] => s = r
                      /\ path[uses[r]] = DefaultPath /\ limit[uses[r]] = DefaultMaxEntries
                      /\ ~stopped[uses[r]]
    BY <1>u, <1>h DEF Fresh
  <2>1. uses[r] # 0
    BY <1>t DEF Sensible, Made, TypeOK
  <2> QED BY <1>t, <1>u, <1>h, <2>1 DEF Fresh
<1>5. Fitting'
  BY <1>t, <1>u, <1>h DEF Fitting
<1> QED BY <1>1, <1>2, <1>3, <1>4, <1>5 DEF CallsInv

-----------------------------------------------------------------------------
\* The requests.

LEMMA LoadInv ==
    ASSUME CallsInv, NEW r \in Requests, Load(r)
    PROVE  CallsInv'
<1>t. TypeOK /\ Sensible /\ KnownWriters /\ Fresh /\ Fitting
  BY DEF CallsInv
<1>u. /\ UNCHANGED <<made, path, limit, stopped, over, entries, dirty, evicted, file, configured, calls, host,
                     expired, late, leaked, down>>
      /\ pc[r] = "load"
      /\ uses' = [uses EXCEPT ![r] = configured.cache]
      /\ pc' = [pc EXCEPT ![r] = IF configured.cache = 0 THEN "make" ELSE "set"]
  BY DEF Load, caches
<1>d. configured.cache \in 0..made /\ (configured.cache # 0 => configured.cache \in Made)
  BY <1>t DEF TypeOK, Made
<1>r. /\ pc'[r] \in {"make", "set"} /\ uses'[r] = configured.cache
      /\ pc'[r] = "set" => configured.cache \in Made
      /\ \A s \in Requests : s # r => pc'[s] = pc[s] /\ uses'[s] = uses[s]
  BY <1>t, <1>u, <1>d DEF TypeOK
<1>1. TypeOK'
  <2>1. pc' \in [Requests -> {"load", "make", "store", "set", "done"}] /\ uses' \in [Requests -> 0..made]
    BY <1>t, <1>u, <1>d DEF TypeOK
  <2> QED BY <1>t, <1>u, <2>1 DEF TypeOK, Made
<1>2. Sensible'
  <2>1. \A s \in Requests : pc'[s] \in {"store", "set", "done"} => uses'[s] \in Made'
    BY <1>t, <1>u, <1>r DEF Sensible, Made
  <2> QED BY <1>t, <1>u, <2>1 DEF Sensible, Made, Nothing, Idle
<1>3. KnownWriters'
  <2>1. InHand' = InHand
    BY <1>u, <1>r DEF InHand
  <2> QED BY <1>t, <1>u, <2>1 DEF KnownWriters, Made
<1>4. Fresh'
  BY <1>t, <1>u, <1>r DEF Fresh
<1>5. Fitting'
  BY <1>t, <1>u DEF Fitting
<1> QED BY <1>1, <1>2, <1>3, <1>4, <1>5 DEF CallsInv

LEMMA MakeDefaultInv ==
    ASSUME CallsInv, NEW r \in Requests, MakeDefault(r)
    PROVE  CallsInv'
<1>t. TypeOK /\ Sensible /\ KnownWriters /\ Fresh /\ Fitting
  BY DEF CallsInv
<1>u. /\ UNCHANGED <<file, configured, calls, host, expired, late, leaked, down>>
      /\ pc[r] = "make" /\ NewCache(DefaultPath, DefaultMaxEntries)
      /\ uses' = [uses EXCEPT ![r] = made + 1]
      /\ pc' = [pc EXCEPT ![r] = "store"]
  BY DEF MakeDefault
<1>n. /\ made' = made + 1 /\ made' \in Nat
      /\ Made' = Made \cup {made + 1} /\ made + 1 \notin Made
      /\ 0..made' = (0..made) \cup {made + 1} /\ made + 1 \notin 0..made
      /\ Made \subseteq Made' /\ 0..made \subseteq 0..made'
      /\ path' \in [Made' -> Paths] /\ stopped' \in [Made' -> BOOLEAN]
      /\ over' \in [Made' -> BOOLEAN] /\ dirty' \in [Made' -> BOOLEAN]
      /\ entries' \in [Made' -> SUBSET Requests] /\ limit' \in [Made' -> Limits]
      /\ evicted' \subseteq Requests /\ \A c \in Made : limit'[c] = limit[c]
      /\ \A c \in Made : path'[c] = path[c] /\ stopped'[c] = stopped[c] /\ over'[c] = over[c]
      /\ path'[made + 1] = DefaultPath /\ stopped'[made + 1] = FALSE /\ over'[made + 1] = FALSE
      /\ limit'[made + 1] = DefaultMaxEntries
  BY <1>t, <1>u, PathsAssumption, LimitsAssumption, NewCacheFacts
<1>r. /\ pc'[r] = "store" /\ uses'[r] = made + 1
      /\ \A s \in Requests : s # r => pc'[s] = pc[s] /\ uses'[s] = uses[s]
  BY <1>t, <1>u DEF TypeOK
<1>d. /\ host.seen \in 0..made /\ host.cache \in 0..made /\ configured.cache \in 0..made
      /\ configured.cache # 0 => configured.cache \in Made
      /\ host.seen # 0 => host.seen \in Made
  BY <1>t DEF TypeOK, Made
<1>1. TypeOK'
  <2>1. pc' \in [Requests -> {"load", "make", "store", "set", "done"}] /\ uses' \in [Requests -> 0..made']
    BY <1>t, <1>u, <1>n DEF TypeOK
  <2>2. configured' \in [path : Paths, limit : Limits, cache : 0..made']
    BY <1>t, <1>u, <1>n DEF TypeOK
  <2>3. host' \in [at : {"idle", "close", "wait", "make", "store"}, shutdown : BOOLEAN,
                   path : Paths, limit : Limits, seen : 0..made', cache : 0..made']
    BY <1>t, <1>u, <1>n DEF TypeOK
  <2> QED BY <1>t, <1>u, <1>n, <2>1, <2>2, <2>3 DEF TypeOK
<1>2. Sensible'
  <2>1. \A c \in Made' : over'[c] => stopped'[c]
    BY <1>t, <1>n DEF Sensible
  <2>2. \A s \in Requests : pc'[s] \in {"store", "set", "done"} => uses'[s] \in Made'
    BY <1>t, <1>n, <1>r DEF Sensible
  <2>3. \A c \in {host.seen} : c # 0 => stopped'[c] = stopped[c]
    BY <1>n, <1>d
  <2>4. /\ configured'.cache = 0 => configured' = Nothing' /\ leaked' = {}
        /\ host'.at = "idle" => host' = Idle'
    BY <1>t, <1>u DEF Sensible, Nothing, Idle
  <2>5. /\ host.at \in {"close", "wait"} => host.seen \in Made'
        /\ host.at = "wait" => stopped'[host.seen]
        /\ host.at = "store" => host.cache \in Made'
    BY <1>t, <1>n DEF Sensible
  <2>6. /\ host.at # "idle" => configured.cache = host.seen \/ leaked # {} \/ host.seen = 0
        /\ host.at \in {"make", "store"} /\ host.seen # 0 =>
             stopped'[host.seen] \/ (host.at = "store" /\ host.cache = host.seen)
        /\ host.at # "idle" /\ host.shutdown => host.seen \in down /\ host.at \in {"close", "wait"}
    BY <1>t, <2>3 DEF Sensible
  <2> QED BY <1>u, <2>1, <2>2, <2>4, <2>5, <2>6 DEF Sensible
<1>3. KnownWriters'
  <2>1. InHand \subseteq InHand' /\ made + 1 \in InHand'
    BY <1>u, <1>r DEF InHand
  <2> QED BY <1>t, <1>u, <1>n, <2>1 DEF KnownWriters
<1>4. Fresh'
  <2> SUFFICES ASSUME NEW s \in Requests, pc'[s] = "store"
               PROVE  /\ uses'[s] \notin {configured.cache, host.seen}
                      /\ host.at = "store" => uses'[s] # host.cache
                      /\ \A q \in Requests : pc'[q] = "store" /\ uses'[q] = uses'[s] => q = s
                      /\ path'[uses'[s]] = DefaultPath /\ limit'[uses'[s]] = DefaultMaxEntries
                      /\ ~stopped'[uses'[s]]
    BY <1>u DEF Fresh
  <2>o. \A q \in Requests : q # r /\ pc'[q] = "store" => uses'[q] \in Made
    BY <1>t, <1>r DEF Sensible
  <2>1. CASE s = r
    BY <1>n, <1>r, <1>d, <2>1, <2>o
  <2>2. CASE s # r
    <3>1. uses[s] \in Made /\ pc[s] = "store" /\ uses'[s] = uses[s]
      BY <1>r, <2>2, <2>o
    <3>2. \A q \in Requests : pc'[q] = "store" /\ uses'[q] = uses'[s] => q = s
      BY <1>t, <1>r, <1>n, <3>1 DEF Fresh
    <3> QED BY <1>t, <1>n, <3>1, <3>2 DEF Fresh
  <2> QED BY <2>1, <2>2
<1>5. Fitting'
  <2>1. host.at = "store" => host.cache \in Made
    BY <1>t DEF Sensible
  <2> QED BY <1>t, <1>u, <1>n, <1>d, <2>1 DEF Fitting
<1> QED BY <1>1, <1>2, <1>3, <1>4, <1>5 DEF CallsInv

LEMMA StoreDefaultInv ==
    ASSUME CallsInv, NEW r \in Requests, StoreDefault(r)
    PROVE  CallsInv'
<1>t. TypeOK /\ Sensible /\ KnownWriters /\ Fresh /\ Fitting
  BY DEF CallsInv
<1>u. /\ UNCHANGED <<made, path, limit, stopped, over, entries, dirty, evicted, file, calls, host, uses,
                     expired, late, down>>
      /\ pc[r] = "store"
      /\ configured' = [path |-> DefaultPath, limit |-> DefaultMaxEntries, cache |-> uses[r]]
      /\ leaked' = IF configured.cache = 0 THEN leaked ELSE leaked \cup {configured.cache}
      /\ pc' = [pc EXCEPT ![r] = "set"]
  BY DEF StoreDefault, Publish, caches, Nothing
<1>r. /\ pc'[r] = "set" /\ \A s \in Requests : s # r => pc'[s] = pc[s]
      /\ uses[r] \in Made /\ uses[r] \in 0..made /\ uses[r] # 0
  BY <1>t, <1>u DEF TypeOK, Sensible, Made
<1>d. configured.cache # 0 => configured.cache \in Made
  BY <1>t DEF TypeOK, Made
<1>1. TypeOK'
  <2>1. pc' \in [Requests -> {"load", "make", "store", "set", "done"}]
    BY <1>t, <1>u DEF TypeOK
  <2>2. configured' \in [path : Paths, limit : Limits, cache : 0..made]
    BY <1>t, <1>u, <1>r, PathsAssumption, LimitsAssumption
  <2>3. leaked' \subseteq Made
    BY <1>t, <1>u, <1>d DEF TypeOK
  <2> QED BY <1>t, <1>u, <2>1, <2>2, <2>3 DEF TypeOK, Made
<1>2. Sensible'
  <2>1. configured'.cache # 0
    BY <1>u, <1>r
  <2>2. \A s \in Requests : pc'[s] \in {"store", "set", "done"} => uses'[s] \in Made'
    BY <1>t, <1>u, <1>r DEF Sensible, Made
  <2>3. host.at # "idle" => leaked' # {} \/ host.seen = 0
    BY <1>t, <1>u DEF Sensible
  <2> QED BY <1>t, <1>u, <2>1, <2>2, <2>3 DEF Sensible, Made, Idle
<1>3. KnownWriters'
  <2>1. InHand \subseteq InHand' \cup {uses[r]}
    BY <1>u, <1>r DEF InHand
  <2>2. configured.cache # 0 => configured.cache \in leaked'
    BY <1>u
  <2>3. leaked \subseteq leaked' /\ configured'.cache = uses[r]
    BY <1>u
  <2>4. 0 \notin Made
    BY DEF Made
  <2> QED BY <1>t, <1>u, <2>1, <2>2, <2>3, <2>4 DEF KnownWriters, Made
<1>4. Fresh'
  <2> SUFFICES ASSUME NEW s \in Requests, pc'[s] = "store"
               PROVE  /\ uses[s] \notin {configured'.cache, host.seen}
                      /\ host.at = "store" => uses[s] # host.cache
                      /\ \A q \in Requests : pc'[q] = "store" /\ uses[q] = uses[s] => q = s
                      /\ path[uses[s]] = DefaultPath /\ limit[uses[s]] = DefaultMaxEntries
                      /\ ~stopped[uses[s]]
    BY <1>u DEF Fresh
  <2>1. s # r /\ pc[s] = "store"
    BY <1>r
  <2> QED BY <1>t, <1>u, <1>r, <2>1 DEF Fresh
<1>5. Fitting'
  <2>1. path[uses[r]] = DefaultPath /\ limit[uses[r]] = DefaultMaxEntries /\ ~stopped[uses[r]]
    BY <1>t, <1>u DEF Fresh
  <2> QED BY <1>t, <1>u, <2>1 DEF Fitting
<1> QED BY <1>1, <1>2, <1>3, <1>4, <1>5 DEF CallsInv

LEMMA SetInv ==
    ASSUME CallsInv, NEW r \in Requests, Set(r)
    PROVE  CallsInv'
<1>t. TypeOK /\ Sensible /\ KnownWriters /\ Fresh /\ Fitting
  BY DEF CallsInv
<1>u. /\ UNCHANGED <<made, path, limit, stopped, over, file, configured, calls, host, uses, expired,
                     leaked, down>>
      /\ pc[r] = "set"
      /\ Prune(uses[r], entries[uses[r]] \cup {r}, limit[uses[r]])
      /\ dirty' = [dirty EXCEPT ![uses[r]] = TRUE]
      /\ late' = IF over[uses[r]] THEN late \cup {r} ELSE late
      /\ pc' = [pc EXCEPT ![r] = "done"]
  BY DEF Set
<1>r. /\ pc'[r] = "done" /\ \A s \in Requests : s # r => pc'[s] = pc[s]
      /\ uses[r] \in Made
  BY <1>t, <1>u DEF TypeOK, Sensible
<1>1. TypeOK'
  <2>1. pc' \in [Requests -> {"load", "make", "store", "set", "done"}]
    BY <1>t, <1>u DEF TypeOK
  <2>2. entries' \in [Made -> SUBSET Requests] /\ evicted' \subseteq Requests
    <3>1. entries[uses[r]] \cup {r} \in SUBSET Requests /\ limit[uses[r]] \in Limits
      BY <1>t, <1>r DEF TypeOK
    <3> QED BY <1>t, <1>u, <1>r, <3>1, PruneFacts
  <2>3. dirty' \in [Made -> BOOLEAN] /\ late' \subseteq Requests
    BY <1>t, <1>u, <1>r DEF TypeOK
  <2> QED BY <1>t, <1>u, <2>1, <2>2, <2>3 DEF TypeOK, Made
<1>2. Sensible'
  <2>1. \A s \in Requests : pc'[s] \in {"store", "set", "done"} => uses'[s] \in Made'
    BY <1>t, <1>u, <1>r DEF Sensible, Made
  <2> QED BY <1>t, <1>u, <2>1 DEF Sensible, Made, Nothing, Idle
<1>3. KnownWriters'
  <2>1. InHand' = InHand
    BY <1>u, <1>r DEF InHand
  <2> QED BY <1>t, <1>u, <2>1 DEF KnownWriters, Made
<1>4. Fresh'
  BY <1>t, <1>u, <1>r DEF Fresh
<1>5. Fitting'
  BY <1>t, <1>u DEF Fitting
<1> QED BY <1>1, <1>2, <1>3, <1>4, <1>5 DEF CallsInv

LEMMA ExpireInv ==
    ASSUME CallsInv, NEW r \in Requests, Expire(r)
    PROVE  CallsInv'
<1>u. /\ UNCHANGED <<made, path, limit, stopped, over, entries, dirty, evicted, file, configured, calls, host,
                     pc, uses, late, leaked, down>>
      /\ expired' = expired \cup {r}
  BY DEF Expire, caches
<1>1. TypeOK'
  BY <1>u DEF CallsInv, TypeOK, Made
<1>2. Sensible' /\ KnownWriters' /\ Fresh' /\ Fitting'
  BY <1>u DEF CallsInv, Sensible, KnownWriters, Fresh, Fitting, InHand, Made, Nothing, Idle
<1> QED BY <1>1, <1>2 DEF CallsInv

-----------------------------------------------------------------------------

\* The first half of the inductive invariant: among its parts, every writer that was not told to
\* stop is known (KnownWriters; plugin.go:101-143, cache.go:268-279).
LEMMA CallsInvariance == Spec => []CallsInv
<1>1. Init => CallsInv
  <2> SUFFICES ASSUME Init PROVE CallsInv
    OBVIOUS
  <2>1. made = 0 /\ Made = {} /\ 0 \in 0..made /\ made \in Nat
    BY DEF Init, Made
  <2>2. TypeOK
    <3>1. calls \in 0..MaxCalls /\ configured \in [path : Paths, limit : Limits, cache : 0..made]
      BY <2>1, PathsAssumption, LimitsAssumption, CallsAssumption DEF Init, Nothing
    <3>2. host \in [at : {"idle", "close", "wait", "make", "store"}, shutdown : BOOLEAN,
                    path : Paths, limit : Limits, seen : 0..made, cache : 0..made]
      BY <2>1, PathsAssumption, LimitsAssumption DEF Init, Idle
    <3>3. /\ path \in [Made -> Paths] /\ limit \in [Made -> Limits] /\ stopped \in [Made -> BOOLEAN] /\ over \in [Made -> BOOLEAN]
          /\ entries \in [Made -> SUBSET Requests] /\ dirty \in [Made -> BOOLEAN]
      BY <2>1 DEF Init
    <3>4. /\ file \in [Paths -> SUBSET Requests]
          /\ pc \in [Requests -> {"load", "make", "store", "set", "done"}]
          /\ uses \in [Requests -> 0..made]
      BY <2>1 DEF Init
    <3> QED BY <2>1, <3>1, <3>2, <3>3, <3>4 DEF Init, TypeOK
  <2>3. Sensible /\ KnownWriters /\ Fresh /\ Fitting
    BY <2>1 DEF Init, Sensible, KnownWriters, Fresh, Fitting, Nothing, Idle
  <2> QED BY <2>2, <2>3 DEF CallsInv
<1>2. CallsInv /\ [Next]_vars => CallsInv'
  <2> SUFFICES ASSUME CallsInv, [Next]_vars PROVE CallsInv'
    OBVIOUS
  <2>1. CASE Host
    BY <2>1, ConfigureInv, RefusedInv, ShutdownInv, CloseOldInv, OldClosedInv, MakeNewInv, StoreNewInv
       DEF Host
  <2>2. CASE \E r \in Requests : Request(r)
    BY <2>2, LoadInv, MakeDefaultInv, StoreDefaultInv, SetInv, ExpireInv DEF Request
  <2>3. CASE \E c \in Made : Writer(c)
    BY <2>3, FlushInv
  <2>4. CASE UNCHANGED vars
    BY <2>4 DEF vars, caches, requests, CallsInv, TypeOK, Sensible, KnownWriters, InHand,
                Fresh, Fitting, Made, Nothing, Idle
  <2> QED BY <2>1, <2>2, <2>3, <2>4 DEF Next, Rest
<1> QED BY <1>1, <1>2, PTL DEF Spec

-----------------------------------------------------------------------------
\* The entries: what is promised stays in the cache in force or in its file.

\* A step that lets no request come to its end promises nothing new.
LEMMA SamePromises ==
    ASSUME CallsInv, late \subseteq late', expired \subseteq expired', evicted \subseteq evicted',
           \A c \in Made : path'[c] = path[c],
           \A r \in Requests : (pc'[r] = "done" <=> pc[r] = "done")
                               /\ (pc[r] = "done" => uses'[r] = uses[r])
    PROVE  Done' = Done /\ \A p : Promised(p)' \subseteq Promised(p)
<1>1. \A r \in Requests : pc[r] = "done" => uses[r] \in Made
  BY DEF CallsInv, Sensible
<1>2. Done' = Done
  BY DEF Done
<1> QED BY <1>1, <1>2 DEF Promised, Done

\* No request leaves its end, so more is never less.
LEMMA CrowdedKept ==
    ASSUME Crowded, Done \subseteq Done',
           \A c \in Made' : entries'[c] \subseteq Done',
           \A p \in Paths : file'[p] \subseteq Done',
           evicted' = evicted \/ \E max \in Limits : Cardinality(Done') > max
    PROVE  Crowded'
<1>1. ASSUME NEW max \in Limits, Cardinality(Done) > max PROVE Cardinality(Done') > max
  <2>1. IsFiniteSet(Done')
    <3>1. Done' \subseteq Requests
      BY DEF Done
    <3> QED BY <3>1, CallsAssumption, FS_Subset
  <2>2. /\ IsFiniteSet(Done) /\ Cardinality(Done) <= Cardinality(Done')
        /\ Cardinality(Done) \in Nat /\ Cardinality(Done') \in Nat /\ max \in Nat
    BY <2>1, LimitsAssumption, FS_Subset, FS_CardinalityType
  <2> QED BY <1>1, <2>2
<1> QED BY <1>1 DEF Crowded

\* A step that changes the host's call only.
LEMMA HostEntries ==
    ASSUME EntriesInv, UNCHANGED <<caches, file, configured, requests, leaked>>,
           \A c \in Made : stopped[c] => over[c],
           host'.at = "store" => host'.cache = configured.cache
    PROVE  EntriesInv'
<1>u. UNCHANGED <<made, path, stopped, over, entries, dirty, evicted, file, configured, pc, uses,
                  expired, late, leaked>>
  BY DEF caches, requests
<1>1. Ended' /\ Crowded'
  BY <1>u DEF EntriesInv, Ended, Crowded, Done, Made
<1>2. leaked = {} => (Clean /\ Published /\ Entered)'
  BY <1>u DEF EntriesInv, Clean, Published, Entered, Promised, Done, Made
<1>3. Loaded'
  BY <1>u DEF Loaded
<1> QED BY <1>u, <1>1, <1>2, <1>3 DEF EntriesInv

\* A new cache belongs to nobody who has set an entry.
LEMMA NewCacheEntries ==
    ASSUME CallsInv, EntriesInv, NEW p \in Paths, NEW max \in Limits, NewCache(p, max),
           UNCHANGED <<file, configured, expired, late, leaked>>,
           \A r \in Requests : pc'[r] = pc[r] \/ (pc'[r] = "store" /\ pc[r] = "make"),
           \A r \in Requests : pc[r] # "make" => uses'[r] = uses[r],
           host'.at = "wait" <=> host.at = "wait", host'.seen = host.seen
    PROVE  /\ Ended' /\ Crowded'
           /\ leaked = {} => (Clean /\ Published /\ Entered)'
           /\ \A q : Promised(q)' \subseteq Promised(q)
           /\ \A q : Promised(q)' \cap file[p] \subseteq entries'[made + 1]
           /\ \A c \in Made : entries'[c] = entries[c]
<1>t. TypeOK /\ Sensible
  BY DEF CallsInv
<1>n. /\ made' = made + 1 /\ made' \in Nat /\ Made' = Made \cup {made + 1} /\ made + 1 \notin Made
      /\ \A c \in Made : path'[c] = path[c] /\ stopped'[c] = stopped[c] /\ over'[c] = over[c]
      /\ path'[made + 1] = p /\ stopped'[made + 1] = FALSE /\ over'[made + 1] = FALSE
      /\ evicted \subseteq evicted'
  BY <1>t, NewCacheFacts
<1>e. /\ \A c \in Made : entries'[c] = entries[c] /\ dirty'[c] = dirty[c]
      /\ dirty'[made + 1] = FALSE
      /\ entries'[made + 1] \subseteq file[p]
      /\ file[p] \ (expired \cup evicted') \subseteq entries'[made + 1]
      /\ \A S \in SUBSET Requests : file[p] \subseteq S /\ evicted' # evicted => Cardinality(S) > max
  BY <1>t, NewCacheFacts
<1>p. Done' = Done /\ \A q : Promised(q)' \subseteq Promised(q)
  BY <1>n, SamePromises
<1>f. \A q : Promised(q)' \cap file[p] \subseteq entries'[made + 1]
  BY <1>e DEF Promised
<1>1. Ended'
  BY <1>n DEF EntriesInv, Ended
<1>c. Crowded'
  <2>1. Crowded /\ file[p] \subseteq Done /\ Done \subseteq Requests
    BY DEF EntriesInv, Crowded, Done
  <2>2. \A c \in Made' : entries'[c] \subseteq Done'
    BY <1>n, <1>e, <1>p, <2>1 DEF Crowded
  <2>3. \A q \in Paths : file'[q] \subseteq Done'
    BY <1>p, <2>1 DEF Crowded
  <2>4. evicted' = evicted \/ Cardinality(Done') > max
    BY <1>e, <1>p, <2>1
  <2> QED BY <1>p, <2>1, <2>2, <2>3, <2>4, CrowdedKept
<1>2. ASSUME leaked = {} PROVE Clean'
  BY <1>n, <1>e, <1>2 DEF EntriesInv, Clean
<1>3. ASSUME leaked = {} PROVE Published'
  <2> SUFFICES ASSUME NEW r \in Requests, pc'[r] \in {"set", "done"}
               PROVE  configured.cache # 0 /\ (uses'[r] = configured.cache \/ over'[uses'[r]])
    BY DEF Published
  <2>1. pc[r] \in {"set", "done"} /\ uses'[r] = uses[r]
    OBVIOUS
  <2>2. uses[r] \in Made
    BY <1>t, <2>1 DEF Sensible
  <2> QED BY <1>n, <1>3, <2>1, <2>2 DEF EntriesInv, Published
<1>4. ASSUME leaked = {} PROVE Entered'
  <2>1. configured.cache # 0 => configured.cache \in Made
    BY <1>t DEF TypeOK, Made
  <2> QED BY <1>n, <1>e, <1>p, <1>4, <2>1 DEF EntriesInv, Entered
<1> QED BY <1>1, <1>c, <1>2, <1>3, <1>4, <1>p, <1>f, <1>e

\* The lifecycle calls.
LEMMA OldAsItIsEntries ==
    ASSUME CallsInv, EntriesInv, Configure \/ ConfigureRefused \/ Shutdown,
           UNCHANGED caches, host'.at = "store" => host'.cache = configured.cache
    PROVE  EntriesInv'
<1>1. UNCHANGED <<file, configured, requests, leaked>> /\ host.at = "idle"
  BY DEF Configure, ConfigureRefused, Shutdown
<1>2. \A c \in Made : stopped[c] => over[c]
  BY <1>1 DEF EntriesInv, Ended
<1> QED BY <1>1, <1>2, HostEntries

\* A cache that is kept pushes out what is over its new limit and saves the rest.
LEMMA SetLimitEntries ==
    ASSUME CallsInv, EntriesInv, NEW max \in Limits, configured.cache # 0,
           SetLimit(configured.cache, max),
           UNCHANGED <<file, configured, requests, leaked>>,
           host.at = "idle", host'.at = "store", host'.cache = configured.cache
    PROVE  EntriesInv'
<1> DEFINE cur == configured.cache
<1>t. TypeOK /\ Sensible /\ cur \in Made
  BY DEF CallsInv, TypeOK, Made
<1>u. /\ UNCHANGED <<made, path, stopped, over, file, configured, pc, uses, expired, late, leaked>>
      /\ Prune(cur, entries[cur], max) /\ dirty' = [dirty EXCEPT ![cur] = TRUE]
  BY DEF SetLimit, requests
<1>e. /\ entries'[cur] \subseteq entries[cur]
      /\ \A d \in Made : d # cur => entries'[d] = entries[d]
      /\ evicted \subseteq evicted'
      /\ over[cur] => evicted' = evicted
      /\ ~over[cur] => entries[cur] \ (expired \cup evicted') \subseteq entries'[cur]
      /\ \A S \in SUBSET Requests : entries[cur] \subseteq S /\ evicted' # evicted => Cardinality(S) > max
  <2>1. entries[cur] \in SUBSET Requests
    BY <1>t DEF TypeOK
  <2> HIDE DEF cur
  <2> QED BY <1>t, <1>u, <2>1, PruneFacts
<1>d. dirty'[cur] = TRUE /\ \A d \in Made : d # cur => dirty'[d] = dirty[d]
  BY <1>t, <1>u DEF TypeOK
<1>p. Done' = Done /\ \A q : Promised(q)' \subseteq Promised(q)
  BY <1>u, <1>e, SamePromises
<1>1. Ended'
  BY <1>u DEF EntriesInv, Ended, Made
<1>c. Crowded'
  <2>1. Crowded /\ entries[cur] \subseteq Done /\ Done \subseteq Requests
    BY <1>t DEF EntriesInv, Crowded, Done
  <2>2. \A c \in Made' : entries'[c] \subseteq Done'
    BY <1>u, <1>e, <1>p, <2>1 DEF Crowded, Made
  <2>3. \A q \in Paths : file'[q] \subseteq Done'
    BY <1>u, <1>p, <2>1 DEF Crowded
  <2>4. evicted' = evicted \/ Cardinality(Done') > max
    BY <1>e, <1>p, <2>1
  <2> QED BY <1>p, <2>1, <2>2, <2>3, <2>4, CrowdedKept
<1>2. ASSUME leaked = {} PROVE (Clean /\ Published /\ Entered)'
  <2>1. Clean /\ Published /\ Entered
    BY <1>2 DEF EntriesInv
  <2>2. Clean' /\ Published'
    BY <1>u, <1>d, <2>1 DEF Clean, Published, Made
  <2>3. CASE over[cur]
    <3>1. \A q \in Paths : Promised(q)' \subseteq Promised(q) /\ Promised(q) \subseteq file[q]
      BY <1>p, <2>1, <2>3 DEF Entered
    <3>2. \A q \in Paths : Promised(q)' \subseteq file'[q]
      BY <1>u, <3>1
    <3> QED BY <1>u, <2>2, <2>3, <3>2 DEF Entered
  <2>4. CASE ~over[cur]
    <3>0. PICK q \in Paths : q = path[cur]
      BY <1>t DEF TypeOK
    <3>1. Promised(q)' \subseteq entries'[cur]
      <4>1. Promised(q) \subseteq entries[cur] /\ Promised(q)' \subseteq Promised(q)
        BY <1>p, <2>1, <2>4, <3>0 DEF Entered
      <4>2. Promised(q)' \cap (expired \cup evicted') = {}
        BY <1>u DEF Promised
      <4> QED BY <1>e, <2>4, <4>1, <4>2
    <3>2. \A p \in Paths : p # q => Promised(p)' \subseteq Promised(p) /\ Promised(p) \subseteq file[p]
      BY <1>p, <2>1, <3>0 DEF Entered
    <3>3. \A p \in Paths : p # q => Promised(p)' \subseteq file'[p]
      BY <1>u, <3>2
    <3> QED BY <1>u, <1>d, <2>2, <2>4, <3>0, <3>1, <3>3 DEF Entered
  <2> QED BY <2>2, <2>3, <2>4
<1>3. Loaded'
  BY <1>u DEF Loaded
<1> QED BY <1>u, <1>1, <1>c, <1>2, <1>3 DEF EntriesInv

LEMMA ConfigureEntries ==
    ASSUME CallsInv, EntriesInv, Configure \/ ConfigureRefused \/ Shutdown
    PROVE  EntriesInv'
<1>1. host.at = "idle"
  BY DEF Configure, ConfigureRefused, Shutdown
<1>2. CASE Configure
  <2>p. PICK p \in Paths, max \in Limits :
          LET old == configured.cache
              kept == old # 0 /\ path[old] = p
          IN  /\ host' = [at |-> IF kept THEN "store" ELSE IF old # 0 THEN "close" ELSE "make",
                          shutdown |-> FALSE, path |-> p, limit |-> max, seen |-> old,
                          cache |-> IF kept THEN old ELSE 0]
              /\ IF kept THEN SetLimit(old, max) ELSE UNCHANGED caches
    BY <1>2 DEF Configure
  <2>1. CASE configured.cache # 0 /\ path[configured.cache] = p
    <3>1. host'.at = "store" /\ host'.cache = configured.cache /\ SetLimit(configured.cache, max)
      BY <2>p, <2>1
    <3>2. UNCHANGED <<file, configured, requests, leaked>>
      BY <1>2 DEF Configure
    <3> QED BY <1>1, <2>1, <3>1, <3>2, SetLimitEntries
  <2>2. CASE ~(configured.cache # 0 /\ path[configured.cache] = p)
    <3>1. UNCHANGED caches /\ host'.at # "store"
      BY <2>p, <2>2
    <3> QED BY <1>2, <3>1, OldAsItIsEntries
  <2> QED BY <2>1, <2>2
<1>3. CASE ConfigureRefused
  <2>1. UNCHANGED caches /\ host' = host
    BY <1>3 DEF ConfigureRefused
  <2> QED BY <1>1, <1>3, <2>1, OldAsItIsEntries
<1>4. CASE Shutdown
  <2>1. UNCHANGED caches /\ (host' = host \/ host'.at = "close")
    BY <1>4 DEF Shutdown, Idle
  <2> QED BY <1>1, <1>4, <2>1, OldAsItIsEntries
<1> QED BY <1>2, <1>3, <1>4

LEMMA OldClosedEntries ==
    ASSUME CallsInv, EntriesInv, OldClosed
    PROVE  EntriesInv'
<1>1. UNCHANGED <<caches, file, configured, requests, leaked>> /\ host.at = "wait" /\ over[host.seen]
  BY DEF OldClosed
<1>2. host'.at # "store"
  BY <1>1, AfterCloseFacts DEF OldClosed
<1>3. \A c \in Made : stopped[c] => over[c]
  BY <1>1 DEF EntriesInv, Ended
<1> QED BY <1>1, <1>2, <1>3, HostEntries

LEMMA CloseOldEntries ==
    ASSUME CallsInv, EntriesInv, CloseOld
    PROVE  EntriesInv'
<1>t. TypeOK /\ Sensible
  BY DEF CallsInv
<1>u. /\ UNCHANGED <<made, path, over, entries, dirty, evicted, file, configured, pc, uses, expired,
                     late, leaked>>
      /\ host.at = "close"
      /\ stopped' = [stopped EXCEPT ![host.seen] = TRUE]
  BY DEF CloseOld, requests
<1>h. \/ stopped[host.seen] /\ host'.at \in {"idle", "make"}
      \/ host'.at = "wait" /\ host'.seen = host.seen
  <2>1. CASE stopped[host.seen]
    <3>1. host'.at \in {"idle", "make"}
      BY <1>u, <2>1, AfterCloseFacts DEF CloseOld
    <3> QED BY <2>1, <3>1
  <2>2. CASE ~stopped[host.seen]
    <3>1. host' = [host EXCEPT !.at = "wait"]
      BY <2>2 DEF CloseOld
    <3> QED BY <1>t, <3>1 DEF TypeOK
  <2> QED BY <2>1, <2>2
<1>1. Ended'
  BY <1>t, <1>u, <1>h DEF EntriesInv, Ended, TypeOK, Made
<1>c. Crowded'
  BY <1>u DEF EntriesInv, Crowded, Done, Made
<1>2. leaked = {} => (Clean /\ Published /\ Entered)'
  BY <1>u DEF EntriesInv, Clean, Published, Entered, Promised, Done, Made
<1>3. Loaded'
  BY <1>h DEF Loaded
<1> QED BY <1>u, <1>1, <1>c, <1>2, <1>3 DEF EntriesInv

\* The new cache of a configure loads what the old one saved before it ended.
LEMMA MakeNewEntries ==
    ASSUME CallsInv, EntriesInv, MakeNew
    PROVE  EntriesInv'
<1>t. TypeOK /\ Sensible
  BY DEF CallsInv
<1>u. /\ UNCHANGED <<file, configured, pc, uses, expired, late, leaked>>
      /\ host.at = "make" /\ NewCache(host.path, host.limit)
      /\ host.path \in Paths /\ host.limit \in Limits
      /\ host'.at = "store" /\ host'.seen = host.seen /\ host'.cache = made + 1
  BY <1>t DEF MakeNew, requests, TypeOK
<1>n. path'[made + 1] = host.path /\ made + 1 \notin Made
  BY <1>t, <1>u, NewCacheFacts
<1>1. /\ Ended' /\ Crowded'
      /\ leaked = {} => (Clean /\ Published /\ Entered)'
      /\ \A q : Promised(q)' \subseteq Promised(q)
      /\ \A q : Promised(q)' \cap file[host.path] \subseteq entries'[made + 1]
  <2>1. host'.at = "wait" <=> host.at = "wait"
    BY <1>u
  <2>2. \A r \in Requests : pc'[r] = pc[r] /\ uses'[r] = uses[r]
    BY <1>u
  <2> QED BY <1>u, <2>1, <2>2, NewCacheEntries
<1>2. ASSUME leaked = {} PROVE Loaded'
  <2> SUFFICES ASSUME configured.cache # 0, host.seen = configured.cache
               PROVE  Promised(host.path) \subseteq file[host.path]
    BY <1>u, <1>n, <1>1 DEF Loaded
  <2>1. configured.cache \in Made /\ stopped[host.seen]
    BY <1>t, <1>u DEF TypeOK, Sensible, Made
  <2>2. over[configured.cache]
    BY <1>u, <2>1 DEF EntriesInv, Ended
  <2> QED BY <1>2, <1>u, <2>2 DEF EntriesInv, Entered
<1> QED BY <1>u, <1>1, <1>2 DEF EntriesInv

LEMMA StoreNewEntries ==
    ASSUME CallsInv, EntriesInv, StoreNew
    PROVE  EntriesInv'
<1>t. TypeOK /\ Sensible
  BY DEF CallsInv
<1>u. /\ UNCHANGED <<made, path, stopped, over, entries, dirty, evicted, file, pc, uses, expired, late>>
      /\ host.at = "store" /\ host'.at = "idle" /\ host.cache \in Made
      /\ configured'.cache = host.cache
      /\ leaked' = IF configured.cache \in {0, host.seen} THEN leaked
                   ELSE leaked \cup {configured.cache}
  BY <1>t DEF StoreNew, Publish, caches, requests, Idle, Sensible
<1>p. \A p : Promised(p)' = Promised(p)
  BY <1>u DEF Promised, Done
<1>1. Ended'
  BY <1>u DEF EntriesInv, Ended, Made
<1>c. Crowded'
  BY <1>u DEF EntriesInv, Crowded, Done, Made
<1>2. Loaded'
  BY <1>u DEF Loaded
<1>3. ASSUME leaked' = {} PROVE (Clean /\ Published /\ Entered)'
  <2>1. leaked = {} /\ configured.cache \in {0, host.seen}
    BY <1>3, <1>u
  <2>2. Clean /\ Published /\ Entered /\ Loaded
    BY <2>1 DEF EntriesInv
  <2>3. configured.cache # 0 => over[configured.cache] \/ host.cache = configured.cache
    <3> SUFFICES ASSUME configured.cache # 0, host.cache # configured.cache
                 PROVE  over[configured.cache]
      OBVIOUS
    <3>1. configured.cache = host.seen /\ configured.cache \in Made
      BY <1>t, <2>1 DEF TypeOK, Made
    <3>2. stopped[host.seen]
      BY <1>t, <1>u, <3>1 DEF Sensible
    <3> QED BY <1>u, <3>1, <3>2 DEF EntriesInv, Ended
  <2>4. Clean'
    <3>1. configured.cache = 0 => 0 \notin Made
      BY DEF Made
    <3> QED BY <1>u, <2>2, <2>3, <3>1 DEF Clean, Made
  <2>5. Published'
    <3>1. host.cache # 0
      BY <1>u DEF Made
    <3> QED BY <1>u, <2>2, <2>3, <3>1 DEF Published
  <2>6. Entered'
    <3>1. CASE configured.cache = 0
      <4>1. \A p : Promised(p) = {}
        BY <2>2, <3>1 DEF Published, Promised, Done
      <4> QED BY <1>p, <4>1 DEF Entered
    <3>2. CASE configured.cache # 0 /\ host.cache = configured.cache
      BY <1>p, <1>u, <2>2, <3>2 DEF Entered
    <3>3. CASE configured.cache # 0 /\ host.cache # configured.cache
      <4>1. /\ \A p \in Paths : Promised(p) \subseteq file[p]
            /\ Promised(path[host.cache]) \subseteq entries[host.cache]
        BY <1>u, <2>1, <2>2, <2>3, <3>3 DEF Entered, Loaded
      <4> QED BY <1>p, <1>u, <4>1 DEF Entered
    <3> QED BY <3>1, <3>2, <3>3
  <2> QED BY <2>4, <2>5, <2>6
<1> QED BY <1>1, <1>c, <1>2, <1>3 DEF EntriesInv

\* The requests.
LEMMA LoadEntries ==
    ASSUME CallsInv, EntriesInv, NEW r \in Requests, Load(r)
    PROVE  EntriesInv'
<1>t. TypeOK /\ Sensible
  BY DEF CallsInv
<1>u. /\ UNCHANGED <<made, path, stopped, over, entries, dirty, evicted, file, configured, host,
                     expired, late, leaked>>
      /\ pc[r] = "load"
      /\ uses' = [uses EXCEPT ![r] = configured.cache]
      /\ pc' = [pc EXCEPT ![r] = IF configured.cache = 0 THEN "make" ELSE "set"]
  BY DEF Load, caches
<1>c. /\ uses'[r] = configured.cache /\ pc'[r] = IF configured.cache = 0 THEN "make" ELSE "set"
      /\ \A s \in Requests : s # r => uses'[s] = uses[s] /\ pc'[s] = pc[s]
  BY <1>t, <1>u DEF TypeOK
<1>p. \A p : Promised(p)' = Promised(p)
  BY <1>u, <1>c DEF Promised, Done
<1>1. Ended'
  BY <1>u DEF EntriesInv, Ended, Made
<1>w. Crowded'
  BY <1>u, <1>c DEF EntriesInv, Crowded, Done, Made
<1>2. ASSUME leaked = {} PROVE Clean' /\ Published'
  BY <1>u, <1>c, <1>2 DEF EntriesInv, Clean, Published, Made
<1>3. ASSUME leaked = {} PROVE Entered' /\ Loaded'
  BY <1>u, <1>p, <1>3 DEF EntriesInv, Entered, Loaded
<1> QED BY <1>u, <1>1, <1>w, <1>2, <1>3 DEF EntriesInv

LEMMA MakeDefaultEntries ==
    ASSUME CallsInv, EntriesInv, NEW r \in Requests, MakeDefault(r)
    PROVE  EntriesInv'
<1>t. TypeOK /\ Sensible
  BY DEF CallsInv
<1>u. /\ UNCHANGED <<file, configured, host, expired, late, leaked>>
      /\ pc[r] = "make" /\ NewCache(DefaultPath, DefaultMaxEntries)
      /\ uses' = [uses EXCEPT ![r] = made + 1] /\ pc' = [pc EXCEPT ![r] = "store"]
  BY DEF MakeDefault
<1>c. /\ \A s \in Requests : pc'[s] = pc[s] \/ (pc'[s] = "store" /\ pc[s] = "make")
      /\ \A s \in Requests : pc[s] # "make" => uses'[s] = uses[s]
  BY <1>t, <1>u DEF TypeOK
<1>n. \A c \in Made : path'[c] = path[c]
  BY <1>t, <1>u, PathsAssumption, LimitsAssumption, NewCacheFacts
<1>1. /\ Ended' /\ Crowded'
      /\ leaked = {} => (Clean /\ Published /\ Entered)'
      /\ \A q : Promised(q)' \subseteq Promised(q)
      /\ \A c \in Made : entries'[c] = entries[c]
  <2>1. (host'.at = "wait" <=> host.at = "wait") /\ host'.seen = host.seen
    BY <1>u
  <2> QED BY <1>u, <1>c, <2>1, PathsAssumption, LimitsAssumption, NewCacheEntries
<1>2. ASSUME leaked = {} PROVE Loaded'
  <2>1. host.at = "store" => host.cache \in Made
    BY <1>t DEF Sensible
  <2> QED BY <1>u, <1>n, <1>1, <1>2, <2>1 DEF EntriesInv, Loaded
<1> QED BY <1>u, <1>1, <1>2 DEF EntriesInv

\* A default configuration that replaces another one has not seen it; one that
\* does not is the first, and nobody has set an entry before.
LEMMA StoreDefaultEntries ==
    ASSUME CallsInv, EntriesInv, NEW r \in Requests, StoreDefault(r)
    PROVE  EntriesInv'
<1>t. TypeOK /\ Sensible /\ Fresh
  BY DEF CallsInv
<1>u. /\ UNCHANGED <<made, path, stopped, over, entries, dirty, evicted, file, host, uses, expired, late>>
      /\ pc[r] = "store" /\ pc' = [pc EXCEPT ![r] = "set"]
      /\ configured'.cache = uses[r] /\ uses[r] \in Made /\ uses[r] # 0
      /\ leaked' = IF configured.cache = 0 THEN leaked ELSE leaked \cup {configured.cache}
  BY <1>t DEF StoreDefault, Publish, caches, Nothing, Sensible, Made
<1>1. Ended'
  BY <1>u DEF EntriesInv, Ended, Made
<1>c. Crowded'
  <2>1. Done' = Done
    BY <1>t, <1>u DEF Done, TypeOK
  <2> QED BY <1>u, <2>1 DEF EntriesInv, Crowded, Made
<1>2. ASSUME leaked' = {} PROVE (Clean /\ Published /\ Entered /\ Loaded)'
  <2>1. leaked = {} /\ configured.cache = 0
    BY <1>2, <1>u
  <2>2. Clean /\ Published
    BY <2>1 DEF EntriesInv
  <2>3. \A s \in Requests : pc[s] \notin {"set", "done"}
    BY <2>1, <2>2 DEF Published
  <2>4. \A p : Promised(p)' = {}
    BY <1>t, <1>u, <2>3 DEF Promised, Done, TypeOK
  <2>5. Clean'
    <3>1. 0 \notin Made
      BY DEF Made
    <3> QED BY <1>u, <2>1, <2>2, <3>1 DEF Clean, Made
  <2>6. Published'
    BY <1>t, <1>u, <2>3 DEF Published, TypeOK
  <2>7. Entered' /\ Loaded'
    BY <2>4 DEF Entered, Loaded
  <2> QED BY <2>5, <2>6, <2>7
<1> QED BY <1>1, <1>c, <1>2 DEF EntriesInv

LEMMA SetEntries ==
    ASSUME CallsInv, EntriesInv, NEW r \in Requests, Set(r)
    PROVE  EntriesInv'
<1> DEFINE c == uses[r]
<1>t. TypeOK /\ Sensible
  BY DEF CallsInv
<1>u. /\ UNCHANGED <<made, path, stopped, over, file, configured, host, uses, expired, leaked>>
      /\ pc[r] = "set" /\ c \in Made
      /\ Prune(c, entries[c] \cup {r}, limit[c])
      /\ dirty' = [dirty EXCEPT ![c] = TRUE]
      /\ late' = IF over[c] THEN late \cup {r} ELSE late
      /\ pc' = [pc EXCEPT ![r] = "done"]
  BY <1>t DEF Set, Sensible
<1>e. /\ entries'[c] \subseteq entries[c] \cup {r}
      /\ \A d \in Made : d # c => entries'[d] = entries[d]
      /\ evicted \subseteq evicted'
      /\ over[c] => evicted' = evicted
      /\ ~over[c] => (entries[c] \cup {r}) \ (expired \cup evicted') \subseteq entries'[c]
      /\ \A S \in SUBSET Requests :
           entries[c] \cup {r} \subseteq S /\ evicted' # evicted => Cardinality(S) > limit[c]
      /\ limit[c] \in Limits
  <2>1. PICK values \in SUBSET Requests : values = entries[c] \cup {r}
    BY <1>t, <1>u DEF TypeOK
  <2>2. PICK max \in Limits : max = limit[c]
    BY <1>t, <1>u DEF TypeOK
  <2>3. c \in Made /\ Prune(c, values, max)
    BY <1>u, <2>1, <2>2
  <2> HIDE DEF c
  <2>4. /\ entries'[c] \subseteq values
        /\ \A d \in Made : d # c => entries'[d] = entries[d]
        /\ evicted \subseteq evicted'
        /\ over[c] => evicted' = evicted
        /\ ~over[c] => values \ (expired \cup evicted') \subseteq entries'[c]
        /\ \A S \in SUBSET Requests :
             values \subseteq S /\ evicted' # evicted => Cardinality(S) > max
    BY <1>t, <2>3, PruneFacts
  <2> QED BY <2>1, <2>2, <2>4
<1>d. dirty'[c] = TRUE /\ \A d \in Made : d # c => dirty'[d] = dirty[d]
  BY <1>t, <1>u DEF TypeOK
<1>c. pc'[r] = "done" /\ \A s \in Requests : s # r => pc'[s] = pc[s]
  BY <1>t, <1>u DEF TypeOK
<1>1. Ended'
  BY <1>u DEF EntriesInv, Ended, Made
<1>w. Crowded'
  <2>1. Done' = Done \cup {r}
    BY <1>c DEF Done
  <2>2. Crowded /\ entries[c] \subseteq Done /\ Done' \subseteq Requests
    BY <1>u, <2>1 DEF EntriesInv, Crowded, Done
  <2>3. \A d \in Made' : entries'[d] \subseteq Done'
    BY <1>u, <1>e, <2>1, <2>2 DEF Crowded, Made
  <2>4. \A q \in Paths : file'[q] \subseteq Done'
    BY <1>u, <2>1, <2>2 DEF Crowded
  <2>5. evicted' = evicted \/ Cardinality(Done') > limit[c]
    BY <1>e, <2>1, <2>2
  <2> QED BY <1>e, <2>1, <2>2, <2>3, <2>4, <2>5, CrowdedKept
<1>2. ASSUME leaked = {} PROVE (Clean /\ Published /\ Entered /\ Loaded)'
  <2>1. Clean /\ Published /\ Entered /\ Loaded
    BY <1>2 DEF EntriesInv
  <2>2. configured.cache # 0 /\ (c = configured.cache \/ over[c])
    BY <1>u, <2>1 DEF Published
  <2>3. Clean'
    BY <1>u, <1>d, <2>1, <2>2 DEF Clean, Made
  <2>4. Published'
    BY <1>u, <1>c, <2>1, <2>2 DEF Published
  <2>5. configured.cache \in Made
    BY <1>t, <2>2 DEF TypeOK, Made
  <2>6. CASE over[c]
    <3>1. \A p : Promised(p)' = Promised(p)
      <4>1. late' = late \cup {r} /\ evicted' = evicted
        BY <1>u, <1>e, <2>6
      <4> QED BY <1>u, <1>c, <4>1 DEF Promised, Done
    <3>2. Entered'
      <4>1. over[configured.cache] \/ (entries'[configured.cache] = entries[configured.cache]
                                       /\ dirty'[configured.cache] = dirty[configured.cache])
        BY <1>e, <1>d, <2>5, <2>6
      <4> QED BY <1>u, <2>1, <3>1, <4>1 DEF Entered
    <3>3. Loaded'
      <4> SUFFICES ASSUME host.at = "store", host.seen = configured.cache,
                          host.cache # configured.cache
                   PROVE  Promised(path[host.cache])' \subseteq entries'[host.cache]
        BY <1>u DEF Loaded
      <4>1. host.cache \in Made
        BY <1>t DEF Sensible
      <4>2. stopped[host.cache] => host.cache = host.seen
        BY DEF CallsInv, Fitting
      <4>3. host.cache # c
        BY <1>t, <2>6, <4>1, <4>2 DEF Sensible
      <4> QED BY <1>u, <1>e, <2>1, <2>2, <3>1, <4>1, <4>3 DEF Loaded
    <3> QED BY <2>3, <2>4, <3>2, <3>3
  <2>7. CASE ~over[c]
    <3>1. c = configured.cache /\ late' = late
      BY <1>u, <2>2, <2>7
    <3>2. \A p : Promised(p)' \subseteq Promised(p) \cup {r}
      BY <1>u, <1>e, <1>c, <3>1 DEF Promised, Done
    <3>3. \A p : p # path[configured.cache] => Promised(p)' \subseteq Promised(p)
      BY <1>u, <1>e, <1>c, <3>1 DEF Promised, Done
    <3>0. PICK q \in Paths : q = path[c]
      BY <1>t, <1>u DEF TypeOK
    <3>4. Promised(q)' \subseteq entries'[c]
      <4>1. Promised(q) \subseteq entries[c] /\ Promised(q)' \subseteq Promised(q) \cup {r}
        BY <2>1, <2>2, <2>7, <3>0, <3>1, <3>2 DEF Entered
      <4>2. Promised(q)' \cap (expired \cup evicted') = {}
        BY <1>u DEF Promised
      <4> QED BY <1>e, <2>7, <4>1, <4>2
    <3>5. Entered'
      <4>0. \A p \in Paths : p # q => Promised(p)' \subseteq Promised(p)
        BY <3>0, <3>1, <3>3
      <4>1. \A p \in Paths : p # q => Promised(p) \subseteq file[p]
        BY <2>1, <2>2, <3>0, <3>1 DEF Entered
      <4>2. \A p \in Paths : p # q => Promised(p)' \subseteq file'[p]
        BY <1>u, <4>0, <4>1
      <4> QED BY <1>u, <1>d, <2>7, <3>0, <3>1, <3>4, <4>2 DEF Entered
    <3>6. ~(host.at = "store" /\ host.seen = configured.cache /\ host.cache # configured.cache)
      <4>1. host.at = "store" /\ host.seen = configured.cache /\ host.cache # configured.cache
              => stopped[configured.cache]
        BY <1>t, <2>2 DEF Sensible
      <4> QED BY <2>5, <2>7, <3>1, <4>1 DEF EntriesInv, Ended
    <3>7. Loaded'
      BY <1>u, <3>6 DEF Loaded
    <3> QED BY <2>3, <2>4, <3>5, <3>7
  <2> QED BY <2>6, <2>7
<1> QED BY <1>u, <1>1, <1>w, <1>2 DEF EntriesInv

LEMMA ExpireEntries ==
    ASSUME CallsInv, EntriesInv, NEW r \in Requests, Expire(r)
    PROVE  EntriesInv'
<1>u. UNCHANGED <<made, path, stopped, over, entries, dirty, evicted, file, configured, host, pc, uses,
                  late, leaked>> /\ expired \subseteq expired'
  BY DEF Expire, caches
<1>p. \A p : Promised(p)' \subseteq Promised(p)
  BY <1>u, SamePromises
<1>1. Ended' /\ Crowded'
  BY <1>u DEF EntriesInv, Ended, Crowded, Done, Made
<1>2. ASSUME leaked = {} PROVE (Clean /\ Published /\ Entered /\ Loaded)'
  <2>1. Clean /\ Published /\ Entered /\ Loaded
    BY <1>2 DEF EntriesInv
  <2> QED BY <1>u, <1>p, <2>1 DEF Clean, Published, Entered, Loaded, Made
<1> QED BY <1>u, <1>1, <1>2 DEF EntriesInv

\* The writers: only the one of the cache in force has anything to save.
LEMMA WriterEntries ==
    ASSUME CallsInv, EntriesInv, NEW c \in Made, Writer(c)
    PROVE  EntriesInv'
<1>t. TypeOK /\ Sensible
  BY DEF CallsInv
<1>u. /\ UNCHANGED <<made, path, stopped, configured, host, pc, uses, expired, late, leaked>>
      /\ Prune(c, entries[c], limit[c])
      /\ file' = [file EXCEPT ![path[c]] = entries'[c]]
      /\ dirty' = [dirty EXCEPT ![c] = FALSE]
      /\ over' = over \/ over' = [over EXCEPT ![c] = TRUE]
      /\ ~over[c] /\ (dirty[c] \/ stopped[c])
  BY DEF Writer, Flush, LastFlush, Save, requests
<1>e. /\ entries'[c] \subseteq entries[c]
      /\ \A d \in Made : d # c => entries'[d] = entries[d]
      /\ evicted \subseteq evicted'
      /\ entries[c] \ (expired \cup evicted') \subseteq entries'[c]
      /\ \A S \in SUBSET Requests : entries[c] \subseteq S /\ evicted' # evicted => Cardinality(S) > limit[c]
      /\ limit[c] \in Limits
  <2>1. entries[c] \in SUBSET Requests /\ limit[c] \in Limits
    BY <1>t DEF TypeOK
  <2> QED BY <1>t, <1>u, <2>1, PruneFacts
<1>p. Done' = Done /\ \A p : Promised(p)' \subseteq Promised(p)
  BY <1>u, <1>e, SamePromises
<1>v. /\ path[c] \in Paths
      /\ dirty'[c] = FALSE /\ \A d \in Made : d # c => dirty'[d] = dirty[d]
      /\ \A d \in Made : d # c => over'[d] = over[d]
      /\ \A d \in Made : over[d] => over'[d]
      /\ file'[path[c]] = entries'[c] /\ \A p \in Paths : p # path[c] => file'[p] = file[p]
  BY <1>t, <1>u DEF TypeOK
<1>1. Ended'
  BY <1>u, <1>v DEF EntriesInv, Ended, Made
<1>w. Crowded'
  <2>1. Crowded /\ entries[c] \subseteq Done /\ Done \subseteq Requests
    BY DEF EntriesInv, Crowded, Done
  <2>2. \A d \in Made' : entries'[d] \subseteq Done'
    BY <1>u, <1>e, <1>p, <2>1 DEF Crowded, Made
  <2>3. \A q \in Paths : file'[q] \subseteq Done'
    BY <1>e, <1>p, <1>v, <2>1 DEF Crowded
  <2>4. evicted' = evicted \/ Cardinality(Done') > limit[c]
    BY <1>e, <1>p, <2>1
  <2> QED BY <1>e, <1>p, <2>1, <2>2, <2>3, <2>4, CrowdedKept
<1>2. ASSUME leaked = {} PROVE (Clean /\ Published /\ Entered /\ Loaded)'
  <2>1. Clean /\ Published /\ Entered /\ Loaded
    BY <1>2 DEF EntriesInv
  <2>2. c = configured.cache /\ c # 0
    <3>0. c # 0
      BY DEF Made
    <3>1. CASE dirty[c]
      BY <1>u, <2>1, <3>0, <3>1 DEF Clean
    <3>2. CASE stopped[c]
      <4>1. host.at = "wait" /\ host.seen = c
        BY <1>u, <3>2 DEF EntriesInv, Ended
      <4> QED BY <1>t, <1>2, <3>0, <4>1 DEF Sensible
    <3> QED BY <1>u, <3>1, <3>2
  <2>3. Clean'
    BY <1>u, <1>v, <2>1 DEF Clean, Made
  <2>4. Published'
    <3>1. \A r \in Requests : pc[r] \in {"set", "done"} => uses[r] \in Made
      BY <1>t DEF Sensible
    <3> QED BY <1>u, <1>v, <2>1, <3>1 DEF Published
  <2>5. Entered'
    <3>0. PICK q \in Paths : q = path[c]
      BY <1>t, <1>u DEF TypeOK
    <3>1. Promised(q)' \subseteq entries'[c]
      <4>1. Promised(q) \subseteq entries[c] /\ Promised(q)' \subseteq Promised(q)
        BY <1>u, <1>p, <1>v, <2>1, <2>2, <3>0 DEF Entered
      <4>2. Promised(q)' \cap (expired \cup evicted') = {}
        BY <1>u DEF Promised
      <4> QED BY <1>e, <4>1, <4>2
    <3>2. \A p \in Paths : Promised(p)' \subseteq file'[p]
      BY <1>u, <1>p, <1>v, <2>1, <2>2, <3>0, <3>1 DEF Entered
    <3> QED BY <1>u, <2>2, <3>0, <3>1, <3>2 DEF Entered
  <2>6. Loaded'
    BY <1>u, <1>p, <1>e, <2>1, <2>2, <1>t DEF Loaded, Sensible
  <2> QED BY <2>3, <2>4, <2>5, <2>6
<1> QED BY <1>u, <1>1, <1>w, <1>2 DEF EntriesInv

\* The inductive invariant: the calls and their caches, and the entries that are
\* in the cache in force, in the file, or both (plugin.go:101-143, cache.go:268-279).
THEOREM LifecycleInvariance == Spec => []LifecycleInv
<1>1. Init => EntriesInv
  <2> SUFFICES ASSUME Init PROVE EntriesInv
    OBVIOUS
  <2>1. Made = {} /\ configured.cache = 0 /\ host.at = "idle"
    BY DEF Init, Made, Nothing, Idle
  <2> QED BY <2>1 DEF Init, EntriesInv, Ended, Crowded, Clean, Published, Entered, Loaded
<1>2. CallsInv /\ EntriesInv /\ [Next]_vars => EntriesInv'
  <2> SUFFICES ASSUME CallsInv, EntriesInv, [Next]_vars PROVE EntriesInv'
    OBVIOUS
  <2>1. CASE Host
    BY <2>1, ConfigureEntries, CloseOldEntries, OldClosedEntries, MakeNewEntries, StoreNewEntries
       DEF Host
  <2>2. CASE \E r \in Requests : Request(r)
    BY <2>2, LoadEntries, MakeDefaultEntries, StoreDefaultEntries, SetEntries,
       ExpireEntries DEF Request
  <2>3. CASE \E c \in Made : Writer(c)
    BY <2>3, WriterEntries
  <2>4. CASE UNCHANGED vars
    BY <2>4 DEF vars, caches, requests, EntriesInv, Ended, Crowded, Done, Clean, Published,
                Entered, Loaded, Promised, Made
  <2> QED BY <2>1, <2>2, <2>3, <2>4 DEF Next, Rest
<1>3. CallsInv /\ EntriesInv => LifecycleInv
  BY DEF LifecycleInv
<1> QED BY <1>1, <1>2, <1>3, CallsInvariance, PTL DEF Spec

\* When all is quiet and no configuration was replaced unseen, what a request set
\* before the last flush of its cache is in the file of that cache, whatever
\* caches the path had in turn, unless its TTL has passed or a cache pushed it out
\* for its limit, which takes more entries than a limit allows
\* (plugin.go:122-130, cache.go:63-69, 126-136, 161-182, 227-265, 268-279).
THEOREM AllEntriesKept == Spec => []EntriesKept
<1>1. LifecycleInv => EntriesKept
  <2> SUFFICES ASSUME LifecycleInv, Quiet, leaked = {}, NEW r \in Requests \ (late \cup expired \cup evicted)
               PROVE  r \in file[path[uses[r]]]
    BY DEF EntriesKept
  <2>1. TypeOK /\ Sensible /\ Published /\ Entered
    BY DEF LifecycleInv, CallsInv, EntriesInv
  <2>2. pc[r] = "done" /\ uses[r] \in Made /\ configured.cache # 0
    BY <2>1 DEF Quiet, Sensible, Published
  <2>3. path[uses[r]] \in Paths /\ configured.cache \in Made
    BY <2>1, <2>2 DEF TypeOK, Made
  <2>4. over[configured.cache] \/ ~dirty[configured.cache]
    BY <2>3 DEF Quiet
  <2>5. r \in Promised(path[uses[r]])
    BY <2>2 DEF Promised, Done
  <2> QED BY <2>1, <2>2, <2>3, <2>4, <2>5 DEF Entered
<1> QED BY <1>1, LifecycleInvariance, PTL

\* Between lifecycle calls the configuration in force has an open cache of its
\* own path and limit, or one that a shutdown closed
\* (plugin.go:101-134, cache.go:63-69, main.go:78-82).
THEOREM InForces == Spec => []InForce
<1>1. CallsInv => InForce
  BY DEF CallsInv, Fitting, InForce
<1> QED BY <1>1, CallsInvariance, PTL
-----------------------------------------------------------------------------
\* The settings: what the loops over lists of models compute.

\* A set of numbers that has 0 and the successor of each has all.
LEMMA Induction ==
    ASSUME NEW S \in SUBSET Nat, 0 \in S, \A n \in S : n + 1 \in S
    PROVE  S = Nat
<1> DEFINE R == {p \in Nat \X Nat : p[1] < p[2]}
           T == Nat \ S
<1>1. IsWellFoundedOn(R, Nat)
  BY NatLessThanWellFounded, Zenon DEF OpToRel
<1>2. ASSUME T # {} PROVE FALSE
  <2>1. T \subseteq Nat
    OBVIOUS
  <2> HIDE DEF R
  <2>2. PICK x \in T : \A y \in T : <<y, x>> \notin R
    BY <1>1, <1>2, <2>1, WFMin, Zenon
  <2>3. x \in Nat /\ x # 0 /\ x - 1 \in Nat /\ x - 1 < x
    BY <2>2
  <2>4. <<x - 1, x>> \in R
    BY <2>3 DEF R
  <2>5. x - 1 \in S
    BY <2>2, <2>3, <2>4
  <2>6. (x - 1) + 1 \in S
    BY <2>5
  <2> QED BY <2>2, <2>3, <2>6
<1> QED BY <1>2

\* The same up to a bound.
LEMMA Upward ==
    ASSUME NEW n \in Nat, NEW T, 0 \in T, \A k \in 1..n : k - 1 \in T => k \in T
    PROVE  \A k \in 0..n : k \in T
<1> DEFINE D == {d \in Nat : d <= n => d \in T}
<1>1. D \in SUBSET Nat /\ 0 \in D
  OBVIOUS
<1>2. ASSUME NEW d \in D PROVE d + 1 \in D
  <2> SUFFICES ASSUME d + 1 <= n PROVE d + 1 \in T
    OBVIOUS
  <2>1. d \in Nat /\ d <= n /\ d + 1 \in 1..n /\ (d + 1) - 1 = d
    OBVIOUS
  <2>2. d \in T
    BY <2>1
  <2> QED BY <2>1, <2>2
<1>3. D = Nat
  <2> HIDE DEF D
  <2> QED BY <1>1, <1>2, Induction
<1> QED BY <1>3

\* The greatest element of a set of positions, and of all of them.
LEMMA GreatestOf ==
    ASSUME NEW n \in Nat, NEW s \in SUBSET (1..n)
    PROVE  /\ s # {} => Max(s) \in s
           /\ n \in s => Max(s) = n
<1>1. ASSUME NEW m \in Nat, NEW t \in SUBSET (1..m), m \in t PROVE Max(t) = m
  <2>1. \A y \in t : y \in Int /\ m >= y
    BY <1>1
  <2>2. \A x \in t : (\A y \in t : x >= y) => x = m
    BY <1>1, <2>1
  <2> QED BY <1>1, <2>1, <2>2 DEF Max
<1> DEFINE T == {m \in Nat : \A t \in SUBSET (1..m) : t # {} => Max(t) \in t}
<1>2. 0 \in T
  <2>1. \A t \in SUBSET (1..0) : t = {}
    OBVIOUS
  <2> QED BY <2>1
<1>3. ASSUME NEW k \in 1..n, k - 1 \in T PROVE k \in T
  <2> SUFFICES ASSUME NEW t \in SUBSET (1..k), t # {} PROVE Max(t) \in t
    OBVIOUS
  <2>1. CASE k \in t
    BY <1>1, <2>1
  <2>2. CASE k \notin t
    <3>1. t \in SUBSET (1..(k - 1))
      BY <2>2
    <3> QED BY <1>3, <3>1
  <2> QED BY <2>1, <2>2
<1>4. n \in T
  <2> HIDE DEF T
  <2>1. n \in 0..n
    OBVIOUS
  <2> QED BY <1>2, <1>3, <2>1, Upward
<1> QED BY <1>1, <1>4

\* The first k positions: the last one is taken first, then the others.
LEMMA FirstPositions ==
    ASSUME NEW k \in Nat, k # 0
    PROVE  1..k # {} /\ Max(1..k) = k /\ (1..k) \ {Max(1..k)} = 1..(k - 1)
<1>1. k \in 1..k
  OBVIOUS
<1>2. Max(1..k) = k
  BY <1>1, GreatestOf
<1>3. (1..k) \ {k} = 1..(k - 1)
  OBVIOUS
<1> QED BY <1>1, <1>2, <1>3

\* g takes every set of positions from the last to the first, as FoldLeft does.
Folds(g, n, S, base, step) ==
    /\ g \in [SUBSET (1..n) -> S]
    /\ \A s \in SUBSET (1..n) :
          g[s] = IF s = {} THEN base ELSE step[<<Max(s), g[s \ {Max(s)}]>>]

\* There is such a function.
LEMMA FoldExists ==
    ASSUME NEW n \in Nat, NEW S, NEW base \in S, NEW step \in [(1..n) \X S -> S]
    PROVE  \E g : Folds(g, n, S, base, step)
<1> DEFINE Def(g, s) == IF s = {} THEN base ELSE step[<<Max(s), g[s \ {Max(s)}]>>]
           Upto(m) == \E g \in [SUBSET (1..m) -> S] : \A s \in SUBSET (1..m) : g[s] = Def(g, s)
           T == {m \in Nat : Upto(m)}
<1>1. Upto(0)
  <2> DEFINE g == [s \in SUBSET (1..0) |-> base]
  <2>1. g \in [SUBSET (1..0) -> S] /\ \A s \in SUBSET (1..0) : g[s] = Def(g, s)
    <3>1. \A s \in SUBSET (1..0) : s = {}
      OBVIOUS
    <3> QED BY <3>1
  <2> HIDE DEF g, Def
  <2> QED BY <2>1
<1>2. ASSUME NEW k \in 1..n, Upto(k - 1) PROVE Upto(k)
  <2>1. PICK g \in [SUBSET (1..(k - 1)) -> S] : \A s \in SUBSET (1..(k - 1)) : g[s] = Def(g, s)
    BY <1>2
  <2> DEFINE h == [s \in SUBSET (1..k) |->
                     IF k \in s THEN step[<<k, g[s \ {k}]>>] ELSE g[s]]
  <2>2. ASSUME NEW s \in SUBSET (1..k)
        PROVE  s \ {k} \in SUBSET (1..(k - 1)) /\ (k \notin s => s \in SUBSET (1..(k - 1)))
    OBVIOUS
  <2>3. ASSUME NEW s \in SUBSET (1..k)
        PROVE  (IF k \in s THEN step[<<k, g[s \ {k}]>>] ELSE g[s]) \in S
    <3>1. CASE k \in s
      <4>1. g[s \ {k}] \in S
        BY <2>2
      <4>2. <<k, g[s \ {k}]>> \in (1..n) \X S
        BY <4>1
      <4> QED BY <3>1, <4>2
    <3>2. CASE k \notin s
      BY <2>2, <3>2
    <3> QED BY <3>1, <3>2
  <2>4. h \in [SUBSET (1..k) -> S]
    BY <2>3
  <2>5. ASSUME NEW s \in SUBSET (1..k) PROVE h[s] = Def(h, s)
    <3>1. CASE k \in s
      <4>1. Max(s) = k /\ s # {} /\ k \notin s \ {k} /\ s \ {k} \in SUBSET (1..k)
        BY <3>1, GreatestOf
      <4>2. h[s \ {k}] = g[s \ {k}]
        BY <4>1
      <4>3. h[s] = step[<<k, g[s \ {k}]>>]
        BY <3>1
      <4> HIDE DEF h
      <4> QED BY <4>1, <4>2, <4>3
    <3>2. CASE k \notin s
      <4>1. s \in SUBSET (1..(k - 1)) /\ k - 1 \in Nat
        BY <2>2, <3>2
      <4>2. g[s] = Def(g, s)
        BY <2>1, <4>1
      <4>3. h[s] = g[s]
        BY <3>2
      <4>4. s # {} => h[s \ {Max(s)}] = g[s \ {Max(s)}]
        <5>1. s \ {Max(s)} \in SUBSET (1..k) /\ k \notin s \ {Max(s)}
          BY <3>2
        <5> QED BY <5>1
      <4> HIDE DEF h
      <4> QED BY <4>2, <4>3, <4>4
    <3> QED BY <3>1, <3>2
  <2> HIDE DEF h, Def
  <2> QED BY <2>4, <2>5
<1>3. Upto(n)
  <2> HIDE DEF Upto
  <2>1. 0 \in T /\ (\A k \in 1..n : k - 1 \in T => k \in T)
    BY <1>1, <1>2
  <2> HIDE DEF T
  <2>2. n \in 0..n
    OBVIOUS
  <2>3. n \in T
    BY <2>1, <2>2, Upward
  <2> QED BY <2>3 DEF T
<1> QED BY <1>3 DEF Folds

\* UniqueModels takes the models one after the other.
UniqueStep(done, m, excluded) ==
    IF Blank(m) \/ Trim(m) \in excluded \cup ToSet(done) THEN done ELSE Append(done, Trim(m))
UniqueLoop(h, values, excluded) ==
    /\ h[0] = <<>>
    /\ \A k \in 1..Len(values) : h[k] = UniqueStep(h[k - 1], values[k], excluded)

LEMMA UniqueType ==
    ASSUME NEW done \in Seq(Models), NEW m \in Models, NEW excluded
    PROVE  UniqueStep(done, m, excluded) \in Seq(Models)
  BY AppendProperties DEF UniqueStep, Models, Trim

LEMMA UniqueIs ==
    ASSUME NEW values \in Seq(Models), NEW excluded
    PROVE  \E h : UniqueLoop(h, values, excluded) /\ UniqueModels(values, excluded) = h[Len(values)]
<1> DEFINE n == Len(values)
           Def(g, s) == IF s = {} THEN <<>> ELSE UniqueStep(g[s \ {Max(s)}], values[Max(s)], excluded)
           iter == CHOOSE iter : iter = [s \in SUBSET DOMAIN values |-> Def(iter, s)]
           step == [p \in (1..n) \X Seq(Models) |-> UniqueStep(p[2], values[p[1]], excluded)]
           h == [k \in 0..n |-> iter[1..k]]
<1>1. n \in Nat /\ DOMAIN values = 1..n /\ \A k \in 1..n : values[k] \in Models
  BY LenProperties, ElementOfSeq
<1>2. UniqueModels(values, excluded) = iter[DOMAIN values]
  BY DEF UniqueModels, FoldLeft, MapThenFoldSet, UniqueStep
<1>3. step \in [(1..n) \X Seq(Models) -> Seq(Models)]
  <2>1. \A p \in (1..n) \X Seq(Models) : UniqueStep(p[2], values[p[1]], excluded) \in Seq(Models)
    BY <1>1, UniqueType
  <2> QED BY <2>1
<1>p. PICK g : Folds(g, n, Seq(Models), <<>>, step)
  <2>1. <<>> \in Seq(Models)
    OBVIOUS
  <2>2. n \in Nat
    BY <1>1
  <2> HIDE DEF step, n
  <2> QED BY <1>3, <2>1, <2>2, FoldExists
<1>4. \A s \in SUBSET (1..n) :
         /\ g[s] = IF s = {} THEN <<>> ELSE step[<<Max(s), g[s \ {Max(s)}]>>]
         /\ g[s] \in Seq(Models)
  <2> HIDE DEF step
  <2> QED BY <1>p DEF Folds
<1>5. \A s \in SUBSET (1..n) : g[s] = Def(g, s)
  <2> SUFFICES ASSUME NEW s \in SUBSET (1..n) PROVE g[s] = Def(g, s)
    OBVIOUS
  <2>1. CASE s = {}
    BY <1>4, <2>1
  <2>2. CASE s # {}
    <3> DEFINE x == Max(s)
    <3>1. x \in 1..n
      BY <1>1, <2>2, GreatestOf
    <3>2. g[s] = step[<<x, g[s \ {x}]>>]
      BY <1>4, <2>2
    <3> HIDE DEF x
    <3>3. <<x, g[s \ {x}]>> \in (1..n) \X Seq(Models)
      <4>1. s \ {x} \in SUBSET (1..n)
        OBVIOUS
      <4>2. g[s \ {x}] \in Seq(Models)
        BY <1>4, <4>1
      <4> QED BY <3>1, <4>2
    <3>4. step[<<x, g[s \ {x}]>>] = UniqueStep(g[s \ {x}], values[x], excluded)
      BY <3>3
    <3> HIDE DEF step
    <3> QED BY <2>2, <3>2, <3>4 DEF x
  <2> QED BY <2>1, <2>2
<1>6. iter = [s \in SUBSET DOMAIN values |-> Def(iter, s)]
  <2> HIDE DEF Def
  <2>1. g = [s \in SUBSET DOMAIN values |-> Def(g, s)]
    <3>1. g = [s \in SUBSET (1..n) |-> g[s]]
      <4> HIDE DEF step
      <4> QED BY <1>p DEF Folds
    <3> QED BY <1>1, <1>5, <3>1
  <2> QED BY <2>1
<1> HIDE DEF iter
<1>7. \A s \in SUBSET (1..n) : iter[s] = Def(iter, s)
  <2> HIDE DEF Def
  <2> QED BY <1>1, <1>6
<1>8. h[0] = <<>>
  <2>1. 1..0 = {} /\ 0 \in 0..n /\ {} \in SUBSET (1..n)
    BY <1>1
  <2>2. iter[{}] = <<>>
    BY <1>7, <2>1
  <2> QED BY <2>1, <2>2
<1>9. ASSUME NEW k \in 1..n PROVE h[k] = UniqueStep(h[k - 1], values[k], excluded)
  <2>1. k \in Nat /\ k # 0 /\ k \in 0..n /\ k - 1 \in 0..n /\ 1..k \in SUBSET (1..n)
    BY <1>1
  <2>2. 1..k # {} /\ Max(1..k) = k /\ (1..k) \ {Max(1..k)} = 1..(k - 1)
    BY <2>1, FirstPositions
  <2>3. iter[1..k] = Def(iter, 1..k)
    <3> HIDE DEF Def
    <3> QED BY <1>7, <2>1
  <2>4. iter[1..k] = UniqueStep(iter[1..(k - 1)], values[k], excluded)
    BY <2>2, <2>3
  <2> QED BY <2>1, <2>4
<1>10. UniqueModels(values, excluded) = h[n]
  BY <1>1, <1>2
<1> HIDE DEF h
<1> QED BY <1>8, <1>9, <1>10 DEF UniqueLoop

\* NamedModels takes the visual models one after the other.
NamedStep(done, m) ==
    IF Blank(m.model) THEN done ELSE Append(done, m)
NamedLoop(h, values) ==
    /\ h[0] = <<>>
    /\ \A k \in 1..Len(values) : h[k] = NamedStep(h[k - 1], values[k])

LEMMA NamedType ==
    ASSUME NEW done \in Seq(Candidates), NEW m \in Candidates
    PROVE  NamedStep(done, m) \in Seq(Candidates)
  BY AppendProperties DEF NamedStep, Candidates

LEMMA NamedIs ==
    ASSUME NEW values \in Seq(Candidates)
    PROVE  \E h : NamedLoop(h, values) /\ NamedModels(values) = h[Len(values)]
<1> DEFINE n == Len(values)
           Def(g, s) == IF s = {} THEN <<>> ELSE NamedStep(g[s \ {Max(s)}], values[Max(s)])
           iter == CHOOSE iter : iter = [s \in SUBSET DOMAIN values |-> Def(iter, s)]
           step == [p \in (1..n) \X Seq(Candidates) |-> NamedStep(p[2], values[p[1]])]
           h == [k \in 0..n |-> iter[1..k]]
<1>1. n \in Nat /\ DOMAIN values = 1..n /\ \A k \in 1..n : values[k] \in Candidates
  BY LenProperties, ElementOfSeq
<1>2. NamedModels(values) = iter[DOMAIN values]
  BY DEF NamedModels, FoldLeft, MapThenFoldSet, NamedStep
<1>3. step \in [(1..n) \X Seq(Candidates) -> Seq(Candidates)]
  <2>1. \A p \in (1..n) \X Seq(Candidates) : NamedStep(p[2], values[p[1]]) \in Seq(Candidates)
    BY <1>1, NamedType
  <2> QED BY <2>1
<1>p. PICK g : Folds(g, n, Seq(Candidates), <<>>, step)
  <2>1. <<>> \in Seq(Candidates)
    OBVIOUS
  <2>2. n \in Nat
    BY <1>1
  <2> HIDE DEF step, n
  <2> QED BY <1>3, <2>1, <2>2, FoldExists
<1>4. \A s \in SUBSET (1..n) :
         /\ g[s] = IF s = {} THEN <<>> ELSE step[<<Max(s), g[s \ {Max(s)}]>>]
         /\ g[s] \in Seq(Candidates)
  <2> HIDE DEF step
  <2> QED BY <1>p DEF Folds
<1>5. \A s \in SUBSET (1..n) : g[s] = Def(g, s)
  <2> SUFFICES ASSUME NEW s \in SUBSET (1..n) PROVE g[s] = Def(g, s)
    OBVIOUS
  <2>1. CASE s = {}
    BY <1>4, <2>1
  <2>2. CASE s # {}
    <3> DEFINE x == Max(s)
    <3>1. x \in 1..n
      BY <1>1, <2>2, GreatestOf
    <3>2. g[s] = step[<<x, g[s \ {x}]>>]
      BY <1>4, <2>2
    <3> HIDE DEF x
    <3>3. <<x, g[s \ {x}]>> \in (1..n) \X Seq(Candidates)
      <4>1. s \ {x} \in SUBSET (1..n)
        OBVIOUS
      <4>2. g[s \ {x}] \in Seq(Candidates)
        BY <1>4, <4>1
      <4> QED BY <3>1, <4>2
    <3>4. step[<<x, g[s \ {x}]>>] = NamedStep(g[s \ {x}], values[x])
      BY <3>3
    <3> HIDE DEF step
    <3> QED BY <2>2, <3>2, <3>4 DEF x
  <2> QED BY <2>1, <2>2
<1>6. iter = [s \in SUBSET DOMAIN values |-> Def(iter, s)]
  <2> HIDE DEF Def
  <2>1. g = [s \in SUBSET DOMAIN values |-> Def(g, s)]
    <3>1. g = [s \in SUBSET (1..n) |-> g[s]]
      <4> HIDE DEF step
      <4> QED BY <1>p DEF Folds
    <3> QED BY <1>1, <1>5, <3>1
  <2> QED BY <2>1
<1> HIDE DEF iter
<1>7. \A s \in SUBSET (1..n) : iter[s] = Def(iter, s)
  <2> HIDE DEF Def
  <2> QED BY <1>1, <1>6
<1>8. h[0] = <<>>
  <2>1. 1..0 = {} /\ 0 \in 0..n /\ {} \in SUBSET (1..n)
    BY <1>1
  <2>2. iter[{}] = <<>>
    BY <1>7, <2>1
  <2> QED BY <2>1, <2>2
<1>9. ASSUME NEW k \in 1..n PROVE h[k] = NamedStep(h[k - 1], values[k])
  <2>1. k \in Nat /\ k # 0 /\ k \in 0..n /\ k - 1 \in 0..n /\ 1..k \in SUBSET (1..n)
    BY <1>1
  <2>2. 1..k # {} /\ Max(1..k) = k /\ (1..k) \ {Max(1..k)} = 1..(k - 1)
    BY <2>1, FirstPositions
  <2>3. iter[1..k] = Def(iter, 1..k)
    <3> HIDE DEF Def
    <3> QED BY <1>7, <2>1
  <2>4. iter[1..k] = NamedStep(iter[1..(k - 1)], values[k])
    BY <2>2, <2>3
  <2> QED BY <2>1, <2>4
<1>10. NamedModels(values) = h[n]
  BY <1>1, <1>2
<1> HIDE DEF h
<1> QED BY <1>8, <1>9, <1>10 DEF NamedLoop

\* So does VisualChain, of those that are enabled.
SeeingStep(done, m) ==
    IF m.enabled THEN Append(done, m.model) ELSE done
SeeingLoop(h, values) ==
    /\ h[0] = <<>>
    /\ \A k \in 1..Len(values) : h[k] = SeeingStep(h[k - 1], values[k])

LEMMA SeeingType ==
    ASSUME NEW done \in Seq(Models), NEW m \in Candidates
    PROVE  SeeingStep(done, m) \in Seq(Models)
  BY AppendProperties DEF SeeingStep, Candidates

LEMMA SeeingIs ==
    ASSUME NEW c, NEW values, values = c.vision, values \in Seq(Candidates)
    PROVE  \E h : SeeingLoop(h, values) /\ VisualChain(c) = h[Len(values)]
<1> DEFINE n == Len(values)
           Def(g, s) == IF s = {} THEN <<>> ELSE SeeingStep(g[s \ {Max(s)}], values[Max(s)])
           iter == CHOOSE iter : iter = [s \in SUBSET DOMAIN values |-> Def(iter, s)]
           step == [p \in (1..n) \X Seq(Models) |-> SeeingStep(p[2], values[p[1]])]
           h == [k \in 0..n |-> iter[1..k]]
<1>1. n \in Nat /\ DOMAIN values = 1..n /\ \A k \in 1..n : values[k] \in Candidates
  BY LenProperties, ElementOfSeq
<1>2. VisualChain(c) = iter[DOMAIN values]
  BY DEF VisualChain, FoldLeft, MapThenFoldSet, SeeingStep
<1>3. step \in [(1..n) \X Seq(Models) -> Seq(Models)]
  <2>1. \A p \in (1..n) \X Seq(Models) : SeeingStep(p[2], values[p[1]]) \in Seq(Models)
    BY <1>1, SeeingType
  <2> QED BY <2>1
<1>p. PICK g : Folds(g, n, Seq(Models), <<>>, step)
  <2>1. <<>> \in Seq(Models)
    OBVIOUS
  <2>2. n \in Nat
    BY <1>1
  <2> HIDE DEF step, n
  <2> QED BY <1>3, <2>1, <2>2, FoldExists
<1>4. \A s \in SUBSET (1..n) :
         /\ g[s] = IF s = {} THEN <<>> ELSE step[<<Max(s), g[s \ {Max(s)}]>>]
         /\ g[s] \in Seq(Models)
  <2> HIDE DEF step
  <2> QED BY <1>p DEF Folds
<1>5. \A s \in SUBSET (1..n) : g[s] = Def(g, s)
  <2> SUFFICES ASSUME NEW s \in SUBSET (1..n) PROVE g[s] = Def(g, s)
    OBVIOUS
  <2>1. CASE s = {}
    BY <1>4, <2>1
  <2>2. CASE s # {}
    <3> DEFINE x == Max(s)
    <3>1. x \in 1..n
      BY <1>1, <2>2, GreatestOf
    <3>2. g[s] = step[<<x, g[s \ {x}]>>]
      BY <1>4, <2>2
    <3> HIDE DEF x
    <3>3. <<x, g[s \ {x}]>> \in (1..n) \X Seq(Models)
      <4>1. s \ {x} \in SUBSET (1..n)
        OBVIOUS
      <4>2. g[s \ {x}] \in Seq(Models)
        BY <1>4, <4>1
      <4> QED BY <3>1, <4>2
    <3>4. step[<<x, g[s \ {x}]>>] = SeeingStep(g[s \ {x}], values[x])
      BY <3>3
    <3> HIDE DEF step
    <3> QED BY <2>2, <3>2, <3>4 DEF x
  <2> QED BY <2>1, <2>2
<1>6. iter = [s \in SUBSET DOMAIN values |-> Def(iter, s)]
  <2> HIDE DEF Def
  <2>1. g = [s \in SUBSET DOMAIN values |-> Def(g, s)]
    <3>1. g = [s \in SUBSET (1..n) |-> g[s]]
      <4> HIDE DEF step
      <4> QED BY <1>p DEF Folds
    <3> QED BY <1>1, <1>5, <3>1
  <2> QED BY <2>1
<1> HIDE DEF iter
<1>7. \A s \in SUBSET (1..n) : iter[s] = Def(iter, s)
  <2> HIDE DEF Def
  <2> QED BY <1>1, <1>6
<1>8. h[0] = <<>>
  <2>1. 1..0 = {} /\ 0 \in 0..n /\ {} \in SUBSET (1..n)
    BY <1>1
  <2>2. iter[{}] = <<>>
    BY <1>7, <2>1
  <2> QED BY <2>1, <2>2
<1>9. ASSUME NEW k \in 1..n PROVE h[k] = SeeingStep(h[k - 1], values[k])
  <2>1. k \in Nat /\ k # 0 /\ k \in 0..n /\ k - 1 \in 0..n /\ 1..k \in SUBSET (1..n)
    BY <1>1
  <2>2. 1..k # {} /\ Max(1..k) = k /\ (1..k) \ {Max(1..k)} = 1..(k - 1)
    BY <2>1, FirstPositions
  <2>3. iter[1..k] = Def(iter, 1..k)
    <3> HIDE DEF Def
    <3> QED BY <1>7, <2>1
  <2>4. iter[1..k] = SeeingStep(iter[1..(k - 1)], values[k])
    BY <2>2, <2>3
  <2> QED BY <2>1, <2>4
<1>10. VisualChain(c) = h[n]
  BY <1>1, <1>2
<1> HIDE DEF h
<1> QED BY <1>8, <1>9, <1>10 DEF SeeingLoop

-----------------------------------------------------------------------------
\* What is in the lists they make.

\* A name as it is compared: trimmed, and not blank.
Usable(m) == ~Blank(m) /\ Trim(m) = m

\* To append what is not yet there keeps a list without repetitions.
LEMMA AppendFacts ==
    ASSUME NEW S, NEW s \in Seq(S), NEW e \in S
    PROVE  /\ Append(s, e) \in Seq(S) /\ Append(s, e) # <<>>
           /\ ToSet(Append(s, e)) = ToSet(s) \cup {e}
           /\ Distinct(s) /\ e \notin ToSet(s) => Distinct(Append(s, e))
<1> DEFINE t == Append(s, e)
<1>1. /\ Len(s) \in Nat /\ DOMAIN s = 1..Len(s)
      /\ t \in Seq(S) /\ t # <<>> /\ Len(t) = Len(s) + 1
      /\ \A i \in 1..Len(s) : t[i] = s[i]
      /\ t[Len(s) + 1] = e
  BY AppendProperties, LenProperties
<1>2. DOMAIN t = 1..(Len(s) + 1)
  BY <1>1, LenProperties
<1> HIDE DEF t
<1>3. \A i \in 1..(Len(s) + 1) : i \in 1..Len(s) \/ i = Len(s) + 1
  BY <1>1
<1>4. \A i \in 1..Len(s) : i \in 1..(Len(s) + 1)
  BY <1>1
<1>5. Len(s) + 1 \in 1..(Len(s) + 1)
  BY <1>1
<1>6. ToSet(t) = ToSet(s) \cup {e}
  BY <1>1, <1>2, <1>3, <1>4, <1>5 DEF ToSet
<1>7. ASSUME Distinct(s), e \notin ToSet(s) PROVE Distinct(t)
  <2> SUFFICES ASSUME NEW j \in 1..(Len(s) + 1), NEW k \in 1..(Len(s) + 1), t[j] = t[k]
               PROVE  j = k
    BY <1>2 DEF Distinct
  <2>1. \A i \in 1..Len(s) : s[i] # e
    BY <1>1, <1>7 DEF ToSet
  <2>2. CASE j \in 1..Len(s) /\ k \in 1..Len(s)
    BY <1>1, <1>7, <2>2 DEF Distinct
  <2>3. CASE j = Len(s) + 1 /\ k = Len(s) + 1
    BY <2>3
  <2>4. CASE j \in 1..Len(s) /\ k = Len(s) + 1
    BY <1>1, <2>1, <2>4
  <2>5. CASE j = Len(s) + 1 /\ k \in 1..Len(s)
    BY <1>1, <2>1, <2>5
  <2> QED BY <1>3, <2>2, <2>3, <2>4, <2>5
<1> QED BY <1>1, <1>6, <1>7 DEF t

LEMMA EmptyFacts == ToSet(<<>>) = {} /\ Distinct(<<>>)
  BY DEF ToSet, Distinct

\* Trimming keeps a name, and once is enough.
LEMMA TrimFacts ==
    ASSUME NEW m \in Models
    PROVE  /\ Trim(m) \in Models /\ Trim(Trim(m)) = Trim(m)
           /\ Blank(Trim(m)) <=> Blank(m)
  BY DEF Models, Trim, Blank

\* UniqueModels returns trimmed names, without a blank, a repeated or an excluded one.
LEMMA UniqueFacts ==
    ASSUME NEW values \in Seq(Models), NEW excluded
    PROVE  LET models == UniqueModels(values, excluded)
           IN  /\ models \in Seq(Models) /\ Distinct(models)
               /\ \A m \in ToSet(models) : Usable(m) /\ m \notin excluded
               /\ \A m \in ToSet(models) : \E k \in DOMAIN values : m = Trim(values[k])
<1> DEFINE n == Len(values)
           Good(s) == /\ s \in Seq(Models) /\ Distinct(s)
                      /\ \A m \in ToSet(s) : Usable(m) /\ m \notin excluded
                      /\ \A m \in ToSet(s) : \E k \in DOMAIN values : m = Trim(values[k])
<1>1. PICK h : UniqueLoop(h, values, excluded) /\ UniqueModels(values, excluded) = h[n]
  BY UniqueIs
<1> DEFINE T == {k \in 0..n : Good(h[k])}
<1>2. n \in Nat /\ DOMAIN values = 1..n /\ \A k \in 1..n : values[k] \in Models
  BY LenProperties, ElementOfSeq
<1>3. 0 \in T
  <2>1. <<>> \in Seq(Models)
    OBVIOUS
  <2>2. h[0] = <<>> /\ 0 \in 0..n
    BY <1>1, <1>2 DEF UniqueLoop
  <2> QED BY <2>1, <2>2, EmptyFacts
<1>4. ASSUME NEW k \in 1..n, k - 1 \in T PROVE k \in T
  <2> DEFINE done == h[k - 1]
             m == values[k]
  <2>1. Good(done) /\ m \in Models /\ k \in 0..n
    BY <1>2, <1>4
  <2>2. h[k] = UniqueStep(done, m, excluded)
    BY <1>1 DEF UniqueLoop
  <2>3. CASE Blank(m) \/ Trim(m) \in excluded \cup ToSet(done)
    <3>1. h[k] = done
      BY <2>2, <2>3 DEF UniqueStep
    <3> HIDE DEF Good, done
    <3> QED BY <2>1, <3>1
  <2>4. CASE ~(Blank(m) \/ Trim(m) \in excluded \cup ToSet(done))
    <3>1. h[k] = Append(done, Trim(m))
      BY <2>2, <2>4 DEF UniqueStep
    <3>2. Trim(m) \in Models /\ Usable(Trim(m)) /\ Trim(m) \notin excluded /\ Trim(m) \notin ToSet(done)
      BY <2>1, <2>4, TrimFacts DEF Usable
    <3>3. /\ h[k] \in Seq(Models) /\ Distinct(h[k])
          /\ ToSet(h[k]) = ToSet(done) \cup {Trim(m)}
      <4> HIDE DEF done, m
      <4> QED BY <2>1, <3>1, <3>2, AppendFacts
    <3>4. \E j \in DOMAIN values : Trim(m) = Trim(values[j])
      BY <1>2
    <3>5. Good(h[k])
      <4> HIDE DEF done, m
      <4> QED BY <2>1, <3>2, <3>3, <3>4
    <3> QED BY <2>1, <3>5
  <2> QED BY <2>3, <2>4
<1>5. Good(h[n])
  <2> HIDE DEF Good
  <2>1. \A k \in 0..n : k \in T
    <3> HIDE DEF T
    <3> QED BY <1>2, <1>3, <1>4, Upward
  <2>2. n \in 0..n
    BY <1>2
  <2> QED BY <2>1, <2>2
<1> QED BY <1>1, <1>5

\* Two sequences with the same elements are the same.
LEMMA SameSeq ==
    ASSUME NEW S, NEW s \in Seq(S), NEW t \in Seq(S), Len(s) = Len(t),
           \A i \in 1..Len(t) : s[i] = t[i]
    PROVE  s = t
<1>1. /\ s = [i \in 1..Len(s) |-> s[i]] /\ t = [i \in 1..Len(t) |-> t[i]]
  BY LenProperties
<1> QED BY <1>1

\* It leaves such a list as it is.
LEMMA UniqueSame ==
    ASSUME NEW values \in Seq(Models), NEW excluded, Distinct(values),
           \A m \in ToSet(values) : Usable(m) /\ m \notin excluded
    PROVE  UniqueModels(values, excluded) = values
<1> DEFINE n == Len(values)
           Good(s, k) == s \in Seq(Models) /\ Len(s) = k /\ \A i \in 1..k : s[i] = values[i]
<1>1. PICK h : UniqueLoop(h, values, excluded) /\ UniqueModels(values, excluded) = h[n]
  BY UniqueIs
<1> DEFINE T == {k \in 0..n : Good(h[k], k)}
<1>2. n \in Nat /\ DOMAIN values = 1..n /\ \A k \in 1..n : values[k] \in Models
  BY LenProperties, ElementOfSeq
<1>3. 0 \in T
  <2>1. <<>> \in Seq(Models) /\ Len(<<>>) = 0 /\ \A i \in 1..0 : FALSE
    OBVIOUS
  <2>2. h[0] = <<>> /\ 0 \in 0..n
    BY <1>1, <1>2 DEF UniqueLoop
  <2>3. Good(<<>>, 0)
    BY <2>1
  <2> HIDE DEF Good
  <2> QED BY <2>2, <2>3
<1>4. ASSUME NEW k \in 1..n, k - 1 \in T PROVE k \in T
  <2> DEFINE done == h[k - 1]
             m == values[k]
  <2>1. Good(done, k - 1) /\ m \in Models /\ k \in 0..n /\ m \in ToSet(values)
    BY <1>2, <1>4 DEF ToSet
  <2>2. h[k] = UniqueStep(done, m, excluded)
    BY <1>1 DEF UniqueLoop
  <2>3. ~Blank(m) /\ Trim(m) = m /\ m \notin excluded
    BY <2>1 DEF Usable
  <2>4. m \notin ToSet(done)
    <3>1. DOMAIN done = 1..(k - 1)
      BY <2>1, LenProperties
    <3>2. ASSUME NEW i \in 1..(k - 1) PROVE done[i] # m
      <4>1. i \in 1..n /\ i # k /\ done[i] = values[i]
        BY <1>2, <2>1, <3>2
      <4> QED BY <1>2, <4>1 DEF Distinct
    <3> HIDE DEF done, m
    <3> QED BY <3>1, <3>2 DEF ToSet
  <2>5. h[k] = Append(done, m)
    <3> HIDE DEF done, m
    <3> QED BY <2>2, <2>3, <2>4 DEF UniqueStep
  <2>6. /\ h[k] \in Seq(Models) /\ Len(h[k]) = Len(done) + 1
        /\ \A i \in 1..Len(done) : h[k][i] = done[i]
        /\ h[k][Len(done) + 1] = m
    <3> HIDE DEF done, m
    <3> QED BY <2>1, <2>5, AppendProperties
  <2>7. Len(done) = k - 1 /\ (k - 1) + 1 = k
    BY <2>1
  <2>8. ASSUME NEW i \in 1..k PROVE h[k][i] = values[i]
    <3>1. CASE i = k
      BY <2>6, <2>7, <3>1
    <3>2. CASE i # k
      <4>1. i \in 1..(k - 1)
        BY <3>2
      <4>2. h[k][i] = done[i]
        BY <2>6, <2>7, <4>1
      <4>3. done[i] = values[i]
        BY <2>1, <4>1
      <4> QED BY <4>2, <4>3
    <3> QED BY <3>1, <3>2
  <2> QED BY <2>1, <2>6, <2>7, <2>8
<1>5. Good(h[n], n)
  <2> HIDE DEF Good
  <2>1. \A k \in 0..n : k \in T
    <3> HIDE DEF T
    <3> QED BY <1>2, <1>3, <1>4, Upward
  <2>2. n \in 0..n
    BY <1>2
  <2> QED BY <2>1, <2>2
<1> QED BY <1>1, <1>5, SameSeq

\* NamedModels returns no more visual models than it is given, and all with a name.
LEMMA NamedFacts ==
    ASSUME NEW values \in Seq(Candidates)
    PROVE  LET named == NamedModels(values)
           IN  /\ named \in Seq(Candidates) /\ Len(named) <= Len(values)
               /\ \A m \in ToSet(named) : ~Blank(m.model)
<1> DEFINE n == Len(values)
           Good(s, k) == /\ s \in Seq(Candidates) /\ Len(s) <= k
                         /\ \A m \in ToSet(s) : ~Blank(m.model)
<1>1. PICK h : NamedLoop(h, values) /\ NamedModels(values) = h[n]
  BY NamedIs
<1> DEFINE T == {k \in 0..n : Good(h[k], k)}
<1>2. n \in Nat /\ \A k \in 1..n : values[k] \in Candidates
  BY LenProperties, ElementOfSeq
<1>3. 0 \in T
  <2>1. <<>> \in Seq(Candidates) /\ Len(<<>>) = 0 /\ Len(<<>>) <= 0
    OBVIOUS
  <2>2. h[0] = <<>> /\ 0 \in 0..n
    BY <1>1, <1>2 DEF NamedLoop
  <2>3. Good(<<>>, 0)
    BY <2>1, EmptyFacts
  <2> HIDE DEF Good
  <2> QED BY <2>2, <2>3
<1>4. ASSUME NEW k \in 1..n, k - 1 \in T PROVE k \in T
  <2> DEFINE done == h[k - 1]
             m == values[k]
  <2>1. Good(done, k - 1) /\ m \in Candidates /\ k \in 0..n /\ Len(done) \in Nat
    BY <1>2, <1>4, LenProperties
  <2>2. h[k] = NamedStep(done, m)
    BY <1>1 DEF NamedLoop
  <2>3. CASE Blank(m.model)
    <3>1. h[k] = done /\ Len(done) <= k
      BY <2>1, <2>2, <2>3 DEF NamedStep
    <3> HIDE DEF done
    <3> QED BY <2>1, <3>1
  <2>4. CASE ~Blank(m.model)
    <3>1. h[k] = Append(done, m)
      BY <2>2, <2>4 DEF NamedStep
    <3>2. /\ h[k] \in Seq(Candidates) /\ Len(h[k]) = Len(done) + 1
          /\ ToSet(h[k]) = ToSet(done) \cup {m}
      <4> HIDE DEF done, m
      <4> QED BY <2>1, <3>1, AppendFacts, AppendProperties
    <3>3. Len(h[k]) <= k
      BY <2>1, <3>2
    <3>4. Good(h[k], k)
      <4> HIDE DEF done, m
      <4> QED BY <2>1, <2>4, <3>2, <3>3
    <3> QED BY <2>1, <3>4
  <2> QED BY <2>3, <2>4
<1>5. Good(h[n], n)
  <2> HIDE DEF Good
  <2>1. \A k \in 0..n : k \in T
    <3> HIDE DEF T
    <3> QED BY <1>2, <1>3, <1>4, Upward
  <2>2. n \in 0..n
    BY <1>2
  <2> QED BY <2>1, <2>2
<1> QED BY <1>1, <1>5

\* It leaves a list with names as it is.
LEMMA NamedSame ==
    ASSUME NEW values \in Seq(Candidates), \A k \in DOMAIN values : ~Blank(values[k].model)
    PROVE  NamedModels(values) = values
<1> DEFINE n == Len(values)
           Good(s, k) == s \in Seq(Candidates) /\ Len(s) = k /\ \A i \in 1..k : s[i] = values[i]
<1>1. PICK h : NamedLoop(h, values) /\ NamedModels(values) = h[n]
  BY NamedIs
<1> DEFINE T == {k \in 0..n : Good(h[k], k)}
<1>2. n \in Nat /\ DOMAIN values = 1..n /\ \A k \in 1..n : values[k] \in Candidates
  BY LenProperties, ElementOfSeq
<1>3. 0 \in T
  <2>1. <<>> \in Seq(Candidates) /\ Len(<<>>) = 0 /\ \A i \in 1..0 : FALSE
    OBVIOUS
  <2>2. h[0] = <<>> /\ 0 \in 0..n
    BY <1>1, <1>2 DEF NamedLoop
  <2>3. Good(<<>>, 0)
    BY <2>1
  <2> HIDE DEF Good
  <2> QED BY <2>2, <2>3
<1>4. ASSUME NEW k \in 1..n, k - 1 \in T PROVE k \in T
  <2> DEFINE done == h[k - 1]
             m == values[k]
  <2>1. Good(done, k - 1) /\ m \in Candidates /\ k \in 0..n /\ ~Blank(m.model)
    BY <1>2, <1>4
  <2>2. h[k] = Append(done, m)
    BY <1>1, <2>1 DEF NamedLoop, NamedStep
  <2>3. /\ h[k] \in Seq(Candidates) /\ Len(h[k]) = Len(done) + 1
        /\ \A i \in 1..Len(done) : h[k][i] = done[i]
        /\ h[k][Len(done) + 1] = m
    <3> HIDE DEF done, m
    <3> QED BY <2>1, <2>2, AppendProperties
  <2>4. Len(done) = k - 1 /\ (k - 1) + 1 = k
    BY <2>1
  <2>5. ASSUME NEW i \in 1..k PROVE h[k][i] = values[i]
    <3>1. CASE i = k
      BY <2>3, <2>4, <3>1
    <3>2. CASE i # k
      <4>1. i \in 1..(k - 1)
        BY <3>2
      <4>2. h[k][i] = done[i]
        BY <2>3, <2>4, <4>1
      <4>3. done[i] = values[i]
        BY <2>1, <4>1
      <4> QED BY <4>2, <4>3
    <3> QED BY <3>1, <3>2
  <2> QED BY <2>1, <2>3, <2>4, <2>5
<1>5. Good(h[n], n)
  <2> HIDE DEF Good
  <2>1. \A k \in 0..n : k \in T
    <3> HIDE DEF T
    <3> QED BY <1>2, <1>3, <1>4, Upward
  <2>2. n \in 0..n
    BY <1>2
  <2> QED BY <2>1, <2>2
<1> QED BY <1>1, <1>5, SameSeq

\* VisualChain has the names of the visual models, each once if they differ, and
\* one at least if one is enabled.
LEMMA SeeingFacts ==
    ASSUME NEW c, NEW values, values = c.vision, values \in Seq(Candidates)
    PROVE  LET chain == VisualChain(c)
           IN  /\ \A m \in ToSet(chain) : \E k \in DOMAIN values : m = values[k].model
               /\ (\E k \in DOMAIN values : values[k].enabled) => chain # <<>>
               /\ (\A j, k \in DOMAIN values : values[j].model = values[k].model => j = k)
                    => Distinct(chain)
<1> DEFINE n == Len(values)
           Differ == \A j, k \in DOMAIN values : values[j].model = values[k].model => j = k
           Named(s, k) == \A m \in ToSet(s) : \E j \in 1..k : m = values[j].model
           Some(s, k) == (\E j \in 1..k : values[j].enabled) => s # <<>>
           Good(s, k) == s \in Seq(Models) /\ Named(s, k) /\ Some(s, k) /\ (Differ => Distinct(s))
<1>1. PICK h : SeeingLoop(h, values) /\ VisualChain(c) = h[n]
  BY SeeingIs
<1> DEFINE T == {k \in 0..n : Good(h[k], k)}
<1>2. n \in Nat /\ DOMAIN values = 1..n /\ \A k \in 1..n : values[k] \in Candidates
  BY LenProperties, ElementOfSeq
<1>3. 0 \in T
  <2>1. <<>> \in Seq(Models) /\ \A j \in 1..0 : FALSE
    OBVIOUS
  <2>2. h[0] = <<>> /\ 0 \in 0..n
    BY <1>1, <1>2 DEF SeeingLoop
  <2> QED BY <2>1, <2>2, EmptyFacts
<1>4. ASSUME NEW k \in 1..n, k - 1 \in T PROVE k \in T
  <2> DEFINE done == h[k - 1]
             m == values[k]
  <2>1. Good(done, k - 1) /\ m \in Candidates /\ k \in 0..n
    BY <1>2, <1>4
  <2>2. h[k] = SeeingStep(done, m)
    BY <1>1 DEF SeeingLoop
  <2>3. \A j \in 1..k : j \in 1..(k - 1) \/ j = k
    OBVIOUS
  <2>4. \A j \in 1..(k - 1) : j \in 1..k /\ j \in 1..n /\ j # k
    BY <1>2
  <2>5. CASE ~m.enabled
    <3>1. h[k] = done
      BY <2>2, <2>5 DEF SeeingStep
    <3>2. Named(done, k)
      BY <2>1, <2>4
    <3>3. Some(done, k)
      BY <2>1, <2>3, <2>5
    <3> HIDE DEF done, Named, Some, Differ
    <3> QED BY <2>1, <3>1, <3>2, <3>3
  <2>6. CASE m.enabled
    <3>1. h[k] = Append(done, m.model) /\ m.model \in Models
      BY <2>1, <2>2, <2>6 DEF SeeingStep, Candidates
    <3>2. /\ h[k] \in Seq(Models) /\ h[k] # <<>>
          /\ ToSet(h[k]) = ToSet(done) \cup {m.model}
          /\ Distinct(done) /\ m.model \notin ToSet(done) => Distinct(h[k])
      <4> HIDE DEF done, m
      <4> QED BY <2>1, <3>1, AppendFacts
    <3>3. Named(h[k], k)
      <4>1. \E j \in 1..k : m.model = values[j].model
        <5>1. k \in 1..k
          OBVIOUS
        <5> QED BY <5>1
      <4>2. Named(done, k)
        BY <2>1, <2>4
      <4> HIDE DEF done, m
      <4> QED BY <3>2, <4>1, <4>2
    <3>4. Differ => m.model \notin ToSet(done)
      <4>1. Differ => \A j \in 1..(k - 1) : values[j].model # m.model
        BY <1>2, <2>4
      <4> QED BY <2>1, <4>1
    <3>5. Differ => Distinct(h[k])
      <4> HIDE DEF Differ, done, m
      <4> QED BY <2>1, <3>2, <3>4
    <3>6. Some(h[k], k)
      BY <3>2
    <3> HIDE DEF Named, Some, Differ
    <3> QED BY <2>1, <3>2, <3>3, <3>5, <3>6
  <2> QED BY <2>5, <2>6
<1>5. Good(h[n], n)
  <2> HIDE DEF Good
  <2>1. \A k \in 0..n : k \in T
    <3> HIDE DEF T
    <3> QED BY <1>2, <1>3, <1>4, Upward
  <2>2. n \in 0..n
    BY <1>2
  <2> QED BY <2>1, <2>2
<1> QED BY <1>1, <1>2, <1>5


-----------------------------------------------------------------------------
\* What normalizeConfig makes of a configuration.

LEMMA NameFacts ==
    ASSUME NEW m \in Models, NEW d \in Models
    PROVE  /\ NameOr(m, d) \in Models /\ Trim(NameOr(m, d)) = NameOr(m, d)
           /\ NameOr(NameOr(m, d), d) = NameOr(m, d)
<1>1. CASE Blank(m)
  BY <1>1, TrimFacts DEF NameOr
<1>2. CASE ~Blank(m)
  BY <1>2, TrimFacts DEF NameOr
<1> QED BY <1>1, <1>2

\* A visual model keeps its place and its name; one with a limit that is accepted
\* has a budget and is not changed again.
LEMMA VisionFacts ==
    ASSUME NEW m \in Candidates
    PROVE  LET v == VisionModel(m)
           IN  /\ v \in Candidates /\ v.model = Trim(m.model)
               /\ v.limit > MinLimit => v.budget > 0 /\ VisionModel(v) = v
<1> DEFINE lim == OrDefault(m.limit, DefaultLimit)
           wanted == Lesser(DefaultBudget, lim - LimitMargin)
           budget == IF m.budget > 0 THEN m.budget ELSE OrDefault(wanted, lim - MinLimit)
           v == [model |-> Trim(m.model), limit |-> lim, budget |-> budget, enabled |-> m.enabled]
<1>1. /\ m.model \in Models /\ m.limit \in Int /\ m.budget \in Int /\ m.enabled \in BOOLEAN
      /\ m = [model |-> m.model, limit |-> m.limit, budget |-> m.budget, enabled |-> m.enabled]
  BY DEF Candidates
<1>2. VisionModel(m) = v
  BY <1>1 DEF VisionModel
<1>3. lim \in Int
  BY <1>1, NumbersAssumption DEF OrDefault
<1>4. wanted \in Int
  BY <1>3, NumbersAssumption DEF Lesser
<1>5. budget \in Int
  BY <1>1, <1>3, <1>4, NumbersAssumption DEF OrDefault
<1>6. Trim(m.model) \in Models /\ Trim(Trim(m.model)) = Trim(m.model)
  BY <1>1, TrimFacts
<1>7. v \in Candidates
  BY <1>1, <1>3, <1>5, <1>6 DEF Candidates
<1>8. ASSUME lim > MinLimit PROVE budget > 0 /\ VisionModel(v) = v
  <2>1. budget > 0
    BY <1>1, <1>3, <1>4, <1>8, NumbersAssumption DEF OrDefault
  <2>2. OrDefault(lim, DefaultLimit) = lim
    <3> HIDE DEF lim
    <3> QED BY <1>3, <1>8, NumbersAssumption DEF OrDefault
  <2> HIDE DEF lim, budget
  <2>3. VisionModel(v) = v
    BY <1>6, <2>1, <2>2 DEF VisionModel
  <2> QED BY <2>1, <2>3
<1> HIDE DEF lim, budget
<1> QED BY <1>2, <1>7, <1>8

\* What normalizeConfig returns, accepted or not.
Filled(n) ==
    /\ n \in Raw /\ n.listed = TRUE
    /\ NameOr(n.public, Default.public) = n.public /\ NameOr(n.primary, Default.primary) = n.primary
    /\ Trim(n.public) = n.public /\ Trim(n.primary) = n.primary /\ Trim(n.compression) = n.compression
    /\ Distinct(n.fallbacks) /\ \A m \in ToSet(n.fallbacks) : Usable(m) /\ m # n.primary
    /\ OrDefault(n.context, Default.context) = n.context
    /\ OrDefault(n.budget, Default.budget) = n.budget
    /\ n.budget < n.context => n.output > 0
    /\ OrDefault(n.threshold, Default.threshold) = n.threshold
    /\ OrDefault(n.target, Default.target) = n.target /\ n.target > 0
    /\ \A k \in DOMAIN n.vision :
          /\ Usable(n.vision[k].model)
          /\ n.vision[k].limit > MinLimit =>
                n.vision[k].budget > 0 /\ VisionModel(n.vision[k]) = n.vision[k]

LEMMA VisionModelsFacts ==
    ASSUME NEW given \in Seq(Candidates)
    PROVE  LET vision == VisionModels(NamedModels(given))
           IN  /\ vision \in Seq(Candidates) /\ Len(vision) <= Len(given)
               /\ \A k \in DOMAIN vision :
                    /\ Usable(vision[k].model)
                    /\ vision[k].limit > MinLimit =>
                          vision[k].budget > 0 /\ VisionModel(vision[k]) = vision[k]
<1> DEFINE named == NamedModels(given)
           vision == VisionModels(named)
<1>1. named \in Seq(Candidates) /\ Len(named) <= Len(given) /\ \A m \in ToSet(named) : ~Blank(m.model)
  BY NamedFacts
<1> HIDE DEF named
<1>2. Len(named) \in Nat /\ DOMAIN named = 1..Len(named) /\ \A k \in 1..Len(named) : named[k] \in Candidates
  BY <1>1, LenProperties, ElementOfSeq
<1>3. vision = [k \in 1..Len(named) |-> VisionModel(named[k])]
  BY <1>2 DEF VisionModels
<1> HIDE DEF vision
<1>4. \A k \in 1..Len(named) : VisionModel(named[k]) \in Candidates
  BY <1>2, VisionFacts
<1>5. vision \in Seq(Candidates) /\ Len(vision) = Len(named) /\ DOMAIN vision = 1..Len(named)
  BY <1>2, <1>3, <1>4
<1>6. ASSUME NEW k \in 1..Len(named)
      PROVE  /\ Usable(vision[k].model)
             /\ vision[k].limit > MinLimit =>
                   vision[k].budget > 0 /\ VisionModel(vision[k]) = vision[k]
  <2> DEFINE m == named[k]
  <2>1. vision[k] = VisionModel(m) /\ m \in Candidates
    BY <1>2, <1>3
  <2>2. ~Blank(m.model)
    BY <1>1, <1>2 DEF ToSet
  <2>3. m.model \in Models
    BY <2>1 DEF Candidates
  <2> HIDE DEF m
  <2>4. Usable(Trim(m.model))
    BY <2>2, <2>3, TrimFacts DEF Usable
  <2> QED BY <2>1, <2>4, VisionFacts
<1> QED BY <1>1, <1>5, <1>6 DEF vision, named

LEMMA WithDefaultsFacts ==
    ASSUME NEW c \in Raw
    PROVE  /\ Filled(WithDefaults(c))
           /\ Len(GivenVision(c)) <= 4 => Len(WithDefaults(c).vision) <= 4
<1> DEFINE n == WithDefaults(c)
           given == GivenVision(c)
<1>1. /\ c.public \in Models /\ c.primary \in Models /\ c.compression \in Models
      /\ c.fallbacks \in Seq(Models) /\ c.vision \in Seq(Candidates)
      /\ c.context \in Int /\ c.budget \in Int /\ c.output \in Int /\ c.threshold \in Int
      /\ c.target \in Int
  BY DEF Raw
<1>2. /\ Default.public \in Models /\ Default.primary \in Models
      /\ Default.vision \in Seq(Candidates)
      /\ Default.context \in Int /\ Default.budget \in Int /\ Default.output \in Int
      /\ Default.threshold \in Int /\ Default.target \in Int
      /\ Default.output > 0 /\ Default.target > 0
  BY DefaultAssumption DEF Raw
<1>3. /\ n.public = NameOr(c.public, Default.public)
      /\ n.primary = NameOr(c.primary, Default.primary)
      /\ n.context = OrDefault(c.context, Default.context)
      /\ n.budget = OrDefault(c.budget, Default.budget)
      /\ n.output = IF c.output > 0 THEN c.output ELSE Lesser(Default.output, n.context - n.budget)
      /\ n.threshold = OrDefault(c.threshold, Default.threshold)
      /\ n.target = OrDefault(c.target, Default.target)
      /\ n.fallbacks = UniqueModels(c.fallbacks, {n.primary})
      /\ n.compression = Trim(c.compression)
      /\ n.vision = VisionModels(NamedModels(given)) /\ n.listed = TRUE
      /\ n = [public |-> n.public, primary |-> n.primary, context |-> n.context,
              budget |-> n.budget, output |-> n.output, threshold |-> n.threshold,
              target |-> n.target, fallbacks |-> n.fallbacks, compression |-> n.compression,
              listed |-> n.listed, vision |-> n.vision]
  BY DEF WithDefaults
<1>4. given \in Seq(Candidates)
  BY <1>1, <1>2 DEF GivenVision
<1> HIDE DEF n, given
<1>5. /\ n.public \in Models /\ Trim(n.public) = n.public
      /\ NameOr(n.public, Default.public) = n.public
      /\ n.primary \in Models /\ Trim(n.primary) = n.primary
      /\ NameOr(n.primary, Default.primary) = n.primary
      /\ n.compression \in Models /\ Trim(n.compression) = n.compression
  <2>1. /\ n.public \in Models /\ Trim(n.public) = n.public
        /\ NameOr(n.public, Default.public) = n.public
    BY <1>1, <1>2, <1>3, NameFacts
  <2>2. /\ n.primary \in Models /\ Trim(n.primary) = n.primary
        /\ NameOr(n.primary, Default.primary) = n.primary
    BY <1>1, <1>2, <1>3, NameFacts
  <2>3. n.compression \in Models /\ Trim(n.compression) = n.compression
    BY <1>1, <1>3, TrimFacts
  <2> QED BY <2>1, <2>2, <2>3
<1>6. /\ n.context \in Int /\ OrDefault(n.context, Default.context) = n.context
      /\ n.budget \in Int /\ OrDefault(n.budget, Default.budget) = n.budget
      /\ n.threshold \in Int /\ OrDefault(n.threshold, Default.threshold) = n.threshold
      /\ n.target \in Int /\ OrDefault(n.target, Default.target) = n.target /\ n.target > 0
  <2>1. n.context \in Int /\ OrDefault(n.context, Default.context) = n.context
    BY <1>1, <1>2, <1>3 DEF OrDefault
  <2>2. n.budget \in Int /\ OrDefault(n.budget, Default.budget) = n.budget
    BY <1>1, <1>2, <1>3 DEF OrDefault
  <2>3. n.threshold \in Int /\ OrDefault(n.threshold, Default.threshold) = n.threshold
    BY <1>1, <1>2, <1>3 DEF OrDefault
  <2>4. n.target \in Int /\ OrDefault(n.target, Default.target) = n.target /\ n.target > 0
    BY <1>1, <1>2, <1>3 DEF OrDefault
  <2> QED BY <2>1, <2>2, <2>3, <2>4
<1>7. n.output \in Int /\ (n.budget < n.context => n.output > 0)
  BY <1>1, <1>2, <1>3, <1>6 DEF Lesser
<1>8. /\ n.fallbacks \in Seq(Models) /\ Distinct(n.fallbacks)
      /\ \A m \in ToSet(n.fallbacks) : Usable(m) /\ m # n.primary
  <2>1. \A m : m \notin {n.primary} => m # n.primary
    OBVIOUS
  <2>2. LET models == UniqueModels(c.fallbacks, {n.primary})
        IN  /\ models \in Seq(Models) /\ Distinct(models)
            /\ \A m \in ToSet(models) : Usable(m) /\ m \notin {n.primary}
    BY <1>1, UniqueFacts
  <2> QED BY <1>3, <2>1, <2>2
<1>9. /\ n.vision \in Seq(Candidates) /\ Len(n.vision) <= Len(given)
      /\ \A k \in DOMAIN n.vision :
            /\ Usable(n.vision[k].model)
            /\ n.vision[k].limit > MinLimit =>
                  n.vision[k].budget > 0 /\ VisionModel(n.vision[k]) = n.vision[k]
  BY <1>3, <1>4, VisionModelsFacts
<1>10. n \in Raw
  BY <1>3, <1>5, <1>6, <1>7, <1>8, <1>9 DEF Raw
<1>11. Filled(n)
  BY <1>3, <1>5, <1>6, <1>7, <1>8, <1>9, <1>10 DEF Filled
<1>12. Len(n.vision) \in Nat /\ Len(given) \in Nat
  BY <1>4, <1>9, LenProperties
<1>13. Len(given) <= 4 => Len(n.vision) <= 4
  BY <1>4, <1>9, <1>12
<1> QED BY <1>11, <1>13 DEF n, given

\* What normalizeConfig returned, it returns unchanged, if its visual models have
\* limits that are accepted.
LEMMA FilledAgain ==
    ASSUME NEW n, Filled(n), n.output > 0, n.vision # <<>>,
           \A k \in DOMAIN n.vision : n.vision[k].limit > MinLimit
    PROVE  WithDefaults(n) = n
<1>1. /\ n.public \in Models /\ n.primary \in Models /\ n.compression \in Models
      /\ n.fallbacks \in Seq(Models) /\ n.vision \in Seq(Candidates)
      /\ n.listed = TRUE
      /\ n = [public |-> n.public, primary |-> n.primary, context |-> n.context,
              budget |-> n.budget, output |-> n.output, threshold |-> n.threshold,
              target |-> n.target, fallbacks |-> n.fallbacks, compression |-> n.compression,
              listed |-> n.listed, vision |-> n.vision]
  BY DEF Filled, Raw
<1>2. UniqueModels(n.fallbacks, {n.primary}) = n.fallbacks
  <2>1. Distinct(n.fallbacks) /\ \A m \in ToSet(n.fallbacks) : Usable(m) /\ m \notin {n.primary}
    BY DEF Filled
  <2> QED BY <1>1, <2>1, UniqueSame
<1>3. DOMAIN n.vision = 1..Len(n.vision) /\ \A k \in 1..Len(n.vision) : n.vision[k] \in Candidates
  BY <1>1, LenProperties, ElementOfSeq
<1>4. NamedModels(n.vision) = n.vision
  <2>1. \A k \in DOMAIN n.vision : ~Blank(n.vision[k].model)
    BY DEF Filled, Usable
  <2> QED BY <1>1, <2>1, NamedSame
<1>5. VisionModels(n.vision) = n.vision
  <2>1. \A k \in DOMAIN n.vision : VisionModel(n.vision[k]) = n.vision[k]
    BY DEF Filled
  <2>2. n.vision = [k \in DOMAIN n.vision |-> n.vision[k]]
    BY <1>1
  <2> QED BY <2>1, <2>2 DEF VisionModels
<1>6. /\ NameOr(n.public, Default.public) = n.public /\ NameOr(n.primary, Default.primary) = n.primary
      /\ OrDefault(n.context, Default.context) = n.context
      /\ OrDefault(n.budget, Default.budget) = n.budget
      /\ OrDefault(n.threshold, Default.threshold) = n.threshold
      /\ OrDefault(n.target, Default.target) = n.target
      /\ Trim(n.compression) = n.compression
  BY DEF Filled
<1>7. WithDefaults(n) =
        [public |-> n.public, primary |-> n.primary, context |-> n.context,
         budget |-> n.budget, output |-> n.output, threshold |-> n.threshold,
         target |-> n.target, fallbacks |-> n.fallbacks, compression |-> n.compression,
         listed |-> TRUE, vision |-> n.vision]
  BY <1>1, <1>2, <1>4, <1>5, <1>6 DEF WithDefaults, GivenVision
<1> QED BY <1>1, <1>7

-----------------------------------------------------------------------------
\* The chains of accepted settings.

LEMMA HeadList ==
    ASSUME NEW head \in Models, NEW rest \in Seq(Models)
    PROVE  /\ <<head>> \o rest \in Seq(Models)
           /\ \A k \in DOMAIN (<<head>> \o rest) : (<<head>> \o rest)[k] \in {head} \cup ToSet(rest)
<1> DEFINE list == <<head>> \o rest
           first == <<head>>
<1>1. first \in Seq(Models) /\ Len(first) = 1 /\ first[1] = head
  OBVIOUS
<1>2. Len(rest) \in Nat /\ DOMAIN rest = 1..Len(rest)
  BY LenProperties
<1>3. /\ first \o rest \in Seq(Models) /\ Len(first \o rest) = Len(first) + Len(rest)
      /\ \A i \in 1..(Len(first) + Len(rest)) :
            (first \o rest)[i] = IF i <= Len(first) THEN first[i] ELSE rest[i - Len(first)]
  <2> HIDE DEF first
  <2> QED BY <1>1, ConcatProperties
<1>4. list \in Seq(Models) /\ DOMAIN list = 1..(1 + Len(rest))
  <2>1. list \in Seq(Models) /\ Len(list) = 1 + Len(rest)
    BY <1>1, <1>3
  <2> HIDE DEF list
  <2> QED BY <2>1, LenProperties
<1>5. \A i \in 1..(1 + Len(rest)) : list[i] = IF i <= 1 THEN first[i] ELSE rest[i - 1]
  BY <1>1, <1>3
<1> HIDE DEF list, first
<1>6. ASSUME NEW k \in 1..(1 + Len(rest)) PROVE list[k] \in {head} \cup ToSet(rest)
  <2>1. CASE k = 1
    BY <1>1, <1>5, <2>1
  <2>2. CASE k # 1
    <3>1. k - 1 \in 1..Len(rest) /\ ~(k <= 1)
      BY <1>2, <2>2
    <3>2. list[k] = rest[k - 1]
      BY <1>5, <3>1
    <3> QED BY <1>2, <3>1, <3>2 DEF ToSet
  <2> QED BY <2>1, <2>2
<1> QED BY <1>4, <1>6 DEF list, first

\* A chain of a head and the fallbacks has no more than these, each once.
LEMMA ReadingChain ==
    ASSUME NEW head \in Models, NEW rest \in Seq(Models), Trim(head) = head,
           \A m \in ToSet(rest) : Usable(m)
    PROVE  LET chain == UniqueModels(<<head>> \o rest, {})
           IN  /\ Distinct(chain)
               /\ \A m \in ToSet(chain) : Usable(m) /\ m \in {head} \cup ToSet(rest)
<1> DEFINE list == <<head>> \o rest
           chain == UniqueModels(list, {})
<1>1. list \in Seq(Models) /\ \A k \in DOMAIN list : list[k] \in {head} \cup ToSet(rest)
  BY HeadList
<1> HIDE DEF list
<1>2. /\ Distinct(chain) /\ \A m \in ToSet(chain) : Usable(m)
      /\ \A m \in ToSet(chain) : \E k \in DOMAIN list : m = Trim(list[k])
  BY <1>1, UniqueFacts
<1> HIDE DEF chain
<1>3. \A k \in DOMAIN list : Trim(list[k]) = list[k]
  BY <1>1 DEF Usable
<1>4. \A m \in ToSet(chain) : m \in {head} \cup ToSet(rest)
  BY <1>1, <1>2, <1>3
<1> QED BY <1>2, <1>4 DEF chain, list

\* As many different names as places: no name is at two places.
LEMMA NoneTwice ==
    ASSUME NEW n \in Nat, NEW f, DOMAIN f = 1..n, Cardinality({f[k].model : k \in 1..n}) = n
    PROVE  \A j, k \in 1..n : f[j].model = f[k].model => j = k
<1> DEFINE T == {f[k].model : k \in 1..n}
           g == [k \in 1..n |-> f[k].model]
<1>1. g \in Surjection(1..n, T)
  BY DEF Surjection
<1>2. IsFiniteSet(1..n) /\ Cardinality(1..n) = n
  BY FS_Interval
<1>3. Cardinality(T) = n
  OBVIOUS
<1> HIDE DEF T, g
<1>4. g \in Injection(1..n, T)
  BY <1>1, <1>2, <1>3, FS_SurjSameCardinalityImpliesInj
<1>5. \A j, k \in 1..n : g[j] = g[k] => j = k
  BY <1>4 DEF Injection, IsInjective
<1> QED BY <1>5 DEF g

LEMMA ChainsAreSound ==
    ASSUME NEW given, Filled(settings), AcceptedNames(settings), AcceptedVision(settings, given)
    PROVE  SoundChains
<1> DEFINE n == settings
           head == IF Blank(n.compression) THEN n.primary ELSE n.compression
           text == TextChain(n)
           summary == CompressionChain(n)
           visual == VisualChain(n)
           size == Len(n.vision)
<1>1. /\ n.public \in Models /\ n.primary \in Models /\ n.compression \in Models
      /\ n.fallbacks \in Seq(Models) /\ n.vision \in Seq(Candidates)
      /\ Trim(n.public) = n.public /\ Trim(n.primary) = n.primary /\ Trim(n.compression) = n.compression
      /\ \A m \in ToSet(n.fallbacks) : Usable(m)
      /\ \A k \in DOMAIN n.vision : Usable(n.vision[k].model)
  BY DEF Filled, Raw
<1>2. n.primary # n.public /\ n.public \notin ToSet(n.fallbacks) /\ n.compression # n.public
  BY DEF AcceptedNames
<1>3. /\ \A k \in DOMAIN n.vision : n.vision[k].model # n.public
      /\ \A k \in DOMAIN n.vision : n.vision[k].model \notin TextNames(n)
      /\ Cardinality({n.vision[k].model : k \in DOMAIN n.vision}) = size
      /\ \E k \in DOMAIN n.vision : n.vision[k].enabled
  BY DEF AcceptedVision
<1>4. size \in Nat /\ DOMAIN n.vision = 1..size
  BY <1>1, LenProperties
<1>5. /\ Distinct(text)
      /\ \A m \in ToSet(text) : Usable(m) /\ m \in {n.primary} \cup ToSet(n.fallbacks)
  BY <1>1, ReadingChain DEF TextChain
<1>6. head \in Models /\ Trim(head) = head /\ head # n.public /\ head \in TextNames(n)
  BY <1>1, <1>2 DEF TextNames
<1>7. /\ Distinct(summary)
      /\ \A m \in ToSet(summary) : Usable(m) /\ m \in {head} \cup ToSet(n.fallbacks)
  <2>1. summary = UniqueModels(<<head>> \o n.fallbacks, {})
    BY DEF CompressionChain
  <2> HIDE DEF head, summary
  <2> QED BY <1>1, <1>6, <2>1, ReadingChain
<1> HIDE DEF head, text, summary
<1>8. \A m \in ToSet(text) \cup ToSet(summary) : Usable(m) /\ m # n.public /\ m \in TextNames(n)
  BY <1>2, <1>5, <1>6, <1>7 DEF TextNames
<1>9. /\ \A m \in ToSet(visual) : \E k \in DOMAIN n.vision : m = n.vision[k].model
      /\ (\E k \in DOMAIN n.vision : n.vision[k].enabled) => visual # <<>>
      /\ (\A j, k \in DOMAIN n.vision : n.vision[j].model = n.vision[k].model => j = k)
            => Distinct(visual)
  BY <1>1, SeeingFacts
<1>10. \A j, k \in 1..size : n.vision[j].model = n.vision[k].model => j = k
  <2>1. Cardinality({n.vision[k].model : k \in 1..size}) = size
    BY <1>3, <1>4
  <2> HIDE DEF size, n
  <2> QED BY <1>4, <2>1, NoneTwice
<1>11. visual # <<>> /\ Distinct(visual)
  BY <1>3, <1>4, <1>9, <1>10
<1>12. \A m \in ToSet(visual) : Usable(m) /\ m # n.public /\ m \notin TextNames(n)
  BY <1>1, <1>3, <1>9
<1>13. \A m : Usable(m) /\ m # n.public => ~Routed(n, m)
  BY <1>1 DEF Routed, Usable
<1> HIDE DEF visual
<1>14. (ToSet(text) \cup ToSet(summary)) \cap ToSet(visual) = {}
  BY <1>8, <1>12
<1>15. \A m \in (ToSet(text) \cup ToSet(summary)) \cup ToSet(visual) : ~Routed(n, m)
  BY <1>8, <1>12, <1>13
<1> QED BY <1>5, <1>7, <1>11, <1>14, <1>15 DEF SoundChains, text, summary, visual

-----------------------------------------------------------------------------
\* The numbers of accepted settings.

LEMMA LeastOf ==
    ASSUME NEW S \in SUBSET Nat, S # {}
    PROVE  Min(S) \in S /\ \A y \in S : Min(S) <= y
<1> DEFINE R == {p \in Nat \X Nat : p[1] < p[2]}
<1>1. IsWellFoundedOn(R, Nat)
  BY NatLessThanWellFounded, Zenon DEF OpToRel
<1>2. PICK x \in S : \A y \in S : <<y, x>> \notin R
  <2> HIDE DEF R
  <2>1. S \subseteq Nat
    OBVIOUS
  <2> QED BY <1>1, <2>1, WFMin, Zenon
<1>3. \A y \in S : x <= y
  <2> SUFFICES ASSUME NEW y \in S PROVE x <= y
    OBVIOUS
  <2>1. x \in Nat /\ y \in Nat /\ <<y, x>> \notin R
    BY <1>2
  <2> QED BY <2>1
<1> QED BY <1>3 DEF Min

\* What a client asks for can only lower the limit.
LEMMA LimitFacts ==
    ASSUME NEW limits \in [LimitKeys -> Nat], NEW p, NEW own \in Nat, own > 0
    PROVE  LET sent == OutputLimit(limits, p, own)
           IN  /\ FinalKey(p) \in LimitKeys
               /\ sent[FinalKey(p)] \in Nat
               /\ sent[FinalKey(p)] > 0 /\ sent[FinalKey(p)] <= own
               /\ \A other \in LimitKeys \ {FinalKey(p)} : sent[other] = 0
<1> DEFINE client == {limits[k] : k \in ClientKeys(p)} \ {0}
           both == client \cup {own}
           sent == OutputLimit(limits, p, own)
<1>1. FinalKey(p) \in LimitKeys
  BY DEF FinalKey, LimitKeys
<1>2. \A k \in ClientKeys(p) : k \in LimitKeys
  BY DEF ClientKeys, LimitKeys
<1>3. \A y \in both : y \in Nat /\ y > 0
  BY <1>2
<1>4. both \in SUBSET Nat /\ both # {} /\ own \in both
  BY <1>3
<1>5. sent = [k \in LimitKeys |-> IF k # FinalKey(p) THEN 0 ELSE Min(both)]
  BY DEF OutputLimit
<1> HIDE DEF client, both, sent
<1>6. Min(both) \in both /\ Min(both) <= own
  BY <1>4, LeastOf
<1>7. Min(both) \in Nat /\ Min(both) > 0
  BY <1>3, <1>6
<1>8. sent[FinalKey(p)] = Min(both) /\ \A other \in LimitKeys \ {FinalKey(p)} : sent[other] = 0
  BY <1>1, <1>5
<1> QED BY <1>1, <1>6, <1>7, <1>8 DEF sent

LEMMA NumbersAreSound ==
    ASSUME NEW given, Filled(settings), AcceptedNumbers(settings), AcceptedNames(settings),
           AcceptedVision(settings, given), Len(settings.vision) <= 4
    PROVE  SoundNumbers
<1> DEFINE n == settings
<1>1. /\ n.context \in Int /\ n.budget \in Int /\ n.output \in Int /\ n.threshold \in Int
      /\ n.target \in Int /\ n.target > 0 /\ n.vision \in Seq(Candidates)
      /\ n.budget < n.context => n.output > 0
  BY DEF Filled, Raw
<1>2. /\ n.budget < n.context /\ n.output <= n.context - n.budget
      /\ n.threshold < n.budget /\ n.target < n.threshold
  BY DEF AcceptedNumbers
<1>3. n.output > 0 /\ n.output \in Nat
  BY <1>1, <1>2
<1>4. /\ \A k \in DOMAIN n.vision : n.vision[k].limit > MinLimit
      /\ \A k \in DOMAIN n.vision : n.vision[k].budget < n.vision[k].limit
      /\ \E k \in DOMAIN n.vision : n.vision[k].enabled
  BY DEF AcceptedVision
<1>5. ASSUME NEW call \in Calls
      PROVE  LET limits == OutputLimit(call.limits, call.protocol, n.output)
                 key == FinalKey(call.protocol)
             IN  /\ limits[key] > 0 /\ n.budget + limits[key] <= n.context
                 /\ \A other \in LimitKeys \ {key} : limits[other] = 0
  <2> DEFINE limits == OutputLimit(call.limits, call.protocol, n.output)
             key == FinalKey(call.protocol)
  <2>1. call.limits \in [LimitKeys -> Nat]
    BY GivenAssumption
  <2>2. /\ limits[key] \in Nat /\ limits[key] > 0 /\ limits[key] <= n.output
        /\ \A other \in LimitKeys \ {key} : limits[other] = 0
    BY <1>3, <2>1, LimitFacts
  <2> HIDE DEF limits, key
  <2>3. n.budget + limits[key] <= n.context
    BY <1>1, <1>2, <2>2
  <2> QED BY <2>2, <2>3 DEF limits, key
<1>6. \A k \in DOMAIN n.vision : n.vision[k].budget \in 1..(n.vision[k].limit - 1)
  <2> SUFFICES ASSUME NEW k \in DOMAIN n.vision
               PROVE  n.vision[k].budget \in 1..(n.vision[k].limit - 1)
    OBVIOUS
  <2>1. n.vision[k].budget > 0
    BY <1>4 DEF Filled
  <2>2. n.vision[k] \in Candidates
    BY <1>1, LenProperties, ElementOfSeq
  <2>3. n.vision[k].budget \in Int /\ n.vision[k].limit \in Int
    BY <2>2 DEF Candidates
  <2> QED BY <1>4, <2>1, <2>3
<1>7. n.vision # <<>>
  BY <1>4
<1>8. WithDefaults(n) = n
  <2> HIDE DEF n
  <2>1. Filled(n)
    BY DEF n
  <2> QED BY <1>3, <1>4, <1>7, <2>1, FilledAgain
<1>9. AcceptedVision(n, GivenVision(n))
  <2>1. GivenVision(n) = n.vision
    BY DEF Filled, GivenVision
  <2> QED BY <1>7, <2>1 DEF AcceptedVision
<1>10. Accepted(n)
  BY <1>8, <1>9 DEF Accepted
<1> QED BY <1>1, <1>2, <1>5, <1>6, <1>8, <1>10 DEF SoundNumbers

-----------------------------------------------------------------------------
\* The inductive invariant: normalizeConfig accepted the settings in force and
\* returned them.
AcceptedInForce ==
    \E c \in Given \cup {Default} : Accepted(c) /\ settings = WithDefaults(c)

\* With it the settings in force are sound.
LEMMA AcceptedIsSound == AcceptedInForce => SoundSettings
<1> SUFFICES ASSUME NEW c \in Given \cup {Default}, Accepted(c), settings = WithDefaults(c)
             PROVE  SoundSettings
  BY DEF AcceptedInForce
<1>1. c \in Raw
  BY GivenAssumption, DefaultAssumption
<1>2. Filled(settings) /\ (Len(GivenVision(c)) <= 4 => Len(settings.vision) <= 4)
  BY <1>1, WithDefaultsFacts
<1>3. /\ AcceptedNumbers(settings) /\ AcceptedNames(settings) /\ AcceptedVision(settings, GivenVision(c))
  BY DEF Accepted
<1>4. Len(settings.vision) <= 4
  BY <1>2, <1>3 DEF AcceptedVision
<1> QED BY <1>2, <1>3, <1>4, ChainsAreSound, NumbersAreSound DEF SoundSettings

\* Whatever the host configures, and whatever a client asks for, the settings in
\* force (config.go:109-289, history.go:119-162) route no request back into the
\* bridge, ask no model twice, use none both to read and to see, leave room for
\* every answer, and are read again as they are.
THEOREM SettingsAreSound == SettingsSpec => []SoundSettings
<1>1. SettingsInit => AcceptedInForce
  BY DefaultAssumption DEF SettingsInit, AcceptedInForce
<1>2. AcceptedInForce /\ [SettingsNext]_settings => AcceptedInForce'
  <2> SUFFICES ASSUME AcceptedInForce, [SettingsNext]_settings PROVE AcceptedInForce'
    OBVIOUS
  <2>1. ASSUME NEW c \in Given, Reconfigure(c) PROVE AcceptedInForce'
    BY <2>1 DEF Reconfigure, AcceptedInForce
  <2>2. CASE UNCHANGED settings
    BY <2>2 DEF AcceptedInForce
  <2> QED BY <2>1, <2>2 DEF SettingsNext
<1> QED BY <1>1, <1>2, AcceptedIsSound, PTL DEF SettingsSpec
=============================================================================
