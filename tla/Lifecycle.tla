------------------------------ MODULE Lifecycle ------------------------------
(***************************************************************************)
(* The configuration in force and the cache that belongs to it: configure  *)
(* and currentConfig of src/plugin.go, cliproxyPluginShutdown of           *)
(* src/main.go, with newMemoCache, setLimit and close of src/cache.go,     *)
(* under requests that run beside them and may come before the first       *)
(* configure.                                                              *)
(*                                                                         *)
(* The host makes one lifecycle call at a time; requests come from any     *)
(* number of threads.  Caches are numbered in the order they are made.     *)
(* Their entries are abstracted to the requests that set one, and a flush  *)
(* to one step that succeeds: MemoCache has its steps and failures.  What  *)
(* goes when a cache is over its limit is left open here, and a lookup,    *)
(* which removes only what has expired, is left out: MemoCache has both.   *)
(***************************************************************************)
EXTENDS Integers, FiniteSets

CONSTANTS
    Paths,          \* values of cache_path
    DefaultPath,    \* that of defaultPluginConfig
    Limits,         \* values of cache_max_entries
    DefaultMaxEntries,
    Requests,
    MaxCalls        \* lifecycle calls the host makes

ASSUME PathsAssumption == DefaultPath \in Paths
ASSUME LimitsAssumption == Limits \subseteq Nat \ {0} /\ DefaultMaxEntries \in Limits
ASSUME CallsAssumption == MaxCalls \in Nat /\ IsFiniteSet(Requests)

VARIABLES
    made,       \* number of caches made
    path, limit, stopped, over, entries, dirty, \* of each cache; over: close(m.done)
    evicted,    \* requests whose entry a cache whose writer runs removed for its limit
    file,       \* what is saved under each path
    configured, \* the stored runtimeConfig: its settings and its cache (0: nil)
    calls,      \* lifecycle calls so far
    host,       \* the lifecycle call in progress
    pc, uses,   \* of each request: where it is, and the cache it got
    expired,    \* requests whose entry has outlived its TTL
    late,       \* requests whose entry came after the last flush of their cache
    leaked,     \* caches whose configuration was replaced unseen
    down        \* caches closed by a shutdown

caches == <<made, path, limit, stopped, over, entries, dirty, evicted>>
requests == <<pc, uses, expired, late>>
vars == <<caches, file, configured, calls, host, requests, leaked, down>>

MaxCaches == MaxCalls + Cardinality(Requests)
Made == 1..made
Nothing == [path |-> DefaultPath, limit |-> DefaultMaxEntries, cache |-> 0]

TypeOK ==
    /\ made \in Nat
    /\ path \in [Made -> Paths] /\ limit \in [Made -> Limits] /\ evicted \subseteq Requests
    /\ stopped \in [Made -> BOOLEAN] /\ over \in [Made -> BOOLEAN]
    /\ entries \in [Made -> SUBSET Requests] /\ dirty \in [Made -> BOOLEAN]
    /\ file \in [Paths -> SUBSET Requests]
    /\ configured \in [path : Paths, limit : Limits, cache : 0..made]
    /\ calls \in 0..MaxCalls
    /\ host \in [at : {"idle", "close", "wait", "make", "store"}, shutdown : BOOLEAN,
                 path : Paths, limit : Limits, seen : 0..made, cache : 0..made]
    /\ pc \in [Requests -> {"load", "make", "store", "set", "done"}]
    /\ uses \in [Requests -> 0..made]
    /\ expired \subseteq Requests /\ late \subseteq Requests
    /\ leaked \subseteq Made /\ down \subseteq Made

Idle == [at |-> "idle", shutdown |-> FALSE, path |-> DefaultPath, limit |-> DefaultMaxEntries,
         seen |-> 0, cache |-> 0]

Init ==
    /\ made = 0
    /\ path = <<>> /\ limit = <<>> /\ stopped = <<>> /\ over = <<>>
    /\ entries = <<>> /\ dirty = <<>> /\ evicted = {}
    /\ file = [p \in Paths |-> {}]
    /\ configured = Nothing
    /\ calls = 0 /\ host = Idle
    /\ pc = [r \in Requests |-> "load"] /\ uses = [r \in Requests |-> 0]
    /\ expired = {} /\ late = {} /\ leaked = {} /\ down = {}

-----------------------------------------------------------------------------
\* pruneLocked: what has expired goes, and then what is over the limit.
Pruned(values, max) ==
    LET live == values \ expired
    IN  IF Cardinality(live) <= max THEN {live}
        ELSE {kept \in SUBSET live : Cardinality(kept) = max}
PushedOut(values, kept) == values \ (kept \cup expired)
Prune(c, values, max) ==
    \E kept \in Pruned(values, max) :
        /\ entries' = [entries EXCEPT ![c] = kept]
        /\ evicted' = IF over[c] THEN evicted ELSE evicted \cup PushedOut(values, kept)

\* newMemoCache: the file is loaded, as far as the limit goes, and the writer starts.
Extended(f, v) == [c \in 1..(made + 1) |-> IF c = made + 1 THEN v ELSE f[c]]
NewCache(p, max) ==
    /\ made' = made + 1
    /\ path' = Extended(path, p) /\ limit' = Extended(limit, max)
    /\ stopped' = Extended(stopped, FALSE) /\ over' = Extended(over, FALSE)
    /\ dirty' = Extended(dirty, FALSE)
    /\ \E kept \in Pruned(file[p], max) :
         entries' = Extended(entries, kept) /\ evicted' = evicted \cup PushedOut(file[p], kept)

\* configured.Store(r) by someone who loaded the cache `seen` (0: nil): what was
\* stored in between goes unseen, and nobody closes its cache.
Publish(seen, config) ==
    /\ configured' = config
    /\ leaked' = IF configured.cache \in {0, seen} THEN leaked ELSE leaked \cup {configured.cache}

\* The writer's debounced flush, and the one it makes when it is stopped.
Save(c) ==
    /\ Prune(c, entries[c], limit[c])
    /\ file' = [file EXCEPT ![path[c]] = entries'[c]]
    /\ dirty' = [dirty EXCEPT ![c] = FALSE]

Flush(c) ==
    /\ dirty[c] /\ ~over[c]
    /\ Save(c)
    /\ UNCHANGED <<made, path, limit, stopped, over, configured, calls, host, requests, leaked, down>>

\* Mutant of LastFlush: the writer flushes when it is stopped and goes on.
LastFlushGoesOn(c) ==
    /\ stopped[c] /\ ~over[c]
    /\ Save(c)
    /\ UNCHANGED <<made, path, limit, stopped, over, configured, calls, host, requests, leaked, down>>

LastFlush(c) ==
    /\ stopped[c] /\ ~over[c]
    /\ Save(c)
    /\ over' = [over EXCEPT ![c] = TRUE]
    /\ UNCHANGED <<made, path, limit, stopped, configured, calls, host, requests, leaked, down>>

-----------------------------------------------------------------------------
\* The lifecycle calls.

\* Mutants of Configure: the old cache is left as it is; the cache that is kept
\* is not told its limit.
ConfigureNoClose ==
    /\ host.at = "idle" /\ calls < MaxCalls
    /\ calls' = calls + 1
    /\ \E p \in Paths, max \in Limits :
         host' = [at |-> "make", shutdown |-> FALSE, path |-> p, limit |-> max,
                  seen |-> configured.cache, cache |-> 0]
    /\ UNCHANGED <<caches, file, configured, requests, leaked, down>>
ConfigureKeepsLimit ==
    /\ host.at = "idle" /\ calls < MaxCalls
    /\ calls' = calls + 1
    /\ \E p \in Paths, max \in Limits :
         LET old == configured.cache
             kept == old # 0 /\ path[old] = p
         IN  host' = [at |-> IF kept THEN "store" ELSE IF old # 0 THEN "close" ELSE "make",
                      shutdown |-> FALSE, path |-> p, limit |-> max, seen |-> old,
                      cache |-> IF kept THEN old ELSE 0]
    /\ UNCHANGED <<caches, file, configured, requests, leaked, down>>

\* setLimit: it is enforced at once, and the cache is marked to be saved.
SetLimit(c, max) ==
    /\ limit' = [limit EXCEPT ![c] = max]
    /\ Prune(c, entries[c], max)
    /\ dirty' = [dirty EXCEPT ![c] = TRUE]
    /\ UNCHANGED <<made, path, stopped, over>>

\* configure: the cache in force is kept, with the new limit, if it has the path,
\* else closed.  What a request does between the two touches either of them only,
\* so that they are one step.
Configure ==
    /\ host.at = "idle" /\ calls < MaxCalls
    /\ calls' = calls + 1
    /\ \E p \in Paths, max \in Limits :
         LET old == configured.cache
             kept == old # 0 /\ path[old] = p
         IN  /\ host' = [at |-> IF kept THEN "store" ELSE IF old # 0 THEN "close" ELSE "make",
                         shutdown |-> FALSE, path |-> p, limit |-> max, seen |-> old,
                         cache |-> IF kept THEN old ELSE 0]
             /\ IF kept THEN SetLimit(old, max) ELSE UNCHANGED caches
    /\ UNCHANGED <<file, configured, requests, leaked, down>>

\* configure with a configuration that does not parse or is refused.
ConfigureRefused ==
    /\ host.at = "idle" /\ calls < MaxCalls
    /\ calls' = calls + 1
    /\ UNCHANGED <<caches, file, configured, host, requests, leaked, down>>

\* cliproxyPluginShutdown: the cache is closed and stays in force.
Shutdown ==
    /\ host.at = "idle" /\ calls < MaxCalls
    /\ calls' = calls + 1
    /\ IF configured.cache = 0 THEN UNCHANGED <<host, down>>
       ELSE /\ host' = [Idle EXCEPT !.at = "close", !.shutdown = TRUE, !.seen = configured.cache]
            /\ down' = down \cup {configured.cache}
    /\ UNCHANGED <<caches, file, configured, requests, leaked>>

AfterClose == IF host.shutdown THEN Idle ELSE [host EXCEPT !.at = "make"]

\* Mutant of CloseOld: close does not wait for the writer.
CloseOldAtOnce ==
    /\ host.at = "close"
    /\ stopped' = [stopped EXCEPT ![host.seen] = TRUE]
    /\ host' = AfterClose
    /\ UNCHANGED <<made, path, limit, over, entries, dirty, evicted, file, configured, calls, requests,
                   leaked, down>>

\* close: at once if it was closed before, else the writer is told to stop.
CloseOld ==
    /\ host.at = "close"
    /\ stopped' = [stopped EXCEPT ![host.seen] = TRUE]
    /\ host' = IF stopped[host.seen] THEN AfterClose ELSE [host EXCEPT !.at = "wait"]
    /\ UNCHANGED <<made, path, limit, over, entries, dirty, evicted, file, configured, calls, requests,
                   leaked, down>>

\* <-m.done
OldClosed ==
    /\ host.at = "wait" /\ over[host.seen]
    /\ host' = AfterClose
    /\ UNCHANGED <<caches, file, configured, calls, requests, leaked, down>>

MakeNew ==
    /\ host.at = "make"
    /\ NewCache(host.path, host.limit)
    /\ host' = [host EXCEPT !.at = "store", !.cache = made + 1]
    /\ UNCHANGED <<file, configured, calls, requests, leaked, down>>

StoreNew ==
    /\ host.at = "store"
    /\ Publish(host.seen, [path |-> host.path, limit |-> host.limit, cache |-> host.cache])
    /\ host' = Idle
    /\ UNCHANGED <<caches, file, calls, requests, down>>

-----------------------------------------------------------------------------
\* A request: currentConfig, and later an entry in the cache it got.

Load(r) ==
    /\ pc[r] = "load"
    /\ uses' = [uses EXCEPT ![r] = configured.cache]
    /\ pc' = [pc EXCEPT ![r] = IF configured.cache = 0 THEN "make" ELSE "set"]
    /\ UNCHANGED <<caches, file, configured, calls, host, expired, late, leaked, down>>

MakeDefault(r) ==
    /\ pc[r] = "make"
    /\ NewCache(DefaultPath, DefaultMaxEntries)
    /\ uses' = [uses EXCEPT ![r] = made + 1]
    /\ pc' = [pc EXCEPT ![r] = "store"]
    /\ UNCHANGED <<file, configured, calls, host, expired, late, leaked, down>>

StoreDefault(r) ==
    /\ pc[r] = "store"
    /\ Publish(0, [Nothing EXCEPT !.cache = uses[r]])
    /\ pc' = [pc EXCEPT ![r] = "set"]
    /\ UNCHANGED <<caches, file, calls, host, uses, expired, late, down>>

Set(r) ==
    /\ pc[r] = "set"
    /\ Prune(uses[r], entries[uses[r]] \cup {r}, limit[uses[r]])
    /\ dirty' = [dirty EXCEPT ![uses[r]] = TRUE]
    /\ late' = IF over[uses[r]] THEN late \cup {r} ELSE late
    /\ pc' = [pc EXCEPT ![r] = "done"]
    /\ UNCHANGED <<made, path, limit, stopped, over, file, configured, calls, host, uses, expired,
                   leaked, down>>

\* The time-to-live of an entry passes.
Expire(r) ==
    /\ pc[r] = "done" /\ r \notin expired
    /\ expired' = expired \cup {r}
    /\ UNCHANGED <<caches, file, configured, calls, host, pc, uses, late, leaked, down>>

Host ==
    \/ Configure \/ ConfigureRefused \/ Shutdown
    \/ CloseOld \/ OldClosed \/ MakeNew \/ StoreNew
Request(r) == Load(r) \/ MakeDefault(r) \/ StoreDefault(r) \/ Set(r) \/ Expire(r)
Writer(c) == Flush(c) \/ LastFlush(c)

Quiet ==
    /\ host = Idle /\ \A r \in Requests : pc[r] = "done"
    /\ \A c \in Made : over[c] \/ (~dirty[c] /\ ~stopped[c])

Rest == Quiet /\ calls = MaxCalls /\ UNCHANGED vars

Next ==
    \/ Host \/ (\E r \in Requests : Request(r)) \/ (\E c \in Made : Writer(c))
    \/ Rest

\* A writer that was told to stop stops, and a lifecycle call goes on.
Fairness == WF_vars(CloseOld \/ OldClosed \/ MakeNew \/ StoreNew)
            /\ \A c \in 1..MaxCaches : WF_vars(c \in Made /\ Writer(c))

Spec == Init /\ [][Next]_vars
FairSpec == Spec /\ Fairness

-----------------------------------------------------------------------------
\* Properties.

\* A writer that was not told to stop belongs to the configuration in force, to
\* one that is about to be stored, or to one that was replaced by a call that
\* had not seen it; without such a race there is one writer in the end
\* (plugin.go:123-133, 136-143).
InHand ==
    {uses[r] : r \in {s \in Requests : pc[s] = "store"}}
    \cup (IF host.at = "store" THEN {host.cache} ELSE {})
KnownWriters == \A c \in Made : ~stopped[c] => c \in {configured.cache} \cup InHand \cup leaked
Sensible ==
    /\ \A c \in Made : over[c] => stopped[c]
    /\ configured.cache = 0 => configured = Nothing /\ leaked = {}
    /\ \A r \in Requests : pc[r] \in {"store", "set", "done"} => uses[r] \in Made
    /\ host.at = "idle" => host = Idle
    /\ host.at \in {"close", "wait"} => host.seen \in Made
    /\ host.at = "wait" => stopped[host.seen]
    /\ host.at = "store" => host.cache \in Made
    /\ host.at # "idle" => configured.cache = host.seen \/ leaked # {} \/ host.seen = 0
    /\ host.at \in {"make", "store"} /\ host.seen # 0 =>
         stopped[host.seen] \/ (host.at = "store" /\ host.cache = host.seen)
    /\ host.at # "idle" /\ host.shutdown => host.seen \in down /\ host.at \in {"close", "wait"}

\* A cache that a request is about to store is known to nobody else; the one a
\* configure is about to store has its path and limit and is open, unless it was
\* kept after a shutdown; and so is the one in force, unless a configure that is
\* under way has just closed it or given it the new limit.
Fresh ==
    \A r \in Requests : pc[r] = "store" =>
        /\ uses[r] \notin {configured.cache, host.seen}
        /\ host.at = "store" => uses[r] # host.cache
        /\ \A s \in Requests : pc[s] = "store" /\ uses[s] = uses[r] => s = r
        /\ path[uses[r]] = DefaultPath /\ limit[uses[r]] = DefaultMaxEntries
        /\ ~stopped[uses[r]]
Fitting ==
    /\ host.at = "store" =>
         /\ path[host.cache] = host.path /\ limit[host.cache] = host.limit
         /\ stopped[host.cache] => host.cache \in down /\ host.cache = host.seen
    /\ configured.cache # 0 =>
         /\ path[configured.cache] = configured.path
         /\ limit[configured.cache] = configured.limit
              \/ (host.at = "store" /\ host.cache = configured.cache)
         /\ stopped[configured.cache] =>
              configured.cache \in down \/ (host.at # "idle" /\ configured.cache = host.seen)
CallsInv == TypeOK /\ Sensible /\ KnownWriters /\ Fresh /\ Fitting

\* A writer that was told to stop is at its end, or the lifecycle call that told
\* it waits for it.
Ended == \A c \in Made : stopped[c] => over[c] \/ (host.at = "wait" /\ host.seen = c)

\* Without a race of currentConfig: only the cache in force has anything to save;
\* a request sets its entry in that one or in one that is closed; and nobody has
\* a cache before there is one in force.
Clean == \A c \in Made : c # configured.cache /\ ~over[c] => ~dirty[c]
Published ==
    \A r \in Requests : pc[r] \in {"set", "done"} =>
        /\ configured.cache # 0
        /\ uses[r] = configured.cache \/ over[uses[r]]

\* Caches and files have entries of requests that are done, and an entry is
\* pushed out only when more were set than one of the limits allows.
Done == {r \in Requests : pc[r] = "done"}
Crowded ==
    /\ \A c \in Made : entries[c] \subseteq Done
    /\ \A p \in Paths : file[p] \subseteq Done
    /\ evicted # {} => \E max \in Limits : Cardinality(Done) > max

\* The requests whose entry must be in the file of path p in the end: it came in
\* time, still lives, and was not pushed out.
Promised(p) == {r \in Done \ (late \cup expired \cup evicted) : path[uses[r]] = p}

\* What is promised is in the file or, if the path is that of the cache in force
\* and its writer runs, in that cache, which then is marked; a cache about to be
\* stored has loaded it.
Entered ==
    LET cur == configured.cache IN
    cur # 0 => \A p \in Paths :
        IF path[cur] = p /\ ~over[cur]
        THEN /\ Promised(p) \subseteq entries[cur]
             /\ dirty[cur] \/ Promised(p) \subseteq file[p]
        ELSE Promised(p) \subseteq file[p]
Loaded ==
    LET cur == configured.cache IN
    host.at = "store" /\ cur # 0 /\ host.seen = cur /\ host.cache # cur =>
        Promised(path[host.cache]) \subseteq entries[host.cache]

EntriesInv ==
    /\ Ended /\ Crowded
    /\ leaked = {} => Clean /\ Published /\ Entered /\ Loaded
LifecycleInv == CallsInv /\ EntriesInv

\* Between lifecycle calls the configuration in force has a cache of its own
\* path and limit, and that cache is open unless a shutdown closed it: a request
\* that begins then loses no memory, and a limit the host has lowered is one
\* (plugin.go:101-134, cache.go:63-69, main.go:78-82).
InForce ==
    host.at = "idle" /\ configured.cache # 0 =>
        /\ path[configured.cache] = configured.path
        /\ limit[configured.cache] = configured.limit
        /\ stopped[configured.cache] => configured.cache \in down

\* When all is quiet, every entry that a request set before the last flush of
\* its cache is in the file of that cache, whatever caches the path had in turn,
\* as long as its TTL has not passed and no cache has pushed it out for its limit,
\* be it when an entry was set, a file loaded or the limit lowered (Crowded says
\* when one may).  This is promised without a race of currentConfig only: with two
\* caches on one path, one overwrites what the other saved
\* (plugin.go:122-130, cache.go:63-69, 126-136, 227-265, 268-279).
EntriesKept ==
    Quiet /\ leaked = {} =>
        \A r \in Requests \ (late \cup expired \cup evicted) : r \in file[path[uses[r]]]

\* A lifecycle call returns: the writer it waits for comes to its end
\* (cache.go:268-279).
CallsReturn == []<>(host.at = "idle")
=============================================================================
