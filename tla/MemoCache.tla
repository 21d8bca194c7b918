------------------------------ MODULE MemoCache ------------------------------
(***************************************************************************)
(* The description cache of src/cache.go: a map under a mutex, a writer    *)
(* goroutine that saves it to a JSON file a quarter of a second after the  *)
(* last change, the close at shutdown, and restarts of the process at any  *)
(* point.  The flights of do() are part of VisionChain.                    *)
(***************************************************************************)
EXTENDS Naturals, FiniteSets, Functions

CONSTANTS
    Keys,           \* cache keys
    Values,         \* descriptions and summaries
    Clients,        \* goroutines that use the cache
    Limits,         \* values of cache_max_entries
    TTL,            \* cache_ttl_seconds
    MaxClock,       \* bound: how far time goes
    MaxRestarts,    \* bound: crashes and restarts
    Torn            \* what is left of a file cut short: load() ignores it

ASSUME LimitsAssumption == Limits \subseteq Nat \ {0} /\ Limits # {}
ASSUME TimeAssumption == TTL \in Nat /\ MaxClock \in Nat /\ MaxRestarts \in Nat

VARIABLES
    clock,      \* time.Now()
    values,     \* m.values
    limit,      \* m.limit
    op,         \* what each client is doing
    dirty,      \* the dirty channel holds a mark
    writer,     \* where the writer goroutine is
    timer,      \* its timer: "none", "armed", "due"
    last,       \* the writer has seen stop
    snap,       \* copyValues of the flush in progress; the content of the
                \* temporary file, which nothing else reads, is this or less
    disk,       \* the file <path>
    closing,    \* close(): "no", "waiting", "returned"
    failed,     \* the last flush did not reach the file
    late,       \* keys written after the last copy was taken
    restarts

clients == <<clock, op, late>>
memory == <<values, limit>>
thread == <<writer, timer, last, snap>>
files == <<disk, failed>>
vars == <<clients, memory, dirty, thread, files, closing, restarts>>

Times == 0..(MaxClock + TTL)
Records == [value : Values, expires : Times, used : Times]
Maps == UNION {[S -> Records] : S \in {T \in SUBSET Keys : IsFiniteSet(T)}}

ASSUME TornAssumption == Torn \notin Maps

\* Also a file that is not there: load() makes no difference.
Empty == [k \in {} |-> [value |-> k, expires |-> 0, used |-> 0]]

Idle == [kind |-> "idle"]
Marking == [kind |-> "mark"]
SetOps == [kind : {"set"}, key : Keys, value : Values, at : 0..MaxClock]
LookupOps == [kind : {"lookup"}, short : Keys, long : Keys, at : 0..MaxClock]
LimitOps == [kind : {"limit"}, to : Limits]

TypeOK ==
    /\ clock \in 0..MaxClock
    /\ values \in Maps /\ limit \in Limits /\ Cardinality(DOMAIN values) <= limit
    /\ op \in [Clients -> {Idle, Marking} \cup SetOps \cup LookupOps \cup LimitOps]
    /\ dirty \in BOOLEAN /\ last \in BOOLEAN /\ failed \in BOOLEAN
    /\ writer \in {"select", "copy", "open", "write", "rename", "exited"}
    /\ timer \in {"none", "armed", "due"}
    /\ snap \in Maps
    /\ disk \in Maps \cup {Torn}
    /\ closing \in {"no", "waiting", "returned"}
    /\ late \subseteq Keys
    /\ restarts \in 0..MaxRestarts

-----------------------------------------------------------------------------

Expired(record, now) == now > record.expires

Live(map, now) == RestrictValues(map, LAMBDA record : ~Expired(record, now))

\* pruneLocked: the expired go, then the longest unused until the limit is
\* met; among equal times the sort decides.
Pruned(map, now, max) ==
    LET live == Live(map, now)
        Kept(S) == \A k \in S, j \in DOMAIN live \ S : live[j].used <= live[k].used
    IN  IF Cardinality(DOMAIN live) <= max
        THEN {live}
        ELSE {Restrict(live, S) : S \in {T \in SUBSET DOMAIN live : Cardinality(T) = max /\ Kept(T)}}

\* load: a file that does not parse is an empty cache.
Loaded(file, now, max) == Pruned(IF file = Torn THEN Empty ELSE file, now, max)

Put(map, k, record) == [j \in DOMAIN map \cup {k} |-> IF j = k THEN record ELSE map[j]]

Init ==
    /\ clock = 0
    /\ values = Empty /\ limit \in Limits
    /\ op = [c \in Clients |-> Idle]
    /\ dirty = FALSE
    /\ writer = "select" /\ timer = "none" /\ last = FALSE /\ snap = Empty
    /\ disk = Empty /\ failed = FALSE
    /\ closing = "no" /\ late = {} /\ restarts = 0

-----------------------------------------------------------------------------
\* Clients: a call takes the time, then the lock, then marks the cache dirty.

Call(c) ==
    /\ op[c] = Idle
    /\ \E request \in SetOps \cup LookupOps \cup LimitOps :
         /\ request.kind # "limit" => request.at = clock
         /\ op' = [op EXCEPT ![c] = request]
    /\ UNCHANGED <<clock, late, memory, dirty, thread, files, closing, restarts>>

\* set() under the lock.
Store(c) ==
    LET request == op[c]
        record == [value |-> request.value, expires |-> request.at + TTL, used |-> request.at]
    IN  /\ request.kind = "set"
        /\ values' \in Pruned(Put(values, request.key, record), request.at, limit)
        /\ op' = [op EXCEPT ![c] = Marking]
        /\ late' = IF last /\ writer # "copy" THEN late \cup {request.key} ELSE late
        /\ UNCHANGED <<clock, limit, dirty, thread, files, closing, restarts>>

\* getLast() under the lock, for a short and a long prefix; get() when both
\* are one key.  The longest live entry is touched, and the expired ones met
\* on the way are removed.
Lookup(c) ==
    LET request == op[c]
        Live1(k) == k \in DOMAIN values /\ ~Expired(values[k], request.at)
        met == IF Live1(request.long) THEN {} ELSE {request.long} \cup
               (IF Live1(request.short) THEN {} ELSE {request.short})
        gone == met \cap DOMAIN values
        rest == Restrict(values, DOMAIN values \ gone)
    IN  /\ request.kind = "lookup"
        /\ values' = IF Live1(request.long) THEN [rest EXCEPT ![request.long].used = request.at]
                     ELSE IF Live1(request.short) THEN [rest EXCEPT ![request.short].used = request.at]
                     ELSE rest
        /\ op' = [op EXCEPT ![c] = IF gone = {} THEN Idle ELSE Marking]
        /\ UNCHANGED <<clock, late, limit, dirty, thread, files, closing, restarts>>

\* setLimit() under the lock: it takes the time there.
SetLimit(c) ==
    /\ op[c].kind = "limit"
    /\ limit' = op[c].to
    /\ values' \in Pruned(values, clock, limit')
    /\ op' = [op EXCEPT ![c] = Marking]
    /\ UNCHANGED <<clock, late, dirty, thread, files, closing, restarts>>

\* markDirty(), after the unlock: a mark that is already there is enough.
MarkDirty(c) ==
    /\ op[c] = Marking
    /\ op' = [op EXCEPT ![c] = Idle]
    /\ dirty' = TRUE
    /\ UNCHANGED <<clock, late, memory, thread, files, closing, restarts>>

-----------------------------------------------------------------------------
\* The writer goroutine.

\* Mutant of TakeDirty: a running timer is stopped and not started again.
TakeDirtyNoReset ==
    /\ writer = "select" /\ dirty
    /\ dirty' = FALSE
    /\ timer' = IF timer = "none" THEN "armed" ELSE "none"
    /\ UNCHANGED <<clients, memory, writer, last, snap, files, closing, restarts>>

\* A mark starts the timer, or starts it over.
TakeDirty ==
    /\ writer = "select" /\ dirty
    /\ dirty' = FALSE
    /\ timer' = "armed"
    /\ UNCHANGED <<clients, memory, writer, last, snap, files, closing, restarts>>

TimerRuns ==
    /\ timer = "armed"
    /\ timer' = "due"
    /\ UNCHANGED <<clients, memory, dirty, writer, last, snap, files, closing, restarts>>

TimerFires ==
    /\ writer = "select" /\ timer = "due"
    /\ writer' = "copy" /\ timer' = "none"
    /\ UNCHANGED <<clients, memory, dirty, last, snap, files, closing, restarts>>

TakeStop ==
    /\ writer = "select" /\ closing # "no"
    /\ writer' = "copy" /\ timer' = "none" /\ last' = TRUE
    /\ UNCHANGED <<clients, memory, dirty, snap, files, closing, restarts>>

\* flush(): prune and copy under the lock.
Copy ==
    /\ writer = "copy"
    /\ values' \in Pruned(values, clock, limit)
    /\ snap' = values'
    /\ writer' = "open"
    /\ UNCHANGED <<clients, limit, dirty, timer, last, files, closing, restarts>>

FlushEnds(bad) ==
    /\ failed' = bad /\ snap' = Empty
    /\ writer' = IF last THEN "exited" ELSE "select"

\* The directory cannot be made, or a file operation fails: flush() returns.
FlushFails ==
    /\ writer \in {"open", "write", "rename"}
    /\ FlushEnds(TRUE)
    /\ UNCHANGED <<clients, memory, dirty, timer, last, disk, closing, restarts>>

\* Mutant of Open: the file itself is opened, not a temporary one.
OpenInPlace ==
    /\ writer = "open"
    /\ disk' = Torn
    /\ writer' = "write"
    /\ UNCHANGED <<clients, memory, dirty, timer, last, snap, failed, closing, restarts>>

\* os.WriteFile truncates the temporary file, then writes it.
Open ==
    /\ writer = "open"
    /\ writer' = "write"
    /\ UNCHANGED <<clients, memory, dirty, timer, last, snap, files, closing, restarts>>

Write ==
    /\ writer = "write"
    /\ writer' = "rename"
    /\ UNCHANGED <<clients, memory, dirty, timer, last, snap, files, closing, restarts>>

\* Mutant of Rename: the end of a flush clears the dirty channel.
RenameClears ==
    /\ writer = "rename"
    /\ disk' = snap
    /\ FlushEnds(FALSE)
    /\ dirty' = FALSE
    /\ UNCHANGED <<clients, memory, timer, last, closing, restarts>>

Rename ==
    /\ writer = "rename"
    /\ disk' = snap
    /\ FlushEnds(FALSE)
    /\ UNCHANGED <<clients, memory, dirty, timer, last, closing, restarts>>

-----------------------------------------------------------------------------

\* close(): stop is closed, and done is waited for.
Close ==
    /\ closing = "no"
    /\ closing' = "waiting"
    /\ UNCHANGED <<clients, memory, dirty, thread, files, restarts>>

\* Mutant of Closed: close() does not wait.
ClosedAtOnce ==
    /\ closing = "waiting"
    /\ closing' = "returned"
    /\ UNCHANGED <<clients, memory, dirty, thread, files, restarts>>

Closed ==
    /\ closing = "waiting" /\ writer = "exited"
    /\ closing' = "returned"
    /\ UNCHANGED <<clients, memory, dirty, thread, files, restarts>>

Tick ==
    /\ clock < MaxClock
    /\ clock' = clock + 1
    /\ UNCHANGED <<op, late, memory, dirty, thread, files, closing, restarts>>

\* The process ends at any point, and newMemoCache runs in the next one.
Restart ==
    /\ restarts < MaxRestarts
    /\ restarts' = restarts + 1
    /\ limit' \in Limits
    /\ values' \in Loaded(disk, clock, limit')
    /\ op' = [c \in Clients |-> Idle]
    /\ dirty' = FALSE
    /\ writer' = "select" /\ timer' = "none" /\ last' = FALSE /\ snap' = Empty
    /\ closing' = "no" /\ late' = {} /\ failed' = FALSE
    /\ UNCHANGED <<clock, disk>>

ClientStep(c) == Store(c) \/ Lookup(c) \/ SetLimit(c) \/ MarkDirty(c)
Flush == Copy \/ Open \/ Write \/ Rename \/ FlushFails
WriterStep == TakeDirty \/ TimerFires \/ TakeStop \/ Flush

Next ==
    \/ \E c \in Clients : Call(c) \/ ClientStep(c)
    \/ WriterStep \/ TimerRuns
    \/ Close \/ Closed
    \/ Tick \/ Restart

Spec == Init /\ [][Next]_vars

\* Calls return, the writer runs, and its timer expires.
FairSpec ==
    /\ Spec
    /\ \A c \in Clients : WF_vars(ClientStep(c))
    /\ WF_vars(WriterStep) /\ WF_vars(TimerRuns) /\ WF_vars(Closed)

-----------------------------------------------------------------------------
\* Properties.

Saved(k, map) ==
    /\ k \in DOMAIN map
    /\ map[k].value = values[k].value /\ map[k].expires = values[k].expires

\* What a flush still to come, or in progress, will write.
Pending ==
    \/ \E c \in Clients : op[c] = Marking
    \/ writer # "exited" /\ (dirty \/ timer # "none")
    \/ writer = "copy" \/ (closing # "no" /\ writer = "select")

\* The file can be read at every moment, so that a crash at any point of a
\* flush costs the last changes and never the whole cache (cache.go:261-265).
FileReadable == disk # Torn

\* No write is forgotten: a live entry of the map is in the file, or a flush
\* that will save it is under way or announced.  The exceptions are the ones
\* the code accepts: a flush that failed, a write after the last copy
\* (cache.go:183-190, 200-225, 250-255).
NoForgottenWrite ==
    \A k \in DOMAIN Live(values, clock) :
        \/ Saved(k, disk)
        \/ Pending
        \/ writer \in {"open", "write", "rename"} /\ Saved(k, snap)
        \/ failed \/ k \in late

\* The inductive invariant behind these.  The map never holds more than its
\* limit, also while the limit is lowered (cache.go:126-136, 161-182); what the
\* copy of a flush in progress lacks has been announced since, and what the copy
\* of the last flush lacks was written after it.
Stopped ==
    /\ last => writer # "select"
    /\ writer = "exited" => last
    /\ closing = "returned" => writer = "exited"
Copied ==
    writer \in {"open", "write", "rename"} =>
        \A k \in DOMAIN Live(values, clock) :
            \/ Saved(k, snap) \/ k \in late
            \/ dirty \/ timer # "none" \/ \E c \in Clients : op[c] = Marking
LastCopied ==
    last /\ writer # "copy" =>
        \A k \in DOMAIN Live(values, clock) :
            \/ k \in late
            \/ writer # "exited" /\ Saved(k, snap)
            \/ writer = "exited" /\ (failed \/ Saved(k, disk))
CacheInv == TypeOK /\ FileReadable /\ Stopped /\ Copied /\ LastCopied

\* When close() has returned nobody writes the file any more: a cache opened
\* on the same path, or the end of the process, cannot meet a late flush
\* (cache.go:268-279, plugin.go:126).
QuietAfterClose == [][closing = "returned" => UNCHANGED disk]_vars

Quiet == \A c \in Clients : op[c] = Idle

\* When the calls stop, the map is saved: the debounce timer does fire
\* (cache.go:199-222).
EventuallySaved ==
    <>[]Quiet => <>[](\A k \in DOMAIN Live(values, clock) :
                         Saved(k, disk) \/ failed \/ k \in late)
=============================================================================
