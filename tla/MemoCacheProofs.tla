--------------------------- MODULE MemoCacheProofs ---------------------------
(***************************************************************************)
(* Proofs about MemoCache: what pruning keeps, the inductive invariant     *)
(* CacheInv, that no write is forgotten, and that the file is left alone   *)
(* once close() has returned; for all sets of keys and clients, limits,    *)
(* lifetimes and numbers of restarts.                                      *)
(***************************************************************************)
EXTENDS MemoCache, FiniteSetTheorems, TLAPS

Ops == {Idle, Marking} \cup SetOps \cup LookupOps \cup LimitOps

\* The map loses entries, or their times of use change; no entry is written.
Shrinks(map, to) ==
    \A k \in DOMAIN to :
        /\ k \in DOMAIN map
        /\ to[k].value = map[k].value /\ to[k].expires = map[k].expires

\* A map of the cache is a function on finitely many keys (cache.go:28-34).
LEMMA MapParts ==
    ASSUME NEW m \in Maps
    PROVE  /\ DOMAIN m \subseteq Keys /\ IsFiniteSet(DOMAIN m)
           /\ m \in [DOMAIN m -> Records]
BY DEF Maps

\* And each such function is one.
LEMMA MapWhole ==
    ASSUME NEW S \in SUBSET Keys, IsFiniteSet(S), NEW m \in [S -> Records]
    PROVE  m \in Maps
BY DEF Maps

\* Removing entries from a map leaves a map that has only lost some.
LEMMA RestrictedMap ==
    ASSUME NEW m \in Maps, NEW S \in SUBSET DOMAIN m
    PROVE  /\ Restrict(m, S) \in Maps /\ DOMAIN Restrict(m, S) = S
           /\ Shrinks(m, Restrict(m, S))
           /\ \A k \in S : Restrict(m, S)[k] = m[k]
<1>1. /\ DOMAIN m \subseteq Keys /\ IsFiniteSet(DOMAIN m)
      /\ m \in [DOMAIN m -> Records]
  BY MapParts
<1>2. IsFiniteSet(S)
  BY <1>1, FS_Subset
<1>3. DOMAIN Restrict(m, S) = S /\ \A k \in S : Restrict(m, S)[k] = m[k]
  BY DEF Restrict
<1>4. Restrict(m, S) \in [S -> Records]
  BY <1>1 DEF Restrict
<1>5. Restrict(m, S) \in Maps
  BY <1>1, <1>2, <1>4, MapWhole
<1> QED
  BY <1>3, <1>5 DEF Shrinks

\* The entries that have not expired, with nothing about them changed
\* (cache.go:161-167).
LEMMA LiveMap ==
    ASSUME NEW m \in Maps, NEW now
    PROVE  /\ Live(m, now) \in Maps
           /\ DOMAIN Live(m, now) = {k \in DOMAIN m : ~Expired(m[k], now)}
           /\ Shrinks(m, Live(m, now))
           /\ \A k \in DOMAIN Live(m, now) : Live(m, now)[k] = m[k]
<1> DEFINE S == {k \in DOMAIN m : ~Expired(m[k], now)}
<1>1. Live(m, now) = Restrict(m, S)
  BY Zenon DEF Live, RestrictValues
<1> QED
  BY <1>1, RestrictedMap

\* pruneLocked (cache.go:161-182): what is left fits the limit, and is in the
\* map it came from.
LEMMA PrunedMap ==
    ASSUME NEW m \in Maps, NEW now, NEW max \in Nat, NEW p \in Pruned(m, now, max)
    PROVE  /\ p \in Maps /\ Cardinality(DOMAIN p) <= max
           /\ Shrinks(m, p) /\ \A k \in DOMAIN p : p[k] = m[k]
<1> DEFINE live == Live(m, now)
<1>1. /\ live \in Maps /\ DOMAIN live \subseteq DOMAIN m
      /\ Shrinks(m, live) /\ \A k \in DOMAIN live : live[k] = m[k]
  BY LiveMap
<1>2. CASE Cardinality(DOMAIN live) <= max
  <2>1. p = live
    BY <1>2 DEF Pruned
  <2> QED
    BY <1>1, <1>2, <2>1
<1>3. CASE ~(Cardinality(DOMAIN live) <= max)
  <2>1. PICK S \in SUBSET DOMAIN live : Cardinality(S) = max /\ p = Restrict(live, S)
    BY <1>3 DEF Pruned
  <2>2. p \in Maps /\ DOMAIN p = S /\ \A k \in S : p[k] = live[k]
    BY <1>1, <2>1, RestrictedMap
  <2> QED
    BY <1>1, <2>1, <2>2 DEF Shrinks
<1> QED
  BY <1>2, <1>3

\* An entry that is live in what is left was live before.
LEMMA LiveShrinks ==
    ASSUME NEW m \in Maps, NEW to \in Maps, Shrinks(m, to),
           NEW now \in Nat, NEW later \in Nat, now <= later,
           NEW k \in DOMAIN Live(to, later)
    PROVE  /\ k \in DOMAIN Live(m, now)
           /\ to[k].value = m[k].value /\ to[k].expires = m[k].expires
<1>1. k \in DOMAIN to /\ ~(later > to[k].expires)
  <2>1. DOMAIN Live(to, later) = {j \in DOMAIN to : ~Expired(to[j], later)}
    BY LiveMap
  <2>2. k \in DOMAIN to /\ ~Expired(to[k], later)
    BY <2>1
  <2> QED BY <2>2 DEF Expired
<1>2. k \in DOMAIN m /\ to[k].value = m[k].value /\ to[k].expires = m[k].expires
  BY <1>1 DEF Shrinks
<1>3. m[k] \in Records
  BY <1>2, MapParts
<1>4. m[k].expires \in Nat
  BY <1>3, TimeAssumption DEF Records, Times
<1>5. ~Expired(m[k], now)
  BY <1>1, <1>2, <1>4 DEF Expired
<1>6. DOMAIN Live(m, now) = {j \in DOMAIN m : ~Expired(m[j], now)}
  BY LiveMap
<1> QED
  BY <1>2, <1>5, <1>6

\* The requests of clients are told apart by their kind.
LEMMA OpKinds ==
    ASSUME NEW r \in Ops
    PROVE  /\ r.kind = "set" => r \in SetOps
           /\ r.kind = "lookup" => r \in LookupOps
           /\ r.kind = "limit" => r \in LimitOps
           /\ r \in SetOps \cup LookupOps \cup LimitOps => r # Marking /\ r # Idle
           /\ Idle # Marking
BY DEF Ops, Idle, Marking, SetOps, LookupOps, LimitOps

\* A live entry of the map is saved, or will be, or was written too late: what
\* NoForgottenWrite says of one entry, and what the copy owes to one.
Covered(k) ==
    \/ Saved(k, disk)
    \/ Pending
    \/ writer \in {"open", "write", "rename"} /\ Saved(k, snap)
    \/ failed \/ k \in late
InCopy(k) ==
    \/ Saved(k, snap) \/ k \in late
    \/ dirty \/ timer # "none" \/ \E c \in Clients : op[c] = Marking
InLastCopy(k) ==
    \/ k \in late
    \/ writer # "exited" /\ Saved(k, snap)
    \/ writer = "exited" /\ (failed \/ Saved(k, disk))

\* The invariant and the property together, in these words.
LiveEntries == DOMAIN Live(values, clock)
Kept ==
    /\ writer \in {"open", "write", "rename"} => \A k \in LiveEntries : InCopy(k)
    /\ last /\ writer # "copy" => \A k \in LiveEntries : InLastCopy(k)
    /\ \A k \in LiveEntries : Covered(k)
Strong == TypeOK /\ FileReadable /\ Stopped /\ Kept

LEMMA StrongIs ==
    Strong <=> CacheInv /\ NoForgottenWrite
BY DEF Strong, Kept, CacheInv, Copied, LastCopied, NoForgottenWrite, Covered, InCopy,
       InLastCopy, LiveEntries

LEMMA Initially ==
    ASSUME Init
    PROVE  Strong
<1>1. Empty \in Maps /\ DOMAIN Empty = {}
  <2>1. Empty \in [{} -> Records] /\ IsFiniteSet({})
    BY FS_EmptySet DEF Empty
  <2> QED BY <2>1, MapWhole DEF Empty
<1>2. LiveEntries = {}
  BY <1>1, LiveMap DEF Init, LiveEntries
<1>3. Cardinality(DOMAIN values) <= limit
  BY <1>1, FS_EmptySet, LimitsAssumption DEF Init
<1>4. TypeOK
  <2>1. clock \in 0..MaxClock /\ restarts \in 0..MaxRestarts
    BY TimeAssumption DEF Init
  <2>2. op \in [Clients -> {Idle, Marking} \cup SetOps \cup LookupOps \cup LimitOps]
    BY DEF Init
  <2>3. late \subseteq Keys /\ closing \in {"no", "waiting", "returned"}
    BY DEF Init
  <2>4. values \in Maps /\ limit \in Limits /\ snap \in Maps /\ disk \in Maps \cup {Torn}
    BY <1>1 DEF Init
  <2>5. /\ dirty \in BOOLEAN /\ last \in BOOLEAN /\ failed \in BOOLEAN
        /\ writer \in {"select", "copy", "open", "write", "rename", "exited"}
        /\ timer \in {"none", "armed", "due"}
    BY DEF Init
  <2> QED BY <1>3, <2>1, <2>2, <2>3, <2>4, <2>5 DEF TypeOK
<1>5. FileReadable /\ Stopped
  BY <1>1, TornAssumption DEF FileReadable, Stopped, Init
<1> QED
  BY <1>2, <1>4, <1>5 DEF Strong, Kept

-----------------------------------------------------------------------------
\* Steps of clients.

\* set(): the mark that follows announces the entry, and one written after the
\* last copy is late.
LEMMA StoreKeeps ==
    ASSUME Strong, NEW c \in Clients, Store(c)
    PROVE  Strong'
<1> DEFINE request == op[c]
           record == [value |-> request.value, expires |-> request.at + TTL,
                      used |-> request.at]
           put == Put(values, request.key, record)
<1>t. /\ clock \in Nat /\ values \in Maps /\ limit \in Nat /\ limit \in Limits
      /\ op \in [Clients -> Ops] /\ late \subseteq Keys
  BY LimitsAssumption DEF Strong, TypeOK, Ops
<1>1. request \in SetOps
  BY <1>t, OpKinds DEF Store
<1>2. record \in Records
  BY <1>1, TimeAssumption DEF SetOps, Records, Times
<1>3. /\ put \in Maps
      /\ \A k \in DOMAIN put : k # request.key => k \in DOMAIN values /\ put[k] = values[k]
  <2>1. DOMAIN values \subseteq Keys /\ IsFiniteSet(DOMAIN values)
        /\ values \in [DOMAIN values -> Records]
    BY <1>t, MapParts
  <2>2. request.key \in Keys
    BY <1>1 DEF SetOps
  <2>3. IsFiniteSet(DOMAIN values \cup {request.key})
    BY <2>1, FS_AddElement, Zenon
  <2>4. put \in [DOMAIN values \cup {request.key} -> Records]
    BY <1>2, <2>1 DEF Put
  <2>5. put \in Maps
    BY <2>1, <2>2, <2>3, <2>4, MapWhole
  <2> QED BY <2>5 DEF Put
<1>4. /\ values' \in Maps /\ Cardinality(DOMAIN values') <= limit
      /\ \A k \in DOMAIN values' : k \in DOMAIN put /\ values'[k] = put[k]
  BY <1>t, <1>3, PrunedMap DEF Store, Shrinks
<1>5. op' \in [Clients -> Ops] /\ op'[c] = Marking
  BY <1>t DEF Store, Ops
<1>6. TypeOK'
  BY <1>1, <1>4, <1>5, <1>t DEF Strong, TypeOK, Store, Ops, thread, files, SetOps
<1>7. FileReadable' /\ Stopped'
  BY DEF Strong, FileReadable, Stopped, Store, thread, files
<1>8. ASSUME NEW k \in LiveEntries', k # request.key
      PROVE  k \in LiveEntries /\ values'[k] = values[k]
  <2>1. k \in DOMAIN values' /\ ~Expired(values'[k], clock)
    <3>1. DOMAIN Live(values', clock) = {j \in DOMAIN values' : ~Expired(values'[j], clock)}
      BY <1>4, LiveMap
    <3>2. clock' = clock
      BY DEF Store
    <3>3. k \in DOMAIN Live(values', clock)
      BY <3>2 DEF LiveEntries
    <3> QED BY <3>1, <3>3
  <2>2. k \in DOMAIN values /\ values'[k] = values[k]
    BY <1>3, <1>4, <1>8, <2>1
  <2>3. LiveEntries = {j \in DOMAIN values : ~Expired(values[j], clock)}
    BY <1>t, LiveMap DEF LiveEntries
  <2> QED BY <2>1, <2>2, <2>3
<1>9. last /\ writer # "copy" => \A k \in LiveEntries' : InLastCopy(k)'
  <2> SUFFICES ASSUME last, writer # "copy", NEW k \in LiveEntries'
               PROVE  InLastCopy(k)'
    OBVIOUS
  <2>1. late' = late \cup {request.key}
    BY DEF Store
  <2>2. CASE k = request.key
    BY <2>1, <2>2 DEF InLastCopy
  <2>3. CASE k # request.key
    <3>1. k \in LiveEntries /\ values'[k] = values[k]
      BY <1>8, <2>3
    <3>2. InLastCopy(k)
      BY <3>1 DEF Strong, Kept
    <3> QED
      BY <2>1, <3>1, <3>2 DEF InLastCopy, Saved, Store, thread, files
  <2> QED BY <2>2, <2>3
<1>10. Kept'
  BY <1>5, <1>9 DEF Kept, InCopy, Covered, Pending, Store, thread
<1> QED
  BY <1>6, <1>7, <1>10 DEF Strong

\* A step of a client or of the clock that writes no entry, forgets no mark and
\* leaves the writer and the file alone.
LEMMA QuietStep ==
    ASSUME Strong, TypeOK', Shrinks(values, values'), clock <= clock',
           UNCHANGED <<thread, files, closing, late>>,
           dirty => dirty',
           \A c \in Clients : op[c] = Marking => op'[c] = Marking
    PROVE  Strong'
<1>t. /\ clock \in Nat /\ clock' \in Nat /\ values \in Maps /\ values' \in Maps
  BY TimeAssumption DEF Strong, TypeOK
<1>1. ASSUME NEW k \in LiveEntries'
      PROVE  /\ k \in LiveEntries
             /\ values'[k].value = values[k].value
             /\ values'[k].expires = values[k].expires
  BY <1>t, LiveShrinks DEF LiveEntries
<1>2. (\E c \in Clients : op[c] = Marking) =>
        (\E c \in Clients : op'[c] = Marking)
  OBVIOUS
<1>3. FileReadable' /\ Stopped'
  BY DEF Strong, FileReadable, Stopped, thread, files
<1>4. \A k \in LiveEntries' : InCopy(k) => InCopy(k)'
  BY <1>1, <1>2 DEF InCopy, Saved, thread
<1>5. \A k \in LiveEntries' : InLastCopy(k) => InLastCopy(k)'
  BY <1>1 DEF InLastCopy, Saved, thread, files
<1>6. Pending => Pending'
  BY <1>2 DEF Pending, thread
<1>7. \A k \in LiveEntries' : Covered(k) => Covered(k)'
  BY <1>1, <1>6 DEF Covered, Saved, thread, files
<1>8. Kept'
  BY <1>1, <1>4, <1>5, <1>7 DEF Strong, Kept, thread
<1> QED
  BY <1>3, <1>8 DEF Strong

\* getLast() and get(): at most the time of use of one entry changes
\* (cache.go:82-124).
LEMMA LookupKeeps ==
    ASSUME Strong, NEW c \in Clients, Lookup(c)
    PROVE  Strong'
<1> DEFINE request == op[c]
           Live1(k) == k \in DOMAIN values /\ ~Expired(values[k], request.at)
           met == IF Live1(request.long) THEN {} ELSE {request.long} \cup
                  (IF Live1(request.short) THEN {} ELSE {request.short})
           gone == met \cap DOMAIN values
           rest == Restrict(values, DOMAIN values \ gone)
<1>t. /\ clock \in Nat /\ values \in Maps /\ limit \in Nat
      /\ Cardinality(DOMAIN values) <= limit /\ op \in [Clients -> Ops]
  BY LimitsAssumption, TimeAssumption DEF Strong, TypeOK, Ops
<1>1. request \in LookupOps
  BY <1>t, OpKinds DEF Lookup
<1>2. /\ rest \in Maps /\ DOMAIN rest = DOMAIN values \ gone
      /\ \A k \in DOMAIN rest : rest[k] = values[k]
  BY <1>t, RestrictedMap
<1>3. ASSUME NEW j, Live1(j), values' = [rest EXCEPT ![j].used = request.at]
      PROVE  values' \in Maps /\ DOMAIN values' = DOMAIN rest /\ Shrinks(values, values')
  <2>1. request.at \in Times
    BY <1>1, TimeAssumption DEF LookupOps, Times
  <2>2. /\ DOMAIN rest \subseteq Keys /\ IsFiniteSet(DOMAIN rest)
        /\ rest \in [DOMAIN rest -> Records]
    BY <1>2, MapParts
  <2>3. values' \in [DOMAIN rest -> Records]
    <3>1. ASSUME NEW k \in DOMAIN rest
          PROVE  [rest[k] EXCEPT !.used = request.at] \in Records
      <4>1. rest[k] \in Records
        BY <2>2
      <4> QED BY <2>1, <4>1 DEF Records
    <3>2. /\ DOMAIN values' = DOMAIN rest
          /\ \A k \in DOMAIN rest : values'[k] = IF k = j THEN [rest[k] EXCEPT !.used = request.at]
                                                         ELSE rest[k]
          /\ values' = [k \in DOMAIN rest |-> values'[k]]
      BY <1>3, <2>2, Zenon
    <3> HIDE DEF rest
    <3>3. \A k \in DOMAIN rest : values'[k] \in Records
      BY <2>2, <3>1, <3>2
    <3> QED BY <3>2, <3>3
  <2>4. \A k \in DOMAIN rest : /\ values'[k].value = rest[k].value
                               /\ values'[k].expires = rest[k].expires
    <3> SUFFICES ASSUME NEW k \in DOMAIN rest
                 PROVE  values'[k].value = rest[k].value /\ values'[k].expires = rest[k].expires
      OBVIOUS
    <3>1. values'[k] = IF k = j THEN [rest[k] EXCEPT !.used = request.at] ELSE rest[k]
      BY <1>3, <2>2, Zenon
    <3>2. rest[k] \in Records
      BY <2>2
    <3> HIDE DEF rest, request
    <3>3. /\ [rest[k] EXCEPT !.used = request.at].value = rest[k].value
          /\ [rest[k] EXCEPT !.used = request.at].expires = rest[k].expires
      BY <3>2 DEF Records
    <3> QED BY <3>1, <3>3
  <2>5. values' \in Maps /\ DOMAIN values' = DOMAIN rest
    BY <2>2, <2>3, MapWhole
  <2>6. \A k \in DOMAIN values' : k \in DOMAIN values /\ rest[k] = values[k]
    BY <1>2, <2>5
  <2> HIDE DEF rest
  <2>7. Shrinks(values, values')
    BY <2>4, <2>5, <2>6 DEF Shrinks
  <2> QED BY <2>5, <2>7
<1>4. values' = rest => values' \in Maps /\ DOMAIN values' = DOMAIN rest /\ Shrinks(values, values')
  BY <1>2 DEF Shrinks
<1>5. values' \in Maps /\ DOMAIN values' = DOMAIN rest /\ Shrinks(values, values')
  <2>1. \/ Live1(request.long) /\ values' = [rest EXCEPT ![request.long].used = request.at]
        \/ Live1(request.short) /\ values' = [rest EXCEPT ![request.short].used = request.at]
        \/ values' = rest
    BY DEF Lookup
  <2> QED BY <1>3, <1>4, <2>1
<1>6. Cardinality(DOMAIN values') <= limit
  <2>1. IsFiniteSet(DOMAIN values) /\ DOMAIN values' \subseteq DOMAIN values
    BY <1>t, <1>2, <1>5, MapParts
  <2>2. /\ Cardinality(DOMAIN values') \in Nat /\ Cardinality(DOMAIN values) \in Nat
        /\ Cardinality(DOMAIN values') <= Cardinality(DOMAIN values)
    BY <2>1, FS_Subset, FS_CardinalityType
  <2> QED BY <1>t, <2>2
<1>7. op' \in [Clients -> Ops] /\ \A d \in Clients : op[d] = Marking => op'[d] = Marking
  <2>1. op[c] # Marking
    BY <1>1, <1>t, OpKinds
  <2> QED BY <1>t, <2>1 DEF Lookup, Ops
<1>8. TypeOK'
  <2>1. UNCHANGED <<clock, limit, dirty, thread, files, closing, late, restarts>>
    BY DEF Lookup
  <2>2. TypeOK
    BY DEF Strong
  <2> HIDE DEF request, rest, gone, met, Live1
  <2> QED BY <1>5, <1>6, <1>7, <2>1, <2>2 DEF TypeOK, Ops, thread, files
<1>9. clock <= clock' /\ (dirty => dirty') /\ UNCHANGED <<thread, files, closing, late>>
  <2>1. UNCHANGED <<clock, dirty, thread, files, closing, late>>
    BY DEF Lookup
  <2> QED BY <1>t, <2>1
<1> QED
  BY <1>5, <1>7, <1>8, <1>9, QuietStep, Zenon

\* setLimit(): the map is cut to the new limit in the same critical section.
LEMMA SetLimitKeeps ==
    ASSUME Strong, NEW c \in Clients, SetLimit(c)
    PROVE  Strong'
<1>t. clock \in Nat /\ values \in Maps /\ op \in [Clients -> Ops]
  BY TimeAssumption DEF Strong, TypeOK, Ops
<1>1. op[c] \in LimitOps
  BY <1>t, OpKinds DEF SetLimit
<1>2. limit' \in Limits /\ limit' \in Nat
  BY <1>1, LimitsAssumption DEF SetLimit, LimitOps
<1>3. values' \in Maps /\ Cardinality(DOMAIN values') <= limit' /\ Shrinks(values, values')
  BY <1>t, <1>2, PrunedMap DEF SetLimit
<1>4. op' \in [Clients -> Ops] /\ \A d \in Clients : op[d] = Marking => op'[d] = Marking
  BY <1>t DEF SetLimit, Ops
<1>5. TypeOK'
  BY <1>2, <1>3, <1>4 DEF Strong, TypeOK, SetLimit, Ops, thread, files
<1>6. clock <= clock' /\ (dirty => dirty') /\ UNCHANGED <<thread, files, closing, late>>
  BY <1>t DEF SetLimit
<1> QED
  BY <1>3, <1>4, <1>5, <1>6, QuietStep, Zenon

\* markDirty(): a mark nobody will take any more is that of a late write, or of
\* one the last copy has.
LEMMA MarkDirtyKeeps ==
    ASSUME Strong, NEW c \in Clients, MarkDirty(c)
    PROVE  Strong'
<1>1. /\ LiveEntries' = LiveEntries /\ dirty' = TRUE
      /\ UNCHANGED <<clock, late, memory, thread, files, closing, restarts>>
  BY DEF MarkDirty, LiveEntries, memory
<1>2. TypeOK'
  <2>1. op' \in [Clients -> {Idle, Marking} \cup SetOps \cup LookupOps \cup LimitOps]
    BY DEF Strong, TypeOK, MarkDirty
  <2> QED BY <1>1, <2>1 DEF Strong, TypeOK, memory, thread, files
<1>3. FileReadable' /\ Stopped'
  BY <1>1 DEF Strong, FileReadable, Stopped, thread, files
<1>4. \A k \in LiveEntries : InLastCopy(k) => InLastCopy(k)'
  BY <1>1 DEF InLastCopy, Saved, memory, thread, files
<1>5. ASSUME NEW k \in LiveEntries
      PROVE  Covered(k)'
  <2>1. CASE writer = "exited"
    <3>1. InLastCopy(k)
      BY <2>1 DEF Strong, Stopped, Kept
    <3> QED BY <1>1, <2>1, <3>1 DEF InLastCopy, Covered, Saved, memory, thread, files
  <2>2. CASE writer # "exited"
    BY <1>1, <2>2 DEF Covered, Pending, thread
  <2> QED BY <2>1, <2>2
<1>6. Kept'
  BY <1>1, <1>4, <1>5 DEF Strong, Kept, InCopy, thread
<1> QED BY <1>2, <1>3, <1>6 DEF Strong

\* A call that begins holds no mark yet, and time only ends entries.
LEMMA CallKeeps ==
    ASSUME Strong, NEW c \in Clients, Call(c)
    PROVE  Strong'
<1>1. op' \in [Clients -> Ops] /\ \A d \in Clients : op[d] = Marking => op'[d] = Marking
  BY DEF Strong, TypeOK, Call, Ops, Idle, Marking
<1>2. TypeOK'
  BY <1>1 DEF Strong, TypeOK, Call, Ops, memory, thread, files
<1>3. Shrinks(values, values')
  BY DEF Call, memory, Shrinks
<1>4. clock <= clock' /\ (dirty => dirty') /\ UNCHANGED <<thread, files, closing, late>>
  BY TimeAssumption DEF Strong, TypeOK, Call
<1> QED BY <1>1, <1>2, <1>3, <1>4, QuietStep, Zenon

LEMMA TickKeeps ==
    ASSUME Strong, Tick
    PROVE  Strong'
<1>1. clock' \in 0..MaxClock /\ clock <= clock'
  BY TimeAssumption DEF Strong, TypeOK, Tick
<1>2. TypeOK'
  BY <1>1 DEF Strong, TypeOK, Tick, memory, thread, files
<1>3. Shrinks(values, values') /\ \A d \in Clients : op[d] = Marking => op'[d] = Marking
  BY DEF Tick, memory, Shrinks
<1>4. (dirty => dirty') /\ UNCHANGED <<thread, files, closing, late>>
  BY DEF Tick
<1> QED BY <1>1, <1>2, <1>3, <1>4, QuietStep, Zenon

-----------------------------------------------------------------------------
\* Steps of the writer, of close() and of the process.

\* The steps of the writer outside flush(): a mark becomes a timer, the timer or
\* the stop becomes a flush.
LEMMA WaitingKeeps ==
    ASSUME Strong, TakeDirty \/ TimerRuns \/ TimerFires \/ TakeStop
    PROVE  Strong'
<1>1. /\ LiveEntries' = LiveEntries
      /\ UNCHANGED <<clients, memory, snap, files, closing, restarts>>
  BY DEF TakeDirty, TimerRuns, TimerFires, TakeStop, memory, clients, LiveEntries
<1>2. TypeOK'
  BY <1>1 DEF Strong, TypeOK, TakeDirty, TimerRuns, TimerFires, TakeStop, clients, memory, files
<1>3. FileReadable' /\ Stopped'
  BY <1>1 DEF Strong, FileReadable, Stopped, TakeDirty, TimerRuns, TimerFires, TakeStop, files
<1>4. CASE TakeDirty \/ TimerFires \/ TakeStop
  <2>1. writer = "select" /\ ~last
    BY <1>4 DEF Strong, Stopped, TakeDirty, TimerFires, TakeStop
  <2>2. writer' = "copy" \/ (writer' = "select" /\ timer' # "none" /\ ~last')
    <3>1. CASE TakeDirty
      BY <2>1, <3>1 DEF TakeDirty
    <3>2. CASE TimerFires \/ TakeStop
      BY <3>2 DEF TimerFires, TakeStop
    <3> QED BY <1>4, <3>1, <3>2
  <2> QED BY <1>2, <1>3, <2>2 DEF Strong, Kept, Covered, Pending
<1>5. CASE TimerRuns
  <2>1. UNCHANGED <<op, dirty, writer, last, disk, failed, late>> /\ timer # "none" /\ timer' # "none"
    BY <1>5 DEF TimerRuns, clients, files
  <2>2. \A k \in LiveEntries : /\ InCopy(k)'
                               /\ InLastCopy(k) => InLastCopy(k)'
    BY <1>1, <2>1 DEF InCopy, InLastCopy, Saved, memory
  <2>3. Pending => Pending'
    BY <1>1, <2>1 DEF Pending
  <2>4. \A k \in LiveEntries : Covered(k) => Covered(k)'
    BY <1>1, <2>1, <2>3 DEF Covered, Saved, memory
  <2>5. Kept'
    BY <1>1, <2>1, <2>2, <2>4 DEF Strong, Kept
  <2> QED BY <1>2, <1>3, <2>5 DEF Strong
<1> QED BY <1>4, <1>5

\* flush() copies what it has just pruned, under one lock.
LEMMA CopyKeeps ==
    ASSUME Strong, Copy
    PROVE  Strong'
<1>t. values \in Maps /\ limit \in Nat /\ clock \in Nat
  BY LimitsAssumption, TimeAssumption DEF Strong, TypeOK
<1>1. values' \in Maps /\ Cardinality(DOMAIN values') <= limit
  BY <1>t, PrunedMap DEF Copy
<1>2. snap' = values' /\ writer' = "open"
      /\ UNCHANGED <<clock, op, late, limit, dirty, timer, last, disk, failed, closing, restarts>>
  BY DEF Copy, clients, files
<1>3. TypeOK'
  BY <1>1, <1>2 DEF Strong, TypeOK
<1>4. FileReadable' /\ Stopped'
  BY <1>2 DEF Strong, FileReadable, Stopped, Copy
<1>5. LiveEntries' \subseteq DOMAIN values'
  BY <1>1, LiveMap DEF LiveEntries
<1>6. \A k \in LiveEntries' : Saved(k, snap)'
  BY <1>2, <1>5 DEF Saved
<1>7. Kept'
  BY <1>2, <1>6 DEF Kept, InCopy, InLastCopy, Covered
<1> QED BY <1>3, <1>4, <1>7 DEF Strong

LEMMA FileStepsKeep ==
    ASSUME Strong, Open \/ Write
    PROVE  Strong'
<1>1. /\ LiveEntries' = LiveEntries /\ writer \in {"open", "write"} /\ writer' \in {"write", "rename"}
      /\ UNCHANGED <<clients, memory, dirty, timer, last, snap, files, closing, restarts>>
  BY DEF Open, Write, memory, clients, LiveEntries
<1>2. TypeOK'
  BY <1>1 DEF Strong, TypeOK, clients, memory, files
<1>3. FileReadable' /\ Stopped'
  BY <1>1 DEF Strong, FileReadable, Stopped, files
<1>4. \A k \in LiveEntries : /\ InCopy(k) => InCopy(k)'
                             /\ InLastCopy(k) => InLastCopy(k)'
  BY <1>1 DEF InCopy, InLastCopy, Saved, clients, memory, files
<1>5. Pending => Pending'
  BY <1>1 DEF Pending, clients
<1>6. \A k \in LiveEntries : Covered(k) => Covered(k)'
  BY <1>1, <1>5 DEF Covered, Saved, clients, memory, files
<1>7. Kept'
  BY <1>1, <1>4, <1>6 DEF Strong, Kept
<1> QED BY <1>2, <1>3, <1>7 DEF Strong

\* The end of a flush: the copy is in the file, or the flush is known to have
\* failed.
LEMMA FlushEndKeeps ==
    ASSUME Strong, Rename \/ FlushFails
    PROVE  Strong'
<1>1. /\ LiveEntries' = LiveEntries /\ writer \in {"open", "write", "rename"}
      /\ writer' = IF last THEN "exited" ELSE "select"
      /\ snap' = Empty
      /\ failed' \/ disk' = snap
      /\ failed' \in BOOLEAN /\ disk' \in {disk, snap}
      /\ UNCHANGED <<clock, op, late, values, limit, dirty, timer, last, closing, restarts>>
  BY DEF Rename, FlushFails, FlushEnds, memory, clients, LiveEntries
<1>2. Empty \in Maps
  <2>1. Empty \in [{} -> Records] /\ IsFiniteSet({})
    BY FS_EmptySet DEF Empty
  <2> QED BY <2>1, MapWhole
<1>3. TypeOK'
  BY <1>1, <1>2 DEF Strong, TypeOK
<1>4. FileReadable' /\ Stopped'
  BY <1>1, TornAssumption DEF Strong, TypeOK, FileReadable, Stopped
<1>5. ASSUME NEW k \in LiveEntries
      PROVE  /\ last => InLastCopy(k)'
             /\ Covered(k)'
  <2>1. /\ InCopy(k)
        /\ last => InLastCopy(k)
    BY <1>1 DEF Strong, Kept
  <2>2. Saved(k, snap) => failed' \/ Saved(k, disk)'
    BY <1>1 DEF Saved
  <2>3. last => InLastCopy(k)'
    BY <1>1, <2>1, <2>2 DEF InLastCopy
  <2>4. CASE last
    BY <1>1, <2>3, <2>4 DEF InLastCopy, Covered
  <2>5. CASE ~last
    BY <1>1, <2>1, <2>2, <2>5 DEF InCopy, Covered, Pending
  <2> QED BY <2>3, <2>4, <2>5
<1>6. Kept'
  BY <1>1, <1>5 DEF Kept
<1> QED BY <1>3, <1>4, <1>6 DEF Strong

LEMMA CloseKeeps ==
    ASSUME Strong, Close \/ Closed
    PROVE  Strong'
<1>1. /\ LiveEntries' = LiveEntries
      /\ \/ closing' = "waiting"
         \/ closing = "waiting" /\ writer = "exited" /\ closing' = "returned"
      /\ UNCHANGED <<clients, memory, dirty, thread, files, restarts>>
  BY DEF Close, Closed, memory, clients, thread, files, LiveEntries
<1>2. TypeOK'
  BY <1>1 DEF Strong, TypeOK, clients, memory, thread, files
<1>3. FileReadable' /\ Stopped'
  BY <1>1 DEF Strong, FileReadable, Stopped, thread, files
<1>4. \A k \in LiveEntries : /\ InCopy(k) => InCopy(k)'
                             /\ InLastCopy(k) => InLastCopy(k)'
  BY <1>1 DEF InCopy, InLastCopy, Saved, clients, memory, thread, files
<1>5. Pending => Pending'
  BY <1>1 DEF Pending, clients, thread
<1>6. \A k \in LiveEntries : Covered(k) => Covered(k)'
  BY <1>1, <1>5 DEF Covered, Saved, clients, memory, thread, files
<1>7. Kept'
  BY <1>1, <1>4, <1>6 DEF Strong, Kept, thread
<1> QED BY <1>2, <1>3, <1>7 DEF Strong

\* What the next process begins with is what the file holds, less what it prunes.
LEMMA RestartKeeps ==
    ASSUME Strong, Restart
    PROVE  Strong'
<1>1. disk \in Maps /\ limit' \in Limits /\ limit' \in Nat /\ disk' = disk /\ clock' = clock
  BY LimitsAssumption DEF Strong, TypeOK, FileReadable, Restart
<1>2. values' \in Pruned(disk, clock, limit')
  BY DEF Strong, FileReadable, Restart, Loaded
<1>3. /\ values' \in Maps /\ Cardinality(DOMAIN values') <= limit'
      /\ Shrinks(disk, values')
  BY <1>1, <1>2, PrunedMap
<1>4. Empty \in Maps
  <2>1. Empty \in [{} -> Records] /\ IsFiniteSet({})
    BY FS_EmptySet DEF Empty
  <2> QED BY <2>1, MapWhole
<1>5. TypeOK'
  <2>1. restarts' \in 0..MaxRestarts
    BY TimeAssumption DEF Strong, TypeOK, Restart
  <2>2. op' \in [Clients -> {Idle, Marking} \cup SetOps \cup LookupOps \cup LimitOps]
    BY DEF Restart
  <2>3. clock' \in 0..MaxClock /\ disk' \in Maps \cup {Torn}
    BY <1>1 DEF Strong, TypeOK
  <2> QED BY <1>1, <1>3, <1>4, <2>1, <2>2, <2>3 DEF TypeOK, Restart
<1>6. FileReadable' /\ Stopped'
  BY DEF Strong, FileReadable, Stopped, Restart
<1>7. LiveEntries' \subseteq DOMAIN values'
  BY <1>3, LiveMap DEF LiveEntries
<1>8. \A k \in LiveEntries' : Covered(k)'
  BY <1>1, <1>3, <1>7 DEF Covered, Saved, Shrinks
<1>9. Kept'
  BY <1>8 DEF Kept, Restart
<1> QED BY <1>5, <1>6, <1>9 DEF Strong

LEMMA StrongKeeps ==
    ASSUME Strong, [Next]_vars
    PROVE  Strong'
<1>1. CASE \E c \in Clients : Call(c) \/ ClientStep(c)
  BY <1>1, CallKeeps, StoreKeeps, LookupKeeps, SetLimitKeeps, MarkDirtyKeeps DEF ClientStep
<1>2. CASE WriterStep \/ TimerRuns
  BY <1>2, WaitingKeeps, CopyKeeps, FileStepsKeep, FlushEndKeeps DEF WriterStep, Flush
<1>3. CASE Close \/ Closed
  BY <1>3, CloseKeeps
<1>4. CASE Tick
  BY <1>4, TickKeeps
<1>5. CASE Restart
  BY <1>5, RestartKeeps
<1>6. CASE UNCHANGED vars
  BY <1>6 DEF Strong, TypeOK, FileReadable, Stopped, Kept, InCopy, InLastCopy, Covered, Pending,
              Saved, LiveEntries, vars, clients, memory, thread, files
<1> QED
  BY <1>1, <1>2, <1>3, <1>4, <1>5, <1>6 DEF Next

-----------------------------------------------------------------------------

LEMMA StrongInvariance == Spec => []Strong
BY Initially, StrongKeeps, PTL DEF Spec

\* In every reachable state the cache keeps to its limit, its file can be read,
\* the writer stops once, and what the copy of a flush lacks has been announced
\* since or came too late (cache.go:126-225, 250-279).
THEOREM CacheInvariance == Spec => []CacheInv
BY StrongInvariance, StrongIs, PTL

\* No write is forgotten: a live entry is in the file, or a flush that will save
\* it is under way or announced, unless a flush failed or the entry came after
\* the last copy (cache.go:183-225, 250-255).
THEOREM WritesKept == Spec => []NoForgottenWrite
BY StrongInvariance, StrongIs, PTL

\* Once close() has returned no step changes the file (cache.go:268-279).
THEOREM FileLeftAlone == Spec => QuietAfterClose
<1>1. ASSUME Stopped, [Next]_vars
      PROVE  [closing = "returned" => UNCHANGED disk]_vars
  <2> SUFFICES ASSUME closing = "returned", Next
               PROVE  UNCHANGED disk
    BY <1>1
  <2>1. writer = "exited"
    BY <1>1 DEF Stopped
  <2> QED
    BY <2>1 DEF Next, ClientStep, WriterStep, Flush, Call, Store, Lookup, SetLimit, MarkDirty,
                TakeDirty, TimerRuns, TimerFires, TakeStop, Copy, Open, Write, Rename,
                FlushFails, Close, Closed, Tick, Restart, files
<1>2. Strong => Stopped
  BY DEF Strong
<1> QED
  BY <1>1, <1>2, StrongInvariance, PTL DEF Spec, QuietAfterClose
=============================================================================
