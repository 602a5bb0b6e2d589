--------------------------------- MODULE Cache ---------------------------------
(***************************************************************************)
(* CacheService: a cache with a limit on bytes and entries, an index of    *)
(* tags, a single-flight map and stale copies, as its callers see it and   *)
(* as /cache serves it.                                                    *)
(*                                                                         *)
(* Every method runs without interruption; getOrSet() and warm() leave and *)
(* resume when their loader answers, and between the two the key may be    *)
(* set, invalidated or evicted.  Every five minutes, by BGSAVE and at      *)
(* shutdown the cache is written to a snapshot (Persistence.ts), which the *)
(* next process starts from.  A value is the version of its source it      *)
(* was read from; of an expiresAt or serveUntil it matters only whether it *)
(* has passed.  LFU eviction and hit statistics are left out, as are saves *)
(* that overlap.                                                           *)
(***************************************************************************)
EXTENDS Integers, Sequences, FiniteSets

CONSTANTS
    Keys,
    Tags,
    Patterns,       \* the key sets that patterns in use select
    LoadOptions,    \* SetOptions in use with getOrSet() and warm(): [tags, ttl, staleFor]
    WriteOptions,   \* and with set()
    MaxFetches,     \* bound: loader calls under way at a time
    MaxVersion,     \* bound: how often the source changes
    MaxSaves,       \* bound: snapshots begun
    Size(_),        \* the bytes of a version
    MaxSize,
    MaxEntries,
    Strategy,       \* of eviction
    None            \* no entry, no copy, no call, not read yet, no save

\* What the map holds for a key, and a call of a loader.
Entries == [version : Nat, tags : SUBSET Tags, timed : BOOLEAN, expired : BOOLEAN,
            late : BOOLEAN]
Calls == [key : Keys, kind : {"refresh", "cold", "warm"}, opts : LoadOptions,
          version : Nat \cup {None}, late : BOOLEAN]

ASSUME CacheAssumption ==
    /\ \A set \in Patterns : set \subseteq Keys
    /\ \A o \in LoadOptions \cup WriteOptions : /\ o.tags \subseteq Tags
                          /\ o.ttl \in BOOLEAN
                          /\ o.staleFor \in BOOLEAN
    /\ MaxFetches \in Nat
    /\ MaxVersion \in Nat
    /\ MaxSaves \in Nat
    /\ \A v \in 0..MaxVersion : Size(v) \in Nat \ {0}
    /\ MaxSize \in Nat \ {0}
    /\ MaxEntries \in Nat \ {0}
    /\ Strategy \in {"LRU", "FIFO"}
    /\ None \notin Nat \cup Entries \cup Calls

VARIABLES
    cache,      \* entries; order, the next to evict first; tagIndex; used: stats.size
    staleData,  \* key -> the version that may be served past the TTL, or None
    inFlight,   \* the keys with a promise in the single-flight map
    fetch,      \* the loader calls under way
    source,     \* the version a loader would read now
    saved,      \* the latest snapshot: cache, and the floor and skewed it was taken with
    saving,     \* one that is exported and not yet written, or None
    saves,      \* how many were begun
    floor,      \* history: the source's version when the key was last invalidated,
                \* as far as the process, or the snapshot it started from, knows
    skewed      \* history: stats.size is from another moment than the entries

Fetches == 1..MaxFetches

savedVars == <<saved, saving, saves>>
vars == <<cache, staleData, inFlight, fetch, source, savedVars, floor, skewed>>

Empty == [entries |-> [k \in Keys |-> None], order |-> <<>>,
          tagIndex |-> [t \in Tags |-> {}], used |-> 0]

Init ==
    /\ cache = Empty
    /\ staleData = [k \in Keys |-> None]
    /\ inFlight = {}
    /\ fetch = [f \in Fetches |-> None]
    /\ source = 0
    /\ floor = [k \in Keys |-> 0]
    /\ skewed = FALSE
    /\ saved = [cache |-> Empty, floor |-> floor, skewed |-> FALSE]
    /\ saving = None
    /\ saves = 0

-----------------------------------------------------------------------------
(* The methods, as operators on a cache.                                   *)

Cached(c) == {k \in Keys : c.entries[k] # None}

Live(c, k) == k \in Cached(c) /\ ~c.entries[k].expired

\* removeFromTagIndex(): finds the tags in the entry, and does nothing without one.
Untagged(c, k) ==
    IF k \in Cached(c)
    THEN [c EXCEPT !.tagIndex = [t \in Tags |-> IF t \in c.entries[k].tags
                                                THEN @[t] \ {k}
                                                ELSE @[t]]]
    ELSE c

\* The bytes of some entries.
Bytes(c, ks) == Cardinality(UNION {{k} \X (1..Size(c.entries[k].version)) : k \in ks})

\* The members of P in seq, in their order.
Only(seq, P) ==
    LET kept[n \in 0..Len(seq)] ==
          IF n = 0 THEN <<>>
          ELSE IF seq[n] \in P THEN Append(kept[n - 1], seq[n]) ELSE kept[n - 1]
    IN  kept[Len(seq)]

\* delete() of each of some keys: an entry leaves the map before its tags are
\* looked up in it, so the index keeps the key.
Deleted(c, ks) ==
    LET gone == ks \cap Cached(c) IN
    [c EXCEPT !.entries = [k \in Keys |-> IF k \in gone THEN None ELSE @[k]],
              !.order = Only(@, Keys \ gone),
              !.used = @ - Bytes(c, gone)]

Touched(c, k) ==
    IF Strategy = "LRU"
    THEN [c EXCEPT !.order = Append(Only(@, Keys \ {k}), k)]
    ELSE c

\* get(): a hit is touched, an expired entry deleted.
Looked(c, k) ==
    IF k \notin Cached(c) THEN c
    ELSE IF Live(c, k) THEN Touched(c, k) ELSE Deleted(c, {k})

\* evictLRU() and evictFIFO(): from the front, until the bytes asked for are
\* freed and there is room for an entry.
Front(c, n) == {c.order[i] : i \in 1..n}

EvictionsOfOne(c, need) ==
    IF Len(c.order) > 0 /\ Cardinality(Cached(c)) >= MaxEntries THEN 1 ELSE 0
Evictions(c, need) ==
    LET enough == {n \in 0..Len(c.order) :
                     /\ Bytes(c, Front(c, n)) >= need
                     /\ Cardinality(Cached(c)) - n < MaxEntries}
    IN  IF enough = {} THEN Len(c.order)
        ELSE CHOOSE n \in enough : \A m \in enough : n <= m

MakeRoom(c, need) ==
    IF c.used + need > MaxSize \/ Cardinality(Cached(c)) >= MaxEntries
    THEN Deleted(c, Front(c, Evictions(c, need)))
    ELSE c

\* The loop at the end of set(); its mutant gives the tag a new set each time.
IndexedAnew(index, k, tags) == [t \in Tags |-> IF t \in tags THEN {k} ELSE index[t]]
Indexed(index, k, tags) ==
    [t \in Tags |-> IF t \in tags THEN index[t] \cup {k} ELSE index[t]]

\* set(): make room, then take the old entry's bytes and tags off.
Stored(c, k, version, opts, late) ==
    LET room    == MakeRoom(c, Size(version))
        clean   == Untagged(room, k)
        old     == IF k \in Cached(room) THEN Size(room.entries[k].version) ELSE 0
        entry   == [version |-> version, tags |-> opts.tags, timed |-> opts.ttl,
                    expired |-> FALSE, late |-> late]
    IN  [clean EXCEPT
           !.entries[k] = entry,
           !.used = @ - old + Size(version),
           !.order = Append(Only(@, Keys \ {k}), k),
           !.tagIndex = Indexed(@, k, opts.tags)]

-----------------------------------------------------------------------------
(* Reads and writes of one key.                                            *)

\* get() and mget()
Get(k) ==
    /\ cache' = Looked(cache, k)
    /\ UNCHANGED <<staleData, inFlight, fetch, source, savedVars, floor, skewed>>

\* has() does not touch the key.
Has(k) ==
    /\ k \in Cached(cache) /\ ~Live(cache, k)
    /\ cache' = Deleted(cache, {k})
    /\ UNCHANGED <<staleData, inFlight, fetch, source, savedVars, floor, skewed>>

\* set() and mset(): the caller stores what it has just read or written.
Set(k, opts) ==
    /\ cache' = Stored(cache, k, source, opts, FALSE)
    /\ UNCHANGED <<staleData, inFlight, fetch, source, savedVars, floor, skewed>>

Start(f, k, kind, opts) ==
    /\ fetch[f] = None
    /\ \A g \in Fetches : g < f => fetch[g] # None
    /\ fetch' = [fetch EXCEPT ![f] = [key |-> k, kind |-> kind, opts |-> opts,
                                      version |-> None, late |-> FALSE]]

\* getOrSet(): a fresh hit; a stale copy, with a refresh unless a call is under
\* way; that call's promise; or a call of its own.
GetOrSet(k, opts, f) ==
    /\ cache' = Looked(cache, k)
    /\ IF Live(cache, k) \/ k \in inFlight
       THEN UNCHANGED <<fetch, inFlight>>
       ELSE /\ Start(f, k, IF staleData[k] # None THEN "refresh" ELSE "cold", opts)
            /\ inFlight' = inFlight \cup {k}
    /\ UNCHANGED <<staleData, source, savedVars, floor, skewed>>

\* warm(): no single flight.
Warm(k, opts, f) ==
    /\ Start(f, k, "warm", opts)
    /\ UNCHANGED <<cache, staleData, inFlight, source, savedVars, floor, skewed>>

-----------------------------------------------------------------------------
(* The loader of a call: it reads its source, and later answers or fails.  *)

FetchReads(f) ==
    /\ fetch[f] # None
    /\ fetch[f].version = None
    /\ fetch' = [fetch EXCEPT ![f].version = source]
    /\ UNCHANGED <<cache, staleData, inFlight, source, savedVars, floor, skewed>>

\* The stale window is registered by a cold miss; a refresh closes it.
StaleAfter(call) ==
    CASE call.kind = "cold" /\ call.opts.staleFor /\ call.opts.ttl
            -> [staleData EXCEPT ![call.key] = call.version]
      [] call.kind = "refresh" -> [staleData EXCEPT ![call.key] = None]
      [] OTHER -> staleData

InFlightAfter(call) ==
    IF call.kind = "warm" THEN inFlight ELSE inFlight \ {call.key}

FetchSettles(f) ==
    /\ fetch[f] # None
    /\ fetch[f].version # None
    /\ LET call == fetch[f] IN
         /\ cache' = Stored(cache, call.key, call.version, call.opts, call.late)
         /\ staleData' = StaleAfter(call)
         /\ inFlight' = InFlightAfter(call)
    /\ fetch' = [fetch EXCEPT ![f] = None]
    /\ UNCHANGED <<source, savedVars, floor, skewed>>

FetchFailsHeld(f) ==
    /\ fetch[f] # None
    /\ fetch[f].kind # "refresh"
    /\ fetch' = [fetch EXCEPT ![f] = None]
    /\ UNCHANGED <<cache, staleData, inFlight, source, savedVars, floor, skewed>>

\* The rejection reaches the callers that share the promise.
FetchFails(f) ==
    /\ fetch[f] # None
    /\ fetch[f].kind # "refresh"
    /\ fetch' = [fetch EXCEPT ![f] = None]
    /\ inFlight' = InFlightAfter(fetch[f])
    /\ UNCHANGED <<cache, staleData, source, savedVars, floor, skewed>>

-----------------------------------------------------------------------------
(* Invalidation.                                                           *)

Invalidate(ks) ==
    /\ floor' = [k \in Keys |-> IF k \in ks THEN source ELSE floor[k]]
    /\ fetch' = [f \in Fetches |->
                   IF fetch[f] # None /\ fetch[f].key \in ks /\ fetch[f].version # None
                   THEN [fetch[f] EXCEPT !.late = TRUE]
                   ELSE fetch[f]]
    /\ UNCHANGED <<staleData, inFlight, source, savedVars>>

Delete(k) ==
    /\ cache' = Deleted(cache, {k})
    /\ Invalidate({k})
    /\ UNCHANGED skewed

\* invalidateByPattern(): the keys of the map that match.
InvalidateByPattern(ks) ==
    /\ cache' = Deleted(cache, ks)
    /\ Invalidate(ks)
    /\ UNCHANGED skewed

\* invalidateByTag(): the keys of the index; the promise is about the entries
\* that bear the tag.
InvalidateByTag(t) ==
    /\ cache' = [Deleted(cache, cache.tagIndex[t]) EXCEPT !.tagIndex[t] = {}]
    /\ Invalidate({k \in Cached(cache) : t \in cache.entries[k].tags})
    /\ UNCHANGED skewed

\* clear() sets the total to 0.
Clear ==
    /\ cache' = Empty
    /\ Invalidate(Keys)
    /\ skewed' = FALSE

-----------------------------------------------------------------------------
(* Time, the sweep every five seconds, and the process.                    *)

SourceChanges ==
    /\ source < MaxVersion
    /\ source' = source + 1
    /\ UNCHANGED <<cache, staleData, inFlight, fetch, savedVars, floor, skewed>>

EntryExpires(k) ==
    /\ Live(cache, k)
    /\ cache.entries[k].timed
    /\ cache' = [cache EXCEPT !.entries[k].expired = TRUE]
    /\ UNCHANGED <<staleData, inFlight, fetch, source, savedVars, floor, skewed>>

\* serveUntil passes: seen only when there is no fresh entry.
StaleCloses(k) ==
    /\ staleData[k] # None
    /\ ~Live(cache, k)
    /\ staleData' = [staleData EXCEPT ![k] = None]
    /\ UNCHANGED <<cache, inFlight, fetch, source, savedVars, floor, skewed>>

\* startExpiryChecker()
Sweep ==
    LET gone == {k \in Cached(cache) : ~Live(cache, k)} IN
    /\ gone # {}
    /\ cache' = Deleted(cache, gone)
    /\ UNCHANGED <<staleData, inFlight, fetch, source, savedVars, floor, skewed>>

-----------------------------------------------------------------------------
(* Snapshots, crashes and restarts.                                        *)

\* save(): export() copies the entries and the index, and refers to the statistics;
SaveExports ==
    /\ saves < MaxSaves   \* the bound
    /\ saving = None
    /\ saving' = [cache |-> cache, floor |-> floor, skewed |-> skewed]
    /\ saves' = saves + 1
    /\ UNCHANGED <<cache, staleData, inFlight, fetch, source, saved, floor, skewed>>

\* they are made into text when the transaction has begun.
SaveWrites ==
    /\ saving # None
    /\ saved' = [cache |-> [saving.cache EXCEPT !.used = cache.used],
                 floor |-> saving.floor,
                 skewed |-> saving.skewed \/ saving.cache.used # cache.used]
    /\ saving' = None
    /\ UNCHANGED <<cache, staleData, inFlight, fetch, source, saves, floor, skewed>>

\* A failed save is only logged.
SaveFails ==
    /\ saving # None
    /\ saving' = None
    /\ UNCHANGED <<cache, staleData, inFlight, fetch, source, saved, saves, floor, skewed>>

\* The process ends, after a last save or without one, and restore() and import()
\* start another: entries, index and total return, promises and stale copies do not;
\* nothing does if restore() fails.  The mutants forget the index, and the total.
Starts(c) ==
    /\ cache' = c
    /\ floor' = saved.floor
    /\ skewed' = (saved.skewed /\ c # Empty)
    /\ staleData' = [k \in Keys |-> None]
    /\ inFlight' = {}
    /\ fetch' = [f \in Fetches |-> None]
    /\ saving' = None
    /\ UNCHANGED <<source, saved, saves>>

RestartUnindexed == Starts([saved.cache EXCEPT !.tagIndex = [t \in Tags |-> {}]])
RestartUncounted == Starts([saved.cache EXCEPT !.used = 0])
Restart == Starts(saved.cache) \/ Starts(Empty)

\* A refresh that fails rejects a promise nobody holds, which ends the process.
RefreshFails(f) ==
    /\ fetch[f] # None
    /\ fetch[f].kind = "refresh"
    /\ Restart

Loader(f) == FetchReads(f) \/ FetchSettles(f) \/ FetchFails(f) \/ RefreshFails(f)

\* What /cache serves.  /:key comes first, so POST /mget and /mset, GET /_keys
\* and DELETE /_all are taken for keys of these names and never reach mget(),
\* mset(), keys() and clear().
Requests ==
    \/ \E k \in Keys :
         \/ Get(k) \/ Has(k) \/ Delete(k)
         \/ \E opts \in WriteOptions : Set(k, opts)
    \/ \E set \in Patterns : InvalidateByPattern(set)
    \/ \E t \in Tags : InvalidateByTag(t)

Next ==
    \/ Requests
    \/ \E k \in Keys, opts \in LoadOptions, f \in Fetches :
         GetOrSet(k, opts, f) \/ Warm(k, opts, f)
    \/ \E f \in Fetches : Loader(f)
    \/ \E k \in Keys : EntryExpires(k) \/ StaleCloses(k)
    \/ Clear \/ SourceChanges \/ Sweep
    \/ SaveExports \/ SaveWrites \/ SaveFails \/ Restart

Spec == Init /\ [][Next]_vars

-----------------------------------------------------------------------------
(* The order of eviction and the entries agree, and so do the sizes; the   *)
(* limits hold but for a single value larger than the cache.  What depends *)
(* on sizes does not hold of a process that started from a snapshot with   *)
(* the statistics of another moment, until it clears the cache.            *)
SizeExact ==
    LET cached == Cached(cache) IN
    /\ Len(cache.order) = Cardinality(cached)
    /\ Front(cache, Len(cache.order)) = cached
    /\ Cardinality(cached) <= MaxEntries
    /\ ~skewed => /\ cache.used = Bytes(cache, cached)
                  /\ cache.used > MaxSize => Cardinality(cached) = 1

(* At most one call of getOrSet() per key runs its loader, and a key is    *)
(* held in the single-flight map exactly while one does.                   *)
SingleFlight ==
    \A k \in Keys :
        LET calls == {f \in Fetches : /\ fetch[f] # None
                                      /\ fetch[f].key = k
                                      /\ fetch[f].kind # "warm"}
        IN  Cardinality(calls) = IF k \in inFlight THEN 1 ELSE 0

(* An entry is as new as the last invalidation of its key, by delete, tag, *)
(* pattern or clear, unless the call that stored it had read its source    *)
(* before that invalidation: the tag index, never cleaned by delete() and  *)
(* eviction, still finds every entry that bears a tag, also those that a   *)
(* snapshot brought back.  Invalidations that are more recent than the     *)
(* snapshot are forgotten with the process (RestartKeepsInvalidations).    *)
InvalidationHolds ==
    \A k \in Cached(cache) :
        cache.entries[k].late \/ cache.entries[k].version >= floor[k]

(* What getOrSet() answers from the stale copy is as new: false in the     *)
(* code, which keeps the copy when the key is invalidated.                 *)
StaleCopyInvalidated ==
    \A k \in Keys : staleData[k] # None /\ ~Live(cache, k) => staleData[k] >= floor[k]

(* A restart brings back no entry that was invalidated: false in the code, *)
(* which restores the latest snapshot as it is.                            *)
RestartKeepsInvalidations ==
    [][Restart => \A k \in Cached(cache') :
                    cache'.entries[k].late \/ cache'.entries[k].version >= floor[k]]_vars

(* stats.size is the bytes of the entries, also after a restart: false in  *)
(* the code, where a snapshot holds the statistics of a later moment.      *)
SizeIsBytes == cache.used = Bytes(cache, Cached(cache))
=============================================================================
