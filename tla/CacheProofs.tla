------------------------------ MODULE CacheProofs ------------------------------
(***************************************************************************)
(* Theorems about Cache, for any keys, tags, options, sizes and limits.    *)
(* The first concerns the single-flight map, the second what invalidation  *)
(* means for calls of loaders under way, for a tag index that delete() and *)
(* eviction never clean, and for a snapshot that brings both back; the     *)
(* third the sizes and the limits, through evictions of any length.        *)
(***************************************************************************)
EXTENDS Cache, FiniteSetTheorems, SequenceTheorems, WellFoundedInduction, TLAPS

\* The map of a cache and its tag index; the order and the bytes play no part.
IsCache(c) ==
    c \in [entries : [Keys -> Entries \cup {None}], order : {c.order},
           tagIndex : [Tags -> SUBSET Keys], used : {c.used}]

CacheTypes ==
    /\ IsCache(cache)
    /\ fetch \in [Fetches -> Calls \cup {None}]
    /\ inFlight \subseteq Keys
    /\ source \in Nat
    /\ floor \in [Keys -> Nat]

\* The tag index finds every entry that bears a tag; it may find others too.
Indexes(c) == \A k \in Cached(c), t \in Tags : t \in c.entries[k].tags => k \in c.tagIndex[t]

\* Every version that is stored, or was read to be stored, is new enough.
NewEnough(v, late, k) == late \/ v >= floor[k]

FreshInv ==
    /\ \A k \in Keys : floor[k] <= source
    /\ Indexes(cache)
    /\ \A k \in Cached(cache) : NewEnough(cache.entries[k].version, cache.entries[k].late, k)
    /\ \A f \in Fetches : fetch[f] # None /\ fetch[f].version # None =>
         NewEnough(fetch[f].version, fetch[f].late, fetch[f].key)

\* The calls of getOrSet() for k under way.
CallsFor(k) == {f \in Fetches : fetch[f] # None /\ fetch[f].key = k /\ fetch[f].kind # "warm"}

\* A snapshot is as good as the cache was.
Good(snapshot) ==
    /\ IsCache(snapshot.cache) /\ Indexes(snapshot.cache)
    /\ snapshot.floor \in [Keys -> Nat] /\ \A k \in Keys : snapshot.floor[k] <= source
    /\ \A k \in Cached(snapshot.cache) :
         \/ snapshot.cache.entries[k].late
         \/ snapshot.cache.entries[k].version >= snapshot.floor[k]

SavedInv == Good(saved) /\ (saving # None => Good(saving))

FlightInv ==
    \A k \in Keys : /\ k \in inFlight => \E f \in Fetches : CallsFor(k) = {f}
                    /\ k \notin inFlight => CallsFor(k) = {}

-----------------------------------------------------------------------------
(* What the methods do to the map and the index.                           *)

LEMMA NoneIsNothing == None \notin Nat /\ None \notin Entries /\ None \notin Calls
BY CacheAssumption

\* c and d hold the same where d holds something.
Within(d, c) ==
    /\ IsCache(d)
    /\ \A k \in Keys : d.entries[k] \in {None, c.entries[k]}
    /\ d.tagIndex = c.tagIndex

LEMMA DeletedMeans ==
    ASSUME NEW c, IsCache(c), NEW ks
    PROVE  /\ Within(Deleted(c, ks), c)
           /\ \A k \in Keys : Deleted(c, ks).entries[k] =
                IF k \in ks THEN None ELSE c.entries[k]
<1> DEFINE gone == ks \cap Cached(c)
           en == [k \in Keys |-> IF k \in gone THEN None ELSE c.entries[k]]
           or == Only(c.order, Keys \ gone)
           us == c.used - Bytes(c, gone)
           d == [c EXCEPT !.entries = en, !.order = or, !.used = us]
<1>1. d = Deleted(c, ks)
  BY DEF Deleted
<1>2. en \in [Keys -> Entries \cup {None}]
  BY DEF IsCache
<1>3. \A k \in Keys : en[k] = IF k \in ks THEN None ELSE c.entries[k]
  BY DEF Cached
<1> HIDE DEF en, or, us
<1>4. d.entries = en /\ d.tagIndex = c.tagIndex /\ IsCache(d)
  BY <1>2 DEF IsCache
<1> HIDE DEF d
<1> QED BY <1>1, <1>3, <1>4 DEF Within

\* The deleted keys leave the order, their bytes the total.
TakenOff(c, d, gone) == d.order = Only(c.order, Keys \ gone) /\ d.used = c.used - Bytes(c, gone)

LEMMA DeletedTakesOff ==
    ASSUME NEW c, IsCache(c), NEW ks PROVE TakenOff(c, Deleted(c, ks), ks \cap Cached(c))
<1> DEFINE gone == ks \cap Cached(c)
           en == [k \in Keys |-> IF k \in gone THEN None ELSE c.entries[k]]
           or == Only(c.order, Keys \ gone)
           us == c.used - Bytes(c, gone)
           d == [c EXCEPT !.entries = en, !.order = or, !.used = us]
<1>1. d = Deleted(c, ks)
  BY DEF Deleted
<1> HIDE DEF en, or, us
<1>2. d.order = or /\ d.used = us
  BY DEF IsCache
<1> HIDE DEF d
<1> QED BY <1>1, <1>2 DEF TakenOff, or, us

LEMMA TouchedMeans ==
    ASSUME NEW c, IsCache(c), NEW k
    PROVE  /\ Within(Touched(c, k), c)
           /\ Touched(c, k).entries = c.entries /\ Touched(c, k).used = c.used
           /\ Touched(c, k).order \in {c.order, Append(Only(c.order, Keys \ {k}), k)}
<1> DEFINE or == Append(Only(c.order, Keys \ {k}), k)
           d == [c EXCEPT !.order = or]
<1>1. Touched(c, k) = d \/ Touched(c, k) = c
  BY DEF Touched
<1> HIDE DEF or
<1>2. /\ d.entries = c.entries /\ d.tagIndex = c.tagIndex /\ IsCache(d)
      /\ d.order = or /\ d.used = c.used
  BY DEF IsCache
<1> HIDE DEF d
<1> QED BY <1>1, <1>2 DEF Within, or

LEMMA LookedMeans == ASSUME NEW c, IsCache(c), NEW k PROVE Within(Looked(c, k), c)
BY DeletedMeans, TouchedMeans DEF Looked, Within

LEMMA MakeRoomMeans == ASSUME NEW c, IsCache(c), NEW n PROVE Within(MakeRoom(c, n), c)
BY DeletedMeans DEF MakeRoom, Within

\* What removeFromTagIndex() leaves: the index without k where k's entry says.
LEMMA UntaggedMeans ==
    ASSUME NEW c, IsCache(c), NEW k
    PROVE  /\ IsCache(Untagged(c, k))
           /\ Untagged(c, k).entries = c.entries
           /\ Untagged(c, k).order = c.order /\ Untagged(c, k).used = c.used
           /\ \A t \in Tags, x \in Keys : x # k /\ x \in c.tagIndex[t]
                                          => x \in Untagged(c, k).tagIndex[t]
<1> DEFINE ti == [t \in Tags |-> IF t \in c.entries[k].tags THEN c.tagIndex[t] \ {k}
                                                           ELSE c.tagIndex[t]]
           d == [c EXCEPT !.tagIndex = ti]
<1>1. Untagged(c, k) = d \/ Untagged(c, k) = c
  BY DEF Untagged
<1>2. /\ ti \in [Tags -> SUBSET Keys]
      /\ \A t \in Tags, x \in Keys : x # k /\ x \in c.tagIndex[t] => x \in ti[t]
  BY DEF IsCache
<1> HIDE DEF ti
<1>3. /\ d.entries = c.entries /\ d.tagIndex = ti /\ IsCache(d)
      /\ d.order = c.order /\ d.used = c.used
  BY <1>2 DEF IsCache
<1> HIDE DEF d
<1> QED BY <1>1, <1>2, <1>3

\* d is c with one more entry, the latest, or another one for k, of the version v.
Overwrites(c, d, k, v) ==
    /\ Cached(d) = Cached(c) \cup {k} /\ d.entries[k].version = v
    /\ \A x \in Keys : x # k => d.entries[x] = c.entries[x]
    /\ d.order = Append(Only(c.order, Keys \ {k}), k)
    /\ d.used = c.used - (IF k \in Cached(c) THEN Size(c.entries[k].version) ELSE 0) + Size(v)

\* set() stores its entry, indexed under its tags, and may evict others.
LEMMA StoredMeans ==
    ASSUME NEW c, IsCache(c), Indexes(c), NEW k \in Keys, NEW v \in Nat,
           NEW opts \in LoadOptions \cup WriteOptions, NEW late \in BOOLEAN
    PROVE  /\ IsCache(Stored(c, k, v, opts, late))
           /\ Indexes(Stored(c, k, v, opts, late))
           /\ Stored(c, k, v, opts, late).entries[k].version = v
           /\ Stored(c, k, v, opts, late).entries[k].late = late
           /\ \A x \in Keys : x # k =>
                Stored(c, k, v, opts, late).entries[x] \in {None, c.entries[x]}
           /\ Overwrites(MakeRoom(c, Size(v)), Stored(c, k, v, opts, late), k, v)
<1> DEFINE room == MakeRoom(c, Size(v))
           clean == Untagged(room, k)
           old == IF k \in Cached(room) THEN Size(room.entries[k].version) ELSE 0
           entry == [version |-> v, tags |-> opts.tags, timed |-> opts.ttl,
                     expired |-> FALSE, late |-> late]
           en == [clean.entries EXCEPT ![k] = entry]
           us == clean.used - old + Size(v)
           or == Append(Only(clean.order, Keys \ {k}), k)
           ti == Indexed(clean.tagIndex, k, opts.tags)
           d == [clean EXCEPT !.entries = en, !.used = us, !.order = or, !.tagIndex = ti]
<1>1. Stored(c, k, v, opts, late) =
        [clean EXCEPT !.entries[k] = entry, !.used = us, !.order = or, !.tagIndex = ti]
  BY DEF Stored
<1>2. opts.tags \subseteq Tags /\ opts.ttl \in BOOLEAN
  BY CacheAssumption
<1>3. entry \in Entries /\ entry.version = v /\ entry.late = late /\ entry.tags = opts.tags
  BY <1>2 DEF Entries
<1>4. Within(room, c)
  BY MakeRoomMeans
<1> HIDE DEF room, entry
<1>5. /\ IsCache(clean) /\ clean.entries = room.entries
      /\ clean.order = room.order /\ clean.used = room.used
      /\ \A t \in Tags, x \in Keys : x # k /\ x \in room.tagIndex[t] => x \in clean.tagIndex[t]
  BY <1>4, UntaggedMeans DEF Within
<1> HIDE DEF clean
<1>6. /\ en \in [Keys -> Entries \cup {None}] /\ en[k] = entry
      /\ \A x \in Keys : x # k => en[x] = room.entries[x]
  BY <1>3, <1>5 DEF IsCache
<1>7. /\ ti \in [Tags -> SUBSET Keys]
      /\ \A t \in Tags : clean.tagIndex[t] \subseteq ti[t]
      /\ \A t \in Tags : t \in opts.tags => k \in ti[t]
  BY <1>5 DEF IsCache, Indexed
<1> HIDE DEF us, or, ti, old
<1>8. Stored(c, k, v, opts, late) = d
  BY <1>1, <1>5 DEF IsCache
<1> HIDE DEF en
<1>9. d.entries = en /\ d.tagIndex = ti /\ d.used = us /\ d.order = or /\ IsCache(d)
  BY <1>5, <1>6, <1>7 DEF IsCache
<1> HIDE DEF d
<1>10. Indexes(d)
  <2> SUFFICES ASSUME NEW x \in Cached(d), NEW t \in Tags, t \in d.entries[x].tags
               PROVE  x \in d.tagIndex[t]
    BY DEF Indexes
  <2>1. x \in Keys /\ en[x] # None
    BY <1>9 DEF Cached
  <2>2. CASE x = k
    BY <1>3, <1>6, <1>7, <1>9, <2>2
  <2>3. CASE x # k
    <3>1. en[x] = c.entries[x]
      BY <1>4, <1>6, <2>1, <2>3 DEF Within
    <3>2. x \in c.tagIndex[t]
      BY <1>9, <2>1, <3>1 DEF Indexes, Cached
    <3>3. x \in clean.tagIndex[t]
      BY <1>4, <1>5, <2>1, <2>3, <3>2 DEF Within
    <3> QED BY <1>7, <1>9, <3>3
  <2> QED BY <2>2, <2>3
<1>11. \A x \in Keys : x # k => d.entries[x] \in {None, c.entries[x]}
  BY <1>4, <1>6, <1>9 DEF Within
<1>12. Overwrites(room, d, k, v)
  <2>1. Cached(d) = Cached(room) \cup {k}
    BY <1>3, <1>6, <1>9, NoneIsNothing DEF Cached
  <2>2. d.order = Append(Only(room.order, Keys \ {k}), k) /\ d.used = room.used - old + Size(v)
    BY <1>5, <1>9 DEF or, us
  <2> QED BY <1>3, <1>6, <1>9, <2>1, <2>2 DEF Overwrites, old
<1> QED BY <1>3, <1>6, <1>8, <1>9, <1>10, <1>11, <1>12 DEF room

LEMMA EmptyMeansNothing == IsCache(Empty) /\ Cached(Empty) = {} /\ Indexes(Empty)
BY DEF Empty, IsCache, Cached, Indexes

\* Entries that go leave an index that is good for the others.
LEMMA WithinIndexes ==
    ASSUME NEW c, NEW d, IsCache(c), Indexes(c), Within(d, c) PROVE Indexes(d)
BY DEF Within, Indexes, Cached

-----------------------------------------------------------------------------
(* The loader calls.                                                       *)

\* A call that starts holds nothing yet, and is the only change.
LEMMA StartMeans ==
    ASSUME CacheTypes, NEW f \in Fetches, NEW k \in Keys, NEW opts \in LoadOptions,
           NEW kind \in {"refresh", "cold", "warm"}, Start(f, k, kind, opts)
    PROVE  /\ fetch' \in [Fetches -> Calls \cup {None}]
           /\ fetch[f] = None /\ fetch'[f] \in Calls
           /\ fetch'[f].key = k /\ fetch'[f].kind = kind /\ fetch'[f].version = None
           /\ \A g \in Fetches : g # f => fetch'[g] = fetch[g]
<1> DEFINE call == [key |-> k, kind |-> kind, opts |-> opts, version |-> None, late |-> FALSE]
<1>1. call \in Calls /\ call.key = k /\ call.kind = kind /\ call.version = None
  BY DEF Calls
<1>2. fetch[f] = None /\ fetch' = [fetch EXCEPT ![f] = call]
  BY DEF Start
<1> HIDE DEF call
<1> QED BY <1>1, <1>2 DEF CacheTypes

\* A call that reads its source goes on as it was.
LEMMA ReadsMeans ==
    ASSUME CacheTypes, NEW f \in Fetches, FetchReads(f)
    PROVE  /\ fetch' \in [Fetches -> Calls \cup {None}]
           /\ fetch[f] # None /\ fetch'[f] # None
           /\ fetch'[f].key = fetch[f].key /\ fetch'[f].kind = fetch[f].kind
           /\ fetch'[f].version = source
           /\ \A g \in Fetches : g # f => fetch'[g] = fetch[g]
<1> DEFINE call == [fetch[f] EXCEPT !.version = source]
<1>1. fetch[f] \in Calls /\ source \in Nat
  BY DEF FetchReads, CacheTypes
<1>2. /\ call \in Calls /\ call.key = fetch[f].key /\ call.kind = fetch[f].kind
      /\ call.version = source
  BY <1>1 DEF Calls
<1>3. fetch' = [fetch EXCEPT ![f] = call]
  BY DEF FetchReads
<1> HIDE DEF call
<1> QED BY <1>1, <1>2, <1>3, NoneIsNothing DEF CacheTypes

\* Invalidation marks the calls that have read, and ends none.
LEMMA InvalidateMeans ==
    ASSUME CacheTypes, NEW ks, Invalidate(ks)
    PROVE  /\ fetch' \in [Fetches -> Calls \cup {None}]
           /\ floor' \in [Keys -> Nat]
           /\ \A k \in Keys : floor'[k] = IF k \in ks THEN source ELSE floor[k]
           /\ \A f \in Fetches : fetch'[f] = None <=> fetch[f] = None
           /\ \A f \in Fetches : fetch[f] # None =>
                /\ fetch'[f].key = fetch[f].key /\ fetch'[f].kind = fetch[f].kind
                /\ fetch'[f].version = fetch[f].version
                /\ fetch'[f].late = (fetch[f].late
                                     \/ (fetch[f].key \in ks /\ fetch[f].version # None))
<1>1. ASSUME NEW f \in Fetches
      PROVE  /\ fetch'[f] \in Calls \cup {None}
             /\ fetch'[f] = None <=> fetch[f] = None
             /\ fetch[f] # None =>
                  /\ fetch'[f].key = fetch[f].key /\ fetch'[f].kind = fetch[f].kind
                  /\ fetch'[f].version = fetch[f].version
                  /\ fetch'[f].late = (fetch[f].late
                                       \/ (fetch[f].key \in ks /\ fetch[f].version # None))
  <2> DEFINE call == fetch[f]
             marked == [call EXCEPT !.late = TRUE]
  <2>1. fetch'[f] = IF call # None /\ call.key \in ks /\ call.version # None
                    THEN marked ELSE call
    BY DEF Invalidate
  <2>2. CASE call = None
    BY <2>1, <2>2
  <2>3. CASE call # None
    <3>1. call \in Calls
      BY <2>3 DEF CacheTypes
    <3>2. /\ marked \in Calls /\ marked.key = call.key /\ marked.kind = call.kind
          /\ marked.version = call.version /\ marked.late = TRUE /\ call.late \in BOOLEAN
      BY <3>1 DEF Calls
    <3> HIDE DEF marked
    <3> QED BY <2>1, <2>3, <3>1, <3>2, NoneIsNothing
  <2> QED BY <2>2, <2>3
<1>2. fetch' = [f \in Fetches |-> fetch'[f]]
  BY DEF Invalidate
<1>3. /\ floor' \in [Keys -> Nat]
      /\ \A k \in Keys : floor'[k] = IF k \in ks THEN source ELSE floor[k]
  BY DEF Invalidate, CacheTypes
<1> QED BY <1>1, <1>2, <1>3

-----------------------------------------------------------------------------
CacheInv == CacheTypes /\ FreshInv /\ FlightInv /\ SavedInv

LEMMA InitCache == Init => CacheInv
<1> SUFFICES ASSUME Init PROVE CacheInv
  OBVIOUS
<1>1. CacheTypes
  BY EmptyMeansNothing DEF Init, CacheTypes
<1>2. FreshInv
  BY EmptyMeansNothing DEF Init, FreshInv
<1>3. FlightInv
  BY DEF Init, FlightInv, CallsFor
<1>4. SavedInv
  BY EmptyMeansNothing DEF Init, SavedInv, Good
<1> QED BY <1>1, <1>2, <1>3, <1>4 DEF CacheInv

(* Steps that invalidate nothing: an entry or a call with a version is as  *)
(* it was, or is new enough.                                               *)
LEMMA FreshStep ==
    ASSUME CacheTypes, FreshInv, CacheTypes', source' >= source, floor' = floor,
           Indexes(cache'),
           \A k \in Cached(cache') :
             \/ /\ k \in Cached(cache)
                /\ cache'.entries[k].version = cache.entries[k].version
                /\ cache'.entries[k].late = cache.entries[k].late
             \/ NewEnough(cache'.entries[k].version, cache'.entries[k].late, k),
           \A f \in Fetches : fetch'[f] # None /\ fetch'[f].version # None =>
             fetch'[f] = fetch[f] \/ fetch'[f].version = source
    PROVE  FreshInv'
<1>1. \A k \in Keys : floor'[k] <= source'
  BY DEF CacheTypes, FreshInv
<1>2. \A k \in Cached(cache') : NewEnough(cache.entries[k].version, cache.entries[k].late, k)'
  BY DEF FreshInv, NewEnough
<1>3. ASSUME NEW f \in Fetches, fetch'[f] # None, fetch'[f].version # None
      PROVE  NewEnough(fetch[f].version, fetch[f].late, fetch[f].key)'
  <2>1. CASE fetch'[f] = fetch[f]
    BY <1>3, <2>1 DEF FreshInv, NewEnough
  <2>2. CASE fetch'[f].version = source
    <3>1. fetch'[f] \in Calls
      BY <1>3 DEF CacheTypes
    <3>2. fetch'[f].key \in Keys
      BY <3>1 DEF Calls
    <3> QED BY <2>2, <3>2 DEF FreshInv, NewEnough
  <2> QED BY <1>3, <2>1, <2>2
<1> QED BY <1>1, <1>2, <1>3 DEF FreshInv

\* What only touches, deletes or evicts leaves nothing that is not as it was.
LEMMA WithinSame ==
    ASSUME NEW c, NEW d, Within(d, c)
    PROVE  \A k \in Cached(d) : /\ k \in Cached(c)
                                /\ d.entries[k].version = c.entries[k].version
                                /\ d.entries[k].late = c.entries[k].late
BY DEF Within, Cached

LEMMA OnlyEntriesGo ==
    ASSUME CacheTypes, FreshInv, Within(cache', cache), UNCHANGED <<fetch, inFlight, source, floor>>
    PROVE  CacheTypes' /\ FreshInv'
<1>1. CacheTypes'
  BY DEF CacheTypes, Within
<1>2. Indexes(cache')
  BY WithinIndexes DEF FreshInv, CacheTypes
<1>3. source' >= source
  BY DEF CacheTypes
<1> QED BY <1>1, <1>2, <1>3, WithinSame, FreshStep

\* The steps that raise the floor of some keys.
LEMMA InvalidationStep ==
    ASSUME CacheTypes, FreshInv, NEW ks, Invalidate(ks), IsCache(cache'), Indexes(cache'),
           \A k \in Cached(cache') : /\ k \in Cached(cache) /\ k \notin ks
                                     /\ cache'.entries[k] = cache.entries[k]
    PROVE  CacheTypes' /\ FreshInv'
<1>1. /\ fetch' \in [Fetches -> Calls \cup {None}]
      /\ floor' \in [Keys -> Nat] /\ source' = source /\ inFlight' = inFlight
      /\ \A k \in Keys : floor'[k] = IF k \in ks THEN source ELSE floor[k]
      /\ \A f \in Fetches : fetch'[f] = None <=> fetch[f] = None
      /\ \A f \in Fetches : fetch[f] # None =>
           /\ fetch'[f].key = fetch[f].key /\ fetch'[f].kind = fetch[f].kind
           /\ fetch'[f].version = fetch[f].version
           /\ fetch'[f].late = (fetch[f].late
                                \/ (fetch[f].key \in ks /\ fetch[f].version # None))
  BY InvalidateMeans DEF Invalidate
<1>2. CacheTypes'
  BY <1>1 DEF CacheTypes
<1>3. \A k \in Keys : floor'[k] <= source'
  BY <1>1 DEF FreshInv, CacheTypes
<1>4. \A k \in Cached(cache') : NewEnough(cache.entries[k].version, cache.entries[k].late, k)'
  BY <1>1 DEF FreshInv, NewEnough, Cached
<1>5. ASSUME NEW f \in Fetches, fetch'[f] # None, fetch'[f].version # None
      PROVE  NewEnough(fetch[f].version, fetch[f].late, fetch[f].key)'
  <2>1. /\ fetch[f] # None /\ fetch[f].version # None
        /\ fetch'[f].key = fetch[f].key /\ fetch'[f].version = fetch[f].version
        /\ fetch'[f].late = (fetch[f].late \/ fetch[f].key \in ks)
    BY <1>1, <1>5
  <2>2. fetch[f] \in Calls
    BY <2>1 DEF CacheTypes
  <2>3. fetch[f].key \in Keys
    BY <2>2 DEF Calls
  <2>4. NewEnough(fetch[f].version, fetch[f].late, fetch[f].key)
    BY <2>1 DEF FreshInv
  <2> QED BY <1>1, <2>1, <2>3, <2>4 DEF NewEnough
<1> QED BY <1>2, <1>3, <1>4, <1>5 DEF FreshInv

LEMMA DeletesAndRaises ==
    ASSUME CacheTypes, FreshInv, NEW ks \in SUBSET Keys, cache' = Deleted(cache, ks),
           Invalidate(ks)
    PROVE  CacheTypes' /\ FreshInv'
<1>1. /\ Within(cache', cache) /\ Indexes(cache') /\ IsCache(cache')
      /\ \A k \in Keys : cache'.entries[k] = IF k \in ks THEN None ELSE cache.entries[k]
  BY DeletedMeans, WithinIndexes DEF CacheTypes, FreshInv, Within
<1> QED BY <1>1, InvalidationStep DEF Cached

\* invalidateByTag(): the index knows all the entries that bear the tag.
LEMMA TagStep ==
    ASSUME CacheTypes, FreshInv, NEW t \in Tags, InvalidateByTag(t)
    PROVE  CacheTypes' /\ FreshInv'
<1> DEFINE d == Deleted(cache, cache.tagIndex[t])
           ti == [d.tagIndex EXCEPT ![t] = {}]
           e == [d EXCEPT !.tagIndex = ti]
           ks == {k \in Cached(cache) : t \in cache.entries[k].tags}
<1>1. /\ Within(d, cache) /\ Indexes(d) /\ IsCache(d)
      /\ \A k \in Keys : d.entries[k] = IF k \in cache.tagIndex[t] THEN None
                                                                  ELSE cache.entries[k]
  BY DeletedMeans, WithinIndexes DEF CacheTypes, FreshInv, Within
<1>2. cache' = e /\ Invalidate(ks)
  BY DEF InvalidateByTag
<1> HIDE DEF d
<1>3. /\ ti \in [Tags -> SUBSET Keys] /\ \A u \in Tags : u # t => ti[u] = d.tagIndex[u]
  BY <1>1 DEF IsCache
<1> HIDE DEF ti
<1>4. e.entries = d.entries /\ e.tagIndex = ti /\ IsCache(e)
  BY <1>1, <1>3 DEF IsCache
<1> HIDE DEF e
<1>5. \A k \in Cached(e) : /\ k \in Cached(cache) /\ k \notin ks
                           /\ e.entries[k] = cache.entries[k]
  BY <1>1, <1>4 DEF Cached, FreshInv, Indexes
<1>6. Indexes(e)
  BY <1>1, <1>3, <1>4, <1>5 DEF Indexes, Cached
<1> QED BY <1>2, <1>4, <1>5, <1>6, InvalidationStep

\* set(), and a loader's answer that is stored: the entry is new enough.
LEMMA StoresFresh ==
    ASSUME CacheTypes, FreshInv, NEW k \in Keys, NEW v \in Nat, NEW late \in BOOLEAN,
           NEW opts \in LoadOptions \cup WriteOptions, NewEnough(v, late, k),
           cache' = Stored(cache, k, v, opts, late),
           fetch' \in [Fetches -> Calls \cup {None}],
           \A f \in Fetches : fetch'[f] \in {None, fetch[f]},
           inFlight' \subseteq Keys, UNCHANGED <<source, floor>>
    PROVE  CacheTypes' /\ FreshInv'
<1>1. /\ IsCache(cache') /\ Indexes(cache')
      /\ cache'.entries[k].version = v /\ cache'.entries[k].late = late
      /\ \A x \in Keys : x # k => cache'.entries[x] \in {None, cache.entries[x]}
  BY StoredMeans DEF CacheTypes, FreshInv
<1>2. CacheTypes'
  BY <1>1 DEF CacheTypes
<1>3. \A x \in Cached(cache') :
        \/ /\ x \in Cached(cache)
           /\ cache'.entries[x].version = cache.entries[x].version
           /\ cache'.entries[x].late = cache.entries[x].late
        \/ NewEnough(cache'.entries[x].version, cache'.entries[x].late, x)
  BY <1>1 DEF Cached
<1>4. source' >= source
  BY DEF CacheTypes
<1> QED BY <1>1, <1>2, <1>3, <1>4, FreshStep

LEMMA SettlesFresh ==
    ASSUME CacheTypes, FreshInv, NEW f \in Fetches, FetchSettles(f)
    PROVE  CacheTypes' /\ FreshInv'
<1> DEFINE call == fetch[f]
<1>1. /\ call # None /\ call.version # None
      /\ cache' = Stored(cache, call.key, call.version, call.opts, call.late)
      /\ inFlight' = InFlightAfter(call)
      /\ fetch' = [fetch EXCEPT ![f] = None]
      /\ UNCHANGED <<source, floor>>
  BY DEF FetchSettles
<1>2. call \in Calls
  BY <1>1 DEF CacheTypes
<1>3. /\ call.key \in Keys /\ call.version \in Nat /\ call.late \in BOOLEAN
      /\ call.opts \in LoadOptions \cup WriteOptions
  BY <1>1, <1>2 DEF Calls
<1>4. NewEnough(call.version, call.late, call.key)
  BY <1>1 DEF FreshInv
<1>5. /\ fetch' \in [Fetches -> Calls \cup {None}]
      /\ \A g \in Fetches : fetch'[g] \in {None, fetch[g]}
  BY <1>1 DEF CacheTypes
<1>6. inFlight' \subseteq Keys
  BY <1>1 DEF CacheTypes, InFlightAfter
<1> HIDE DEF call
<1> QED BY <1>1, <1>3, <1>4, <1>5, <1>6, StoresFresh

\* getOrSet() and warm(): the call that starts holds no version yet.
LEMMA StartsFresh ==
    ASSUME CacheTypes, FreshInv, NEW f \in Fetches, NEW k \in Keys, NEW opts \in LoadOptions,
           NEW kind \in {"refresh", "cold", "warm"}, Start(f, k, kind, opts),
           Within(cache', cache), inFlight' \subseteq Keys, UNCHANGED <<source, floor>>
    PROVE  CacheTypes' /\ FreshInv'
<1>1. /\ fetch' \in [Fetches -> Calls \cup {None}]
      /\ \A g \in Fetches : fetch'[g] # None /\ fetch'[g].version # None => fetch'[g] = fetch[g]
  BY StartMeans
<1>2. CacheTypes'
  BY <1>1 DEF CacheTypes, Within
<1>3. Indexes(cache') /\ source' >= source
  BY WithinIndexes DEF FreshInv, CacheTypes
<1> QED BY <1>1, <1>2, <1>3, WithinSame, FreshStep

LEMMA GetOrSetFresh ==
    ASSUME CacheTypes, FreshInv, NEW f \in Fetches, NEW k \in Keys, NEW opts \in LoadOptions,
           GetOrSet(k, opts, f)
    PROVE  CacheTypes' /\ FreshInv'
<1>1. Within(cache', cache) /\ UNCHANGED <<source, floor>>
  BY LookedMeans DEF GetOrSet, CacheTypes
<1>2. CASE UNCHANGED <<fetch, inFlight>>
  BY <1>1, <1>2, OnlyEntriesGo
<1>3. ASSUME Start(f, k, IF staleData[k] # None THEN "refresh" ELSE "cold", opts),
             inFlight' = inFlight \cup {k}
      PROVE  CacheTypes' /\ FreshInv'
  <2>1. inFlight' \subseteq Keys
    BY <1>3 DEF CacheTypes
  <2>2. CASE staleData[k] # None
    <3>1. Start(f, k, "refresh", opts)
      BY <1>3, <2>2
    <3> QED BY <1>1, <2>1, <3>1, StartsFresh
  <2>3. CASE staleData[k] = None
    <3>1. Start(f, k, "cold", opts)
      BY <1>3, <2>3
    <3> QED BY <1>1, <2>1, <3>1, StartsFresh
  <2> QED BY <2>2, <2>3
<1> QED BY <1>2, <1>3 DEF GetOrSet

LEMMA WithinItself == ASSUME NEW c, IsCache(c) PROVE Within(c, c)
BY DEF Within

\* A step that stores nothing and whose calls with a version are old ones or read now.
LEMMA CallsChange ==
    ASSUME CacheTypes, FreshInv, cache' \in {cache, Empty}, source' >= source, source' \in Nat,
           floor' = floor, inFlight' \subseteq Keys,
           fetch' \in [Fetches -> Calls \cup {None}],
           \A f \in Fetches : fetch'[f] # None /\ fetch'[f].version # None =>
             fetch'[f] = fetch[f] \/ fetch'[f].version = source
    PROVE  CacheTypes' /\ FreshInv'
<1>1. IsCache(cache') /\ Indexes(cache')
  BY EmptyMeansNothing DEF CacheTypes, FreshInv
<1>2. CacheTypes'
  BY <1>1 DEF CacheTypes
<1> QED BY <1>1, <1>2, EmptyMeansNothing, FreshStep

LEMMA ExpiresFresh ==
    ASSUME CacheTypes, FreshInv, NEW k \in Keys, EntryExpires(k)
    PROVE  CacheTypes' /\ FreshInv'
<1> DEFINE x == [cache.entries[k] EXCEPT !.expired = TRUE]
           en == [cache.entries EXCEPT ![k] = x]
           d == [cache EXCEPT !.entries = en]
<1>1. k \in Cached(cache) /\ cache' = d /\ UNCHANGED <<fetch, inFlight, source, floor>>
  BY DEF EntryExpires, Live, CacheTypes, IsCache
<1>2. cache.entries[k] \in Entries
  BY <1>1 DEF Cached, CacheTypes, IsCache
<1>3. /\ x \in Entries /\ x.version = cache.entries[k].version
      /\ x.late = cache.entries[k].late /\ x.tags = cache.entries[k].tags
  BY <1>2 DEF Entries
<1> HIDE DEF x
<1>4. /\ en \in [Keys -> Entries \cup {None}] /\ en[k] = x
      /\ \A y \in Keys : y # k => en[y] = cache.entries[y]
  BY <1>3 DEF CacheTypes, IsCache
<1> HIDE DEF en
<1>5. d.entries = en /\ d.tagIndex = cache.tagIndex /\ IsCache(d)
  BY <1>4 DEF CacheTypes, IsCache
<1> HIDE DEF d
<1>6. \A y \in Cached(d) : /\ y \in Cached(cache)
                           /\ d.entries[y].version = cache.entries[y].version
                           /\ d.entries[y].late = cache.entries[y].late
                           /\ d.entries[y].tags = cache.entries[y].tags
  BY <1>1, <1>3, <1>4, <1>5 DEF Cached
<1>7. Indexes(d)
  BY <1>5, <1>6 DEF FreshInv, Indexes
<1>8. CacheTypes' /\ source' >= source
  BY <1>1, <1>5 DEF CacheTypes
<1> QED BY <1>1, <1>6, <1>7, <1>8, FreshStep

LEMMA RequestsFresh == ASSUME CacheTypes, FreshInv, Requests PROVE CacheTypes' /\ FreshInv'
<1>1. ASSUME NEW k \in Keys, Get(k) \/ Has(k) PROVE CacheTypes' /\ FreshInv'
  <2>1. Within(cache', cache) /\ UNCHANGED <<fetch, inFlight, source, floor>>
    BY <1>1, LookedMeans, DeletedMeans DEF Get, Has, CacheTypes
  <2> QED BY <2>1, OnlyEntriesGo
<1>2. ASSUME NEW k \in Keys, Delete(k) PROVE CacheTypes' /\ FreshInv'
  <2>1. {k} \in SUBSET Keys /\ cache' = Deleted(cache, {k}) /\ Invalidate({k})
    BY <1>2 DEF Delete
  <2> QED BY <2>1, DeletesAndRaises
<1>3. ASSUME NEW k \in Keys, NEW opts \in WriteOptions, Set(k, opts)
      PROVE  CacheTypes' /\ FreshInv'
  <2>1. /\ cache' = Stored(cache, k, source, opts, FALSE)
        /\ UNCHANGED <<inFlight, fetch, source, floor>>
    BY <1>3 DEF Set
  <2>2. source \in Nat /\ NewEnough(source, FALSE, k)
    BY DEF CacheTypes, FreshInv, NewEnough
  <2>3. /\ fetch' \in [Fetches -> Calls \cup {None}]
        /\ \A f \in Fetches : fetch'[f] \in {None, fetch[f]}
        /\ inFlight' \subseteq Keys
    BY <2>1 DEF CacheTypes
  <2> QED BY <2>1, <2>2, <2>3, StoresFresh
<1>4. ASSUME NEW set \in Patterns, InvalidateByPattern(set) PROVE CacheTypes' /\ FreshInv'
  <2>1. set \in SUBSET Keys
    BY CacheAssumption
  <2> QED BY <1>4, <2>1, DeletesAndRaises DEF InvalidateByPattern
<1> QED BY <1>1, <1>2, <1>3, <1>4, TagStep DEF Requests

\* A process that starts from a snapshot knows what was known when it was taken.
LEMMA StartsGood == ASSUME CacheTypes, SavedInv, Restart PROVE CacheTypes' /\ FreshInv'
<1>1. /\ cache' \in {saved.cache, Empty} /\ floor' = saved.floor
      /\ source' = source /\ inFlight' = {}
      /\ fetch' \in [Fetches -> Calls \cup {None}] /\ \A f \in Fetches : fetch'[f] = None
  BY DEF Restart, Starts
<1>2. /\ IsCache(cache') /\ Indexes(cache')
      /\ floor' \in [Keys -> Nat] /\ \A k \in Keys : floor'[k] <= source'
      /\ \A k \in Cached(cache') : NewEnough(cache.entries[k].version, cache.entries[k].late, k)'
  BY <1>1, EmptyMeansNothing DEF SavedInv, Good, NewEnough
<1>3. CacheTypes'
  BY <1>1, <1>2 DEF CacheTypes
<1> QED BY <1>1, <1>2, <1>3 DEF FreshInv

LEMMA FreshHoldsOn ==
    ASSUME CacheTypes, FreshInv, SavedInv, [Next]_vars PROVE CacheTypes' /\ FreshInv'
<1>a. /\ source \in Nat /\ fetch \in [Fetches -> Calls \cup {None}] /\ inFlight \subseteq Keys
      /\ IsCache(cache)
  BY DEF CacheTypes
<1>1. ASSUME NEW k \in Keys, NEW opts \in LoadOptions, NEW f \in Fetches, Warm(k, opts, f)
      PROVE  CacheTypes' /\ FreshInv'
  <2>1. Start(f, k, "warm", opts) /\ UNCHANGED <<cache, inFlight, source, floor>>
    BY <1>1 DEF Warm
  <2> QED BY <1>a, <2>1, WithinItself, StartsFresh
<1>2. ASSUME NEW f \in Fetches, FetchReads(f) PROVE CacheTypes' /\ FreshInv'
  <2>1. UNCHANGED <<cache, inFlight, source, floor>>
    BY <1>2 DEF FetchReads
  <2>2. /\ fetch' \in [Fetches -> Calls \cup {None}]
        /\ \A g \in Fetches : fetch'[g] = fetch[g] \/ fetch'[g].version = source
    BY <1>2, ReadsMeans
  <2> QED BY <1>a, <2>1, <2>2, CallsChange
<1>3. ASSUME NEW f \in Fetches, FetchFails(f) PROVE CacheTypes' /\ FreshInv'
  <2>1. /\ fetch' \in [Fetches -> Calls \cup {None}]
        /\ \A g \in Fetches : fetch'[g] \in {None, fetch[g]}
        /\ inFlight' \subseteq Keys /\ UNCHANGED <<cache, source, floor>>
    BY <1>3, <1>a DEF FetchFails, InFlightAfter
  <2> QED BY <1>a, <2>1, CallsChange
<1>4. Restart \/ (\E f \in Fetches : RefreshFails(f)) => CacheTypes' /\ FreshInv'
  BY StartsGood DEF RefreshFails
<1>5. CASE SourceChanges
  <2>1. source' = source + 1 /\ UNCHANGED <<cache, inFlight, fetch, floor>>
    BY <1>5 DEF SourceChanges
  <2> QED BY <1>a, <2>1, CallsChange
<1>6. CASE Sweep
  <2>1. Within(cache', cache) /\ UNCHANGED <<fetch, inFlight, source, floor>>
    BY <1>6, <1>a, DeletedMeans DEF Sweep
  <2> QED BY <2>1, OnlyEntriesGo
<1>7. CASE Clear
  <2>1. cache' = Empty /\ Invalidate(Keys)
    BY <1>7 DEF Clear
  <2> QED BY <2>1, EmptyMeansNothing, InvalidationStep
<1>8. CASE UNCHANGED <<cache, inFlight, fetch, source, floor>>
  BY <1>8, <1>a, CallsChange
<1>9. ASSUME NEW k \in Keys, StaleCloses(k) PROVE CacheTypes' /\ FreshInv'
  BY <1>8, <1>9 DEF StaleCloses
<1>10. SaveExports \/ SaveWrites \/ SaveFails \/ UNCHANGED vars => CacheTypes' /\ FreshInv'
  BY <1>8 DEF SaveExports, SaveWrites, SaveFails, vars
<1> QED BY <1>1, <1>2, <1>3, <1>4, <1>5, <1>6, <1>7, <1>9, <1>10, RequestsFresh, ExpiresFresh,
           GetOrSetFresh, SettlesFresh DEF Next, Loader

-----------------------------------------------------------------------------
\* Snapshots.  The source only changes to a later version.
LEMMA GoodStays ==
    ASSUME NEW s, Good(s), CacheTypes, source' \in Nat, source' >= source PROVE Good(s)'
<1>1. \A k \in Keys : s.floor[k] \in Nat /\ s.floor[k] <= source /\ source \in Nat
  BY DEF Good, CacheTypes
<1>2. \A k \in Keys : s.floor[k] <= source'
  BY <1>1
<1> QED BY <1>2 DEF Good

\* The text of a snapshot has the statistics of a later moment.
Recounted(c, n) == [c EXCEPT !.used = n]

LEMMA RecountedMeans ==
    ASSUME NEW c, IsCache(c), NEW n
    PROVE  /\ IsCache(Recounted(c, n)) /\ Recounted(c, n).entries = c.entries
           /\ Recounted(c, n).tagIndex = c.tagIndex /\ Recounted(c, n).order = c.order
           /\ Recounted(c, n).used = n /\ Cached(Recounted(c, n)) = Cached(c)
BY DEF IsCache, Recounted, Cached

LEMMA SourceGrows == ASSUME CacheTypes, [Next]_vars PROVE source' \in Nat /\ source' >= source
<1>1. CASE SourceChanges
  BY <1>1 DEF SourceChanges, CacheTypes
<1>2. CASE ~SourceChanges
  <2>1. source' = source
    BY <1>2 DEF Next, Requests, Loader, Get, Has, Delete, Set, InvalidateByPattern, InvalidateByTag,
       Invalidate, GetOrSet, Warm, FetchReads, FetchSettles, FetchFails, RefreshFails, EntryExpires,
       StaleCloses, Clear, Sweep, SaveExports, SaveWrites, SaveFails, Restart, Starts, vars
  <2> QED BY <2>1 DEF CacheTypes
<1> QED BY <1>1, <1>2

\* Only saves and restarts concern the snapshots.
LEMMA SavedChanges ==
    ASSUME [Next]_vars
    PROVE  \/ SaveExports \/ SaveWrites
           \/ saved' = saved /\ saving' \in {saving, None}
BY DEF Next, Requests, Loader, Get, Has, Delete, Set, InvalidateByPattern, InvalidateByTag,
   Invalidate, GetOrSet, Warm, FetchReads, FetchSettles, FetchFails, RefreshFails, EntryExpires,
   StaleCloses, Clear, Sweep, SourceChanges, SaveFails, Restart, Starts, savedVars, vars

LEMMA SavedStep ==
    ASSUME CacheTypes, FreshInv, SavedInv, [Next]_vars PROVE SavedInv'
<1>1. Good(saved)' \/ saved' # saved
  BY SourceGrows, GoodStays DEF SavedInv, Good
<1>2. saving # None => Good(saving)' \/ saving' # saving
  BY SourceGrows, GoodStays DEF SavedInv, Good
<1>3. CASE saved' = saved /\ saving' \in {saving, None}
  BY <1>1, <1>2, <1>3 DEF SavedInv
<1>4. CASE SaveExports
  <2>1. /\ saving' = [cache |-> cache, floor |-> floor, skewed |-> skewed]
        /\ saved' = saved /\ source' = source
    BY <1>4 DEF SaveExports
  <2>2. Good(saving')
    BY <2>1 DEF CacheTypes, FreshInv, NewEnough, Good
  <2> QED BY <1>1, <2>1, <2>2 DEF SavedInv, Good
<1>5. CASE SaveWrites
  <2>1. PICK c, d : c = saving.cache /\ d = Recounted(c, cache.used)
    OBVIOUS
  <2>2. /\ saving # None /\ saved'.cache = d /\ saved'.floor = saving.floor
        /\ saving' = None /\ source' = source
    BY <1>5, <2>1 DEF SaveWrites, Recounted
  <2>3. Good(saving) /\ IsCache(c)
    BY <2>1, <2>2 DEF SavedInv, Good
  <2>4. IsCache(d) /\ d.entries = c.entries /\ d.tagIndex = c.tagIndex /\ Cached(d) = Cached(c)
    BY <2>1, <2>3, RecountedMeans
  <2>5. Good(saved')
    BY <2>1, <2>2, <2>3, <2>4 DEF Good, Indexes
  <2> QED BY <2>2, <2>5 DEF SavedInv, Good
<1> QED BY <1>3, <1>4, <1>5, SavedChanges

-----------------------------------------------------------------------------
\* Steps that start and end no call of getOrSet().
LEMMA FlightStays ==
    ASSUME FlightInv, inFlight' = inFlight,
           \A f \in Fetches : \/ fetch'[f] = fetch[f]
                              \/ /\ fetch[f] # None /\ fetch'[f] # None
                                 /\ fetch'[f].key = fetch[f].key
                                 /\ fetch'[f].kind = fetch[f].kind
                              \/ /\ fetch[f] = None \/ fetch[f].kind = "warm"
                                 /\ fetch'[f] = None \/ fetch'[f].kind = "warm"
    PROVE  FlightInv'
<1>1. \A k \in Keys : CallsFor(k)' = CallsFor(k)
  BY DEF CallsFor
<1> QED BY <1>1 DEF FlightInv

\* A call of getOrSet() starts for a key that has none.
LEMMA FlightStarts ==
    ASSUME CacheTypes, FlightInv, NEW f \in Fetches, NEW k \in Keys, k \notin inFlight,
           NEW opts \in LoadOptions, NEW kind \in {"refresh", "cold"}, Start(f, k, kind, opts),
           inFlight' = inFlight \cup {k}
    PROVE  FlightInv'
<1>1. /\ fetch[f] = None /\ fetch'[f] \in Calls
      /\ fetch'[f].key = k /\ fetch'[f].kind # "warm"
      /\ \A g \in Fetches : g # f => fetch'[g] = fetch[g]
  BY StartMeans
<1>2. fetch'[f] # None
  BY <1>1, NoneIsNothing
<1>3. CallsFor(k) = {}
  BY DEF FlightInv
<1>4. CallsFor(k)' = {f}
  BY <1>1, <1>2, <1>3 DEF CallsFor
<1>5. \A x \in Keys : x # k => CallsFor(x)' = CallsFor(x)
  BY <1>1, <1>2 DEF CallsFor
<1> QED BY <1>4, <1>5 DEF FlightInv

\* A call ends, and its key leaves the map unless the call was warm()'s.
LEMMA FlightEnds ==
    ASSUME CacheTypes, FlightInv, NEW f \in Fetches, fetch[f] # None,
           fetch' = [fetch EXCEPT ![f] = None], inFlight' = InFlightAfter(fetch[f])
    PROVE  FlightInv'
<1>1. /\ fetch'[f] = None /\ \A g \in Fetches : g # f => fetch'[g] = fetch[g]
  BY DEF CacheTypes
<1>2. CASE fetch[f].kind = "warm"
  <2>1. inFlight' = inFlight
    BY <1>2 DEF InFlightAfter
  <2> QED BY <1>1, <1>2, <2>1, FlightStays
<1>3. CASE fetch[f].kind # "warm"
  <2>1. fetch[f] \in Calls
    BY DEF CacheTypes
  <2>0. PICK k \in Keys : k = fetch[f].key
    BY <2>1 DEF Calls
  <2>2. f \in CallsFor(k)
    BY <1>3, <2>0 DEF CallsFor
  <2>3. CallsFor(k) = {f}
    BY <2>2 DEF FlightInv
  <2>4. CallsFor(k)' = {}
    BY <1>1, <2>3 DEF CallsFor
  <2>5. ASSUME NEW x \in Keys, x # k PROVE CallsFor(x)' = CallsFor(x)
    <3>1. f \notin CallsFor(x) /\ f \notin CallsFor(x)'
      BY <1>1, <2>0, <2>5 DEF CallsFor
    <3>2. \A g \in Fetches : g # f => (g \in CallsFor(x)' <=> g \in CallsFor(x))
      BY <1>1 DEF CallsFor
    <3> QED BY <3>1, <3>2 DEF CallsFor
  <2>6. inFlight' = inFlight \ {k}
    BY <1>3, <2>0 DEF InFlightAfter
  <2>7. k \notin inFlight'
    BY <2>6
  <2>8. ASSUME NEW x \in Keys, x # k
        PROVE  /\ x \in inFlight' => \E g \in Fetches : CallsFor(x)' = {g}
               /\ x \notin inFlight' => CallsFor(x)' = {}
    BY <2>5, <2>6, <2>8 DEF FlightInv
  <2> QED BY <2>4, <2>7, <2>8 DEF FlightInv
<1> QED BY <1>2, <1>3

LEMMA FlightStep ==
    ASSUME CacheTypes, FlightInv, [Next]_vars PROVE FlightInv'
<1>1. CASE UNCHANGED <<fetch, inFlight>>
  BY <1>1, FlightStays
<1>2. ASSUME NEW ks, Invalidate(ks) PROVE FlightInv'
  <2>1. inFlight' = inFlight
    BY <1>2 DEF Invalidate
  <2>2. \A f \in Fetches : \/ fetch'[f] = fetch[f]
                           \/ /\ fetch[f] # None /\ fetch'[f] # None
                              /\ fetch'[f].key = fetch[f].key
                              /\ fetch'[f].kind = fetch[f].kind
    BY <1>2, InvalidateMeans
  <2> QED BY <2>1, <2>2, FlightStays
<1>3. CASE Requests
  BY <1>1, <1>2, <1>3 DEF Requests, Get, Has, Delete, Set, InvalidateByPattern, InvalidateByTag
<1>4. ASSUME NEW k \in Keys, NEW opts \in LoadOptions, NEW f \in Fetches, GetOrSet(k, opts, f)
      PROVE  FlightInv'
  <2>1. CASE UNCHANGED <<fetch, inFlight>>
    BY <1>1, <2>1
  <2>2. ASSUME k \notin inFlight, inFlight' = inFlight \cup {k},
               Start(f, k, IF staleData[k] # None THEN "refresh" ELSE "cold", opts)
        PROVE  FlightInv'
    <3>1. CASE staleData[k] # None
      <4>1. Start(f, k, "refresh", opts)
        BY <2>2, <3>1
      <4> QED BY <2>2, <4>1, FlightStarts
    <3>2. CASE staleData[k] = None
      <4>1. Start(f, k, "cold", opts)
        BY <2>2, <3>2
      <4> QED BY <2>2, <4>1, FlightStarts
    <3> QED BY <3>1, <3>2
  <2> QED BY <1>4, <2>1, <2>2 DEF GetOrSet
<1>5. ASSUME NEW k \in Keys, NEW opts \in LoadOptions, NEW f \in Fetches, Warm(k, opts, f)
      PROVE  FlightInv'
  <2>1. Start(f, k, "warm", opts) /\ inFlight' = inFlight
    BY <1>5 DEF Warm
  <2> QED BY <2>1, StartMeans, FlightStays
<1>6. ASSUME NEW f \in Fetches, FetchReads(f) PROVE FlightInv'
  BY <1>6, ReadsMeans, FlightStays DEF FetchReads
<1>7. ASSUME NEW f \in Fetches, FetchSettles(f) \/ FetchFails(f) PROVE FlightInv'
  BY <1>7, FlightEnds DEF FetchSettles, FetchFails
<1>8. ASSUME inFlight' = {}, \A f \in Fetches : fetch'[f] = None PROVE FlightInv'
  BY <1>8 DEF FlightInv, CallsFor
<1>9. CASE Restart
  BY <1>8, <1>9 DEF Restart, Starts
<1>10. ASSUME NEW f \in Fetches, RefreshFails(f) PROVE FlightInv'
  BY <1>9, <1>10 DEF RefreshFails
<1>11. CASE \/ Clear \/ SourceChanges \/ Sweep
            \/ SaveExports \/ SaveWrites \/ SaveFails \/ UNCHANGED vars
  BY <1>1, <1>2, <1>11 DEF Clear, SourceChanges, Sweep, SaveExports, SaveWrites, SaveFails, vars
<1>12. ASSUME NEW k \in Keys, EntryExpires(k) \/ StaleCloses(k) PROVE FlightInv'
  BY <1>1, <1>12 DEF EntryExpires, StaleCloses
<1> QED BY <1>3, <1>4, <1>5, <1>6, <1>7, <1>9, <1>10, <1>11, <1>12 DEF Next, Loader

LEMMA CacheHolds == Spec => []CacheInv
<1>1. CacheInv /\ [Next]_vars => CacheInv'
  BY FreshHoldsOn, FlightStep, SavedStep DEF CacheInv
<1> QED BY <1>1, InitCache, PTL DEF Spec

(* One key, one loader: at most one call of getOrSet() for a key is under  *)
(* way, and the single-flight map holds the key exactly while one is,      *)
(* whatever fails, is invalidated, evicted or restarted meanwhile.         *)
THEOREM SingleFlightHolds == Spec => []SingleFlight
<1>1. ASSUME CacheInv PROVE SingleFlight
  <2>1. ASSUME NEW k \in Keys
        PROVE  Cardinality(CallsFor(k)) = IF k \in inFlight THEN 1 ELSE 0
    BY <1>1, FS_EmptySet, FS_Singleton DEF CacheInv, FlightInv
  <2> QED BY <2>1 DEF SingleFlight, CallsFor
<1> QED BY <1>1, CacheHolds, PTL

(* An entry is as new as the last invalidation of its key that the process *)
(* knows of, unless its call had read the source before it: the tag index  *)
(* may name keys that bear no tag any more, but it misses none that does,  *)
(* also when both come from a snapshot of any age.  An invalidation after  *)
(* that snapshot is forgotten with the process.                            *)
THEOREM InvalidationHoldsAlways == Spec => []InvalidationHolds
<1>1. CacheInv => InvalidationHolds
  BY DEF CacheInv, FreshInv, InvalidationHolds, NewEnough
<1> QED BY <1>1, CacheHolds, PTL
-----------------------------------------------------------------------------
(***************************************************************************)
(* The order of eviction.  An induction over its length is an argument on  *)
(* the smallest number for which a claim fails.                            *)
(***************************************************************************)
LEMMA SmallestNumber ==
    ASSUME NEW T, T \subseteq Nat, T # {}
    PROVE  \E x \in T : \A y \in T : x <= y
<1>1. PICK x \in T : \A y \in T : ~(<<y, x>> \in OpToRel(<, Nat))
  BY NatLessThanWellFounded, WFMin
<1>2. ASSUME NEW y \in T, y < x PROVE FALSE
  <2>1. <<y, x>> \in OpToRel(<, Nat)
    BY <1>2, Zenon DEF OpToRel
  <2> QED BY <2>1, <1>1
<1> QED BY <1>2

\* A set of numbers with 0 that is closed under the step up to n has n.
LEMMA UpTo ==
    ASSUME NEW n \in Nat, NEW S, 0 \in S, \A i \in 0..n : i # 0 /\ (i - 1) \in S => i \in S
    PROVE  n \in S
<1> DEFINE T == {i \in 0..n : i \notin S}
<1> SUFFICES ASSUME T # {} PROVE FALSE
  OBVIOUS
<1>1. PICK x \in T : \A y \in T : x <= y
  <2>1. T \subseteq Nat
    OBVIOUS
  <2> HIDE DEF T
  <2> QED BY <2>1, SmallestNumber
<1>2. x # 0 /\ x \in 0..n /\ (x - 1) \notin T /\ (x - 1) \in 0..n
  BY <1>1
<1> QED BY <1>1, <1>2

\* What Only makes of the first m of seq, for every m.
KeptOf(f, seq, P, n) ==
    f = [m \in 0..n |-> IF m = 0 THEN <<>>
                        ELSE IF seq[m] \in P THEN Append(f[m - 1], seq[m]) ELSE f[m - 1]]

LEMMA KeptExists ==
    ASSUME NEW seq, NEW P, NEW n \in Nat
    PROVE  \E f : KeptOf(f, seq, P, n)
<1> DEFINE T == {k \in Nat : \E f : KeptOf(f, seq, P, k)}
<1>1. 0 \in T
  <2> DEFINE f == [m \in 0..0 |-> <<>>]
  <2>1. f = [m \in 0..0 |-> IF m = 0 THEN <<>>
                            ELSE IF seq[m] \in P THEN Append(f[m - 1], seq[m]) ELSE f[m - 1]]
    OBVIOUS
  <2> QED BY <2>1 DEF KeptOf
<1>2. ASSUME NEW k \in 0..n, k # 0, (k - 1) \in T PROVE k \in T
  <2>1. PICK f : KeptOf(f, seq, P, k - 1)
    BY <1>2
  <2> DEFINE g == [m \in 0..k |-> IF m < k THEN f[m]
                                  ELSE IF seq[k] \in P THEN Append(f[k - 1], seq[k])
                                  ELSE f[k - 1]]
  <2>2. \A m \in 0..(k - 1) : f[m] = IF m = 0 THEN <<>>
                              ELSE IF seq[m] \in P THEN Append(f[m - 1], seq[m]) ELSE f[m - 1]
    BY <2>1 DEF KeptOf
  <2>3. k \in Nat /\ k # 0
    BY <1>2
  <2>4. ASSUME NEW m \in 0..k, m # k
        PROVE  m \in 0..(k - 1) /\ m < k /\ (m # 0 => m - 1 < k /\ m - 1 \in 0..k)
    BY ONLY <2>3, <2>4
  <2>5. k \in 0..k /\ k - 1 \in 0..k /\ k - 1 < k /\ ~(k < k)
    BY <2>3
  <2>6. \A m \in 0..k : g[m] = IF m = 0 THEN <<>>
                               ELSE IF seq[m] \in P THEN Append(g[m - 1], seq[m]) ELSE g[m - 1]
    BY <1>2, <2>2, <2>4, <2>5
  <2>7. KeptOf(g, seq, P, k)
    BY <2>6 DEF KeptOf
  <2> QED BY <2>3, <2>7
<1>3. n \in T
  <2> HIDE DEF T
  <2> QED BY <1>1, <1>2, UpTo
<1> QED BY <1>3


\* q is a list of S, with each member once.
Lists(q, S) ==
    /\ q \in Seq(Keys)
    /\ \A x : x \in S <=> \E i \in 1..Len(q) : q[i] = x
    /\ \A i, j \in 1..Len(q) : q[i] = q[j] => i = j

LEMMA ListsNothing == Lists(<<>>, {})
BY DEF Lists

LEMMA AppendedLists ==
    ASSUME NEW S, NEW q, Lists(q, S), NEW k \in Keys, k \notin S
    PROVE  Lists(Append(q, k), S \cup {k})
<1> DEFINE r == Append(q, k)
           n == Len(q)
<1>1. n \in Nat /\ q \in Seq(Keys)
  BY LenProperties DEF Lists
<1>2. r \in Seq(Keys) /\ Len(r) = n + 1 /\ r[n + 1] = k /\ \A i \in 1..n : r[i] = q[i]
  BY <1>1, AppendProperties
<1>3. \A i : i \in 1..(n + 1) <=> i = n + 1 \/ i \in 1..n
  BY <1>1
<1>4. (\A x : x \in S <=> \E i \in 1..n : q[i] = x) /\ \A i, j \in 1..n : q[i] = q[j] => i = j
  BY DEF Lists
<1>5. n + 1 \notin 1..n
  BY <1>1
<1> HIDE DEF r, n
<1>6. \A x : x \in S \cup {k} <=> \E i \in 1..(n + 1) : r[i] = x
  BY <1>2, <1>3, <1>4
<1>7. \A i, j \in 1..(n + 1) : r[i] = r[j] => i = j
  BY <1>2, <1>3, <1>4
<1> QED BY <1>2, <1>6, <1>7 DEF Lists, r

\* What is left of a list lists what is left of its members.
LEMMA OnlyLists ==
    ASSUME NEW S, NEW seq, Lists(seq, S), NEW P
    PROVE  Lists(Only(seq, P), S \cap P)
<1> DEFINE n == Len(seq)
           f == CHOOSE f : KeptOf(f, seq, P, n)
           First(m) == {x \in Keys : \E i \in 1..m : seq[i] = x}
           T == {m \in 0..n : Lists(f[m], First(m) \cap P)}
<1>1. n \in Nat /\ \A i \in 1..n : seq[i] \in Keys
  BY LenProperties DEF Lists
<1>2. KeptOf(f, seq, P, n)
  BY <1>1, KeptExists
<1>3. Only(seq, P) = f[n]
  BY DEF Only, KeptOf
<1> HIDE DEF f
<1>4. f[0] = <<>> /\ \A m \in 1..n : f[m] = IF seq[m] \in P THEN Append(f[m - 1], seq[m])
                                            ELSE f[m - 1]
  <2>1. \A m \in 0..n : f[m] = IF m = 0 THEN <<>>
                               ELSE IF seq[m] \in P THEN Append(f[m - 1], seq[m]) ELSE f[m - 1]
    BY <1>2 DEF KeptOf
  <2>2. 0 \in 0..n /\ \A m \in 1..n : m \in 0..n /\ m # 0
    BY <1>1
  <2> QED BY <2>1, <2>2
<1>5. 0 \in T
  <2>1. First(0) \cap P = {}
    OBVIOUS
  <2> QED BY <1>1, <1>4, <2>1, ListsNothing
<1>6. ASSUME NEW m \in 0..n, m # 0, (m - 1) \in T PROVE m \in T
  <2> DEFINE k == seq[m]
  <2>1. m \in 1..n /\ m - 1 \in 0..n /\ k \in Keys /\ Lists(f[m - 1], First(m - 1) \cap P)
    BY <1>1, <1>6
  <2>2. \A i : i \in 1..m <=> i = m \/ i \in 1..(m - 1)
    BY <1>1, <1>6
  <2>3. First(m) = First(m - 1) \cup {k}
    BY <2>1, <2>2
  <2>4. k \notin First(m - 1)
    <3>1. \A i \in 1..(m - 1) : i \in 1..n /\ i # m
      BY <1>1, <1>6
    <3> QED BY <2>1, <3>1 DEF Lists
  <2>5. f[m] = IF k \in P THEN Append(f[m - 1], k) ELSE f[m - 1]
    BY <1>4, <2>1
  <2> HIDE DEF First, k
  <2>6. CASE k \in P
    <3>1. First(m) \cap P = (First(m - 1) \cap P) \cup {k} /\ k \notin First(m - 1) \cap P
      BY <2>3, <2>4, <2>6
    <3>2. Lists(Append(f[m - 1], k), (First(m - 1) \cap P) \cup {k})
      BY <2>1, <3>1, AppendedLists
    <3> QED BY <1>6, <2>5, <2>6, <3>1, <3>2
  <2>7. CASE k \notin P
    <3>1. First(m) \cap P = First(m - 1) \cap P
      BY <2>3, <2>7
    <3> QED BY <1>6, <2>1, <2>5, <2>7, <3>1
  <2> QED BY <2>6, <2>7
<1>7. n \in T
  <2> HIDE DEF T
  <2> QED BY <1>1, <1>5, <1>6, UpTo
<1>8. First(n) = S
  BY <1>1 DEF Lists
<1> QED BY <1>3, <1>7, <1>8

\* A list is as long as what it lists, and its first n members are n of them.
Begin(q, n) == {q[i] : i \in 1..n}

LEMMA ListsCount ==
    ASSUME NEW S, NEW q, Lists(q, S), NEW n \in 0..Len(q)
    PROVE  /\ Len(q) \in Nat /\ IsFiniteSet(S) /\ Cardinality(S) = Len(q)
           /\ Begin(q, n) \subseteq S
           /\ IsFiniteSet(Begin(q, n)) /\ Cardinality(Begin(q, n)) = n
           /\ n = Len(q) => Begin(q, n) = S
<1>1. Len(q) \in Nat
  BY LenProperties DEF Lists
<1>2. ASSUME NEW m \in 0..Len(q)
      PROVE  /\ IsFiniteSet({q[i] : i \in 1..m}) /\ Cardinality({q[i] : i \in 1..m}) = m
             /\ {q[i] : i \in 1..m} \subseteq S
  <2> DEFINE R == {q[i] : i \in 1..m}
             g == [i \in 1..m |-> q[i]]
  <2>0. m \in Nat /\ \A i \in 1..m : i \in 1..Len(q)
    BY <1>1
  <2>1. g \in Bijection(1..m, R)
    <3>1. g \in [1..m -> R] /\ \A r \in R : \E i \in 1..m : g[i] = r
      OBVIOUS
    <3>2. \A i, j \in 1..m : g[i] = g[j] => i = j
      BY <2>0 DEF Lists
    <3> QED BY <3>1, <3>2 DEF Bijection, Injection, Surjection, IsInjective
  <2>2. ExistsBijection(1..m, R)
    BY <2>1 DEF ExistsBijection
  <2>3. IsFiniteSet(R) /\ Cardinality(R) = m
    BY <2>0, <2>2, FS_NatBijection, FS_CountingElements
  <2>4. R \subseteq S
    BY <2>0 DEF Lists
  <2> QED BY <2>3, <2>4
<1>3. {q[i] : i \in 1..Len(q)} = S
  BY DEF Lists
<1>4. Len(q) \in 0..Len(q)
  BY <1>1
<1> QED BY <1>1, <1>2, <1>3, <1>4 DEF Begin

-----------------------------------------------------------------------------
(***************************************************************************)
(* The bytes of some entries, a set of pairs for each.                     *)
(***************************************************************************)
\* Every entry stores a version the source has had.
Sized(c) == IsCache(c) /\ \A k \in Cached(c) : c.entries[k].version \in 0..MaxVersion

Weight(c, k) == {k} \X (1..Size(c.entries[k].version))

LEMMA WeightIs ==
    ASSUME NEW c, Sized(c), NEW k \in Cached(c)
    PROVE  /\ Size(c.entries[k].version) \in Nat /\ Size(c.entries[k].version) > 0
           /\ IsFiniteSet(Weight(c, k))
           /\ Cardinality(Weight(c, k)) = Size(c.entries[k].version)
<1>1. PICK n : n = Size(c.entries[k].version)
  OBVIOUS
<1>2. n \in Nat /\ n > 0
  BY <1>1, CacheAssumption DEF Sized
<1>3. IsFiniteSet(1..n) /\ Cardinality(1..n) = n
  BY <1>2, FS_Interval
<1>4. IsFiniteSet({k}) /\ Cardinality({k}) = 1
  BY FS_Singleton
<1>5. IsFiniteSet({k} \X (1..n)) /\ Cardinality({k} \X (1..n)) = Cardinality({k}) * Cardinality(1..n)
  BY <1>3, <1>4, FS_Product
<1>6. Cardinality({k}) * Cardinality(1..n) = n
  BY <1>2, <1>3, <1>4
<1> QED BY <1>1, <1>2, <1>5, <1>6 DEF Weight

LEMMA BytesNat ==
    ASSUME NEW c, Sized(c), NEW ks, IsFiniteSet(ks), ks \subseteq Cached(c)
    PROVE  /\ IsFiniteSet(UNION {Weight(c, k) : k \in ks})
           /\ Bytes(c, ks) = Cardinality(UNION {Weight(c, k) : k \in ks})
           /\ Bytes(c, ks) \in Nat
<1> DEFINE F == {Weight(c, k) : k \in ks}
           g == [k \in ks |-> Weight(c, k)]
<1>1. g \in Surjection(ks, F)
  BY DEF Surjection
<1> HIDE DEF g, F
<1>2. IsFiniteSet(F)
  BY <1>1, FS_Surjection
<1>3. \A T \in F : IsFiniteSet(T)
  BY WeightIs DEF F
<1>4. IsFiniteSet(UNION F)
  BY <1>2, <1>3, FS_UNION
<1>5. Cardinality(UNION F) \in Nat
  BY <1>4, FS_CardinalityType
<1>6. Bytes(c, ks) = Cardinality(UNION F)
  BY DEF Bytes, F, Weight
<1> QED BY <1>4, <1>5, <1>6 DEF F

LEMMA BytesOfNone == ASSUME NEW c PROVE Bytes(c, {}) = 0
BY FS_EmptySet DEF Bytes

LEMMA BytesOfOne ==
    ASSUME NEW c, Sized(c), NEW k \in Cached(c)
    PROVE  Bytes(c, {k}) = Size(c.entries[k].version)
<1>1. UNION {Weight(c, x) : x \in {k}} = Weight(c, k)
  OBVIOUS
<1>2. Bytes(c, {k}) = Cardinality(UNION {Weight(c, x) : x \in {k}})
  BY DEF Bytes, Weight
<1> QED BY <1>1, <1>2, WeightIs

\* The bytes of two parts add up.
LEMMA BytesAdd ==
    ASSUME NEW c, Sized(c), NEW A, NEW B, IsFiniteSet(A), IsFiniteSet(B),
           A \subseteq Cached(c), B \subseteq Cached(c), A \cap B = {}
    PROVE  Bytes(c, A \cup B) = Bytes(c, A) + Bytes(c, B)
<1> DEFINE U(ks) == UNION {Weight(c, k) : k \in ks}
<1>1. U(A \cup B) = U(A) \cup U(B)
  OBVIOUS
<1>2. U(A) \cap U(B) = {}
  BY DEF Weight
<1>3. IsFiniteSet(A \cup B) /\ A \cup B \subseteq Cached(c)
  BY FS_Union
<1>4. /\ IsFiniteSet(U(A)) /\ Bytes(c, A) = Cardinality(U(A)) /\ Bytes(c, A) \in Nat
      /\ IsFiniteSet(U(B)) /\ Bytes(c, B) = Cardinality(U(B)) /\ Bytes(c, B) \in Nat
      /\ Bytes(c, A \cup B) = Cardinality(U(A \cup B))
  BY <1>3, BytesNat
<1> HIDE DEF U
<1>5. Cardinality(U(A) \cup U(B)) = Cardinality(U(A)) + Cardinality(U(B)) - Cardinality({})
  BY <1>2, <1>4, FS_Union
<1>6. Cardinality(U(A \cup B)) = Cardinality(U(A) \cup U(B))
  BY <1>1
<1>7. Cardinality({}) = 0
  BY FS_EmptySet
<1>8. Bytes(c, A \cup B) = Bytes(c, A) + Bytes(c, B) - 0
  BY <1>4, <1>5, <1>6, <1>7
<1> QED BY <1>4, <1>8

\* The bytes depend on the versions only.
LEMMA BytesSame ==
    ASSUME NEW c, NEW d, NEW ks, \A k \in ks : d.entries[k].version = c.entries[k].version
    PROVE  Bytes(d, ks) = Bytes(c, ks)
<1>1. {Weight(d, k) : k \in ks} = {Weight(c, k) : k \in ks}
  BY DEF Weight
<1>2. Bytes(d, ks) = Cardinality(UNION {Weight(d, k) : k \in ks})
  BY DEF Bytes, Weight
<1>3. Bytes(c, ks) = Cardinality(UNION {Weight(c, k) : k \in ks})
  BY DEF Bytes, Weight
<1> QED BY <1>1, <1>2, <1>3

-----------------------------------------------------------------------------
(***************************************************************************)
(* Sizes.  Listed is what holds of every cache, with the order of eviction *)
(* as a list of what is cached; Exact is what holds unless it started from *)
(* the statistics of another moment.                                       *)
(***************************************************************************)
Listed(c) ==
    /\ Sized(c)
    /\ Lists(c.order, Cached(c))
    /\ Cardinality(Cached(c)) <= MaxEntries

Exact(c) ==
    /\ Listed(c)
    /\ c.used = Bytes(c, Cached(c))
    /\ c.used > MaxSize => Cardinality(Cached(c)) = 1

\* d is at least as good as c.
Keeps(c, d) == Listed(d) /\ (Exact(c) => Exact(d))

LEMMA EmptyExact == Listed(Empty) /\ Exact(Empty)
<1>1. Empty.order = <<>> /\ Empty.used = 0
  BY DEF Empty
<1> QED BY <1>1, EmptyMeansNothing, ListsNothing, BytesOfNone, FS_EmptySet, CacheAssumption
        DEF Exact, Listed, Sized

LEMMA ListedCounts ==
    ASSUME NEW c, Listed(c)
    PROVE  /\ IsCache(c) /\ IsFiniteSet(Cached(c)) /\ Cardinality(Cached(c)) \in Nat
           /\ Cardinality(Cached(c)) = Len(c.order) /\ Len(c.order) \in Nat
<1>1. Len(c.order) \in Nat
  BY LenProperties DEF Listed, Lists
<1>2. Len(c.order) \in 0..Len(c.order)
  BY <1>1
<1>3. IsFiniteSet(Cached(c)) /\ Cardinality(Cached(c)) = Len(c.order)
  BY <1>2, ListsCount DEF Listed
<1> QED BY <1>1, <1>3 DEF Listed, Sized

LEMMA ExactCounts == ASSUME NEW c, Exact(c) PROVE c.used \in Nat
BY ListedCounts, BytesNat DEF Exact, Listed, Sized

\* The same entries in the same order, with other tags or other statistics.
LEMMA SameKeeps ==
    ASSUME NEW c, Listed(c), NEW d, IsCache(d), d.order = c.order, Cached(d) = Cached(c),
           \A k \in Cached(c) : d.entries[k].version = c.entries[k].version
    PROVE  Listed(d) /\ (d.used = c.used /\ Exact(c) => Exact(d))
<1>1. Sized(d)
  BY DEF Listed, Sized
<1>2. Bytes(d, Cached(d)) = Bytes(c, Cached(c))
  BY BytesSame
<1> QED BY <1>1, <1>2 DEF Exact, Listed

(* Taking keys away, one by one or all: bytes are given back as they were  *)
(* charged.                                                                *)
LEMMA DeletedListed ==
    ASSUME NEW c, Listed(c), NEW ks
    PROVE  /\ Listed(Deleted(c, ks)) /\ Cached(Deleted(c, ks)) = Cached(c) \ ks
           /\ Deleted(c, ks).used = c.used - Bytes(c, ks \cap Cached(c))
           /\ \A k \in Cached(c) \ ks : Deleted(c, ks).entries[k] = c.entries[k]
<1>1. PICK d : d = Deleted(c, ks)
  OBVIOUS
<1>2. PICK gone : gone = ks \cap Cached(c)
  OBVIOUS
<1>3. IsCache(c) /\ IsFiniteSet(Cached(c)) /\ Cardinality(Cached(c)) \in Nat
  BY ListedCounts
<1>4. /\ IsCache(d) /\ \A k \in Keys : d.entries[k] = IF k \in ks THEN None ELSE c.entries[k]
      /\ d.order = Only(c.order, Keys \ gone) /\ d.used = c.used - Bytes(c, gone)
  <2>1. /\ Within(d, c) /\ TakenOff(c, d, gone)
        /\ \A k \in Keys : d.entries[k] = IF k \in ks THEN None ELSE c.entries[k]
    BY <1>1, <1>2, <1>3, DeletedMeans, DeletedTakesOff
  <2> QED BY <2>1 DEF Within, TakenOff
<1>5. Cached(d) = Cached(c) \ ks /\ Cached(d) = Cached(c) \cap (Keys \ gone)
  BY <1>2, <1>4 DEF Cached
<1>6. Sized(d)
  BY <1>4, <1>5 DEF Listed, Sized, Cached
<1>7. Lists(d.order, Cached(d))
  BY <1>4, <1>5, OnlyLists DEF Listed
<1>8. Cardinality(Cached(d)) <= MaxEntries
  <2>1. Cached(d) \in SUBSET Cached(c)
    BY <1>5
  <2>2. /\ IsFiniteSet(Cached(d)) /\ Cardinality(Cached(d)) <= Cardinality(Cached(c))
    BY <1>3, <2>1, FS_Subset
  <2>3. Cardinality(Cached(d)) \in Nat /\ MaxEntries \in Nat
    BY <2>2, FS_CardinalityType, CacheAssumption
  <2> QED BY <1>3, <2>2, <2>3 DEF Listed
<1>9. \A k \in Cached(c) \ ks : d.entries[k] = c.entries[k]
  BY <1>4 DEF Cached
<1> QED BY <1>1, <1>2, <1>4, <1>5, <1>6, <1>7, <1>8, <1>9 DEF Listed

LEMMA DeletedExact ==
    ASSUME NEW c, Exact(c), NEW ks PROVE Exact(Deleted(c, ks))
<1>1. PICK d : d = Deleted(c, ks)
  OBVIOUS
<1>2. PICK gone : gone = ks \cap Cached(c)
  OBVIOUS
<1>3. /\ IsFiniteSet(Cached(c)) /\ Cardinality(Cached(c)) \in Nat /\ c.used \in Nat
      /\ Sized(c)
  BY ListedCounts, ExactCounts DEF Exact, Listed
<1>4. /\ Listed(d) /\ Cached(d) = Cached(c) \ ks /\ d.used = c.used - Bytes(c, gone)
      /\ \A k \in Cached(d) : d.entries[k] = c.entries[k]
  <2>1. Listed(c)
    BY DEF Exact
  <2>2. /\ Listed(d) /\ Cached(d) = Cached(c) \ ks
        /\ d.used = c.used - Bytes(c, ks \cap Cached(c))
        /\ \A k \in Cached(c) \ ks : d.entries[k] = c.entries[k]
    BY <1>1, <2>1, DeletedListed
  <2> QED BY <1>2, <2>2
<1>5. /\ IsFiniteSet(Cached(d)) /\ IsFiniteSet(gone) /\ Cached(d) \cap gone = {}
      /\ Cached(d) \cup gone = Cached(c) /\ gone \subseteq Cached(c) /\ Cached(d) \subseteq Cached(c)
      /\ Cardinality(Cached(d)) <= Cardinality(Cached(c)) /\ Cardinality(Cached(d)) \in Nat
  <2>1. Cached(d) \in SUBSET Cached(c) /\ gone \in SUBSET Cached(c)
    BY <1>2, <1>4
  <2>2. /\ IsFiniteSet(Cached(d)) /\ IsFiniteSet(gone)
        /\ Cardinality(Cached(d)) <= Cardinality(Cached(c))
    BY <1>3, <2>1, FS_Subset
  <2> QED BY <1>2, <1>4, <2>1, <2>2, FS_CardinalityType
<1>6. Bytes(c, Cached(d) \cup gone) = Bytes(c, Cached(d)) + Bytes(c, gone)
  BY <1>3, <1>5, BytesAdd
<1>7. Bytes(c, Cached(d)) \in Nat /\ Bytes(c, gone) \in Nat
  BY <1>3, <1>5, BytesNat
<1>8. Bytes(d, Cached(d)) = Bytes(c, Cached(d))
  BY <1>4, BytesSame
<1>9. d.used = Bytes(d, Cached(d)) /\ d.used <= c.used /\ d.used \in Nat
  <2>1. c.used = Bytes(c, Cached(d)) + Bytes(c, gone)
    BY <1>5, <1>6 DEF Exact
  <2> QED BY <1>4, <1>7, <1>8, <2>1
<1>10. ASSUME d.used > MaxSize PROVE Cardinality(Cached(d)) = 1
  <2>1. MaxSize \in Nat
    BY CacheAssumption
  <2>2. Cardinality(Cached(c)) = 1
    BY <1>3, <1>9, <1>10, <2>1 DEF Exact
  <2>3. Cardinality(Cached(d)) # 0
    <3>1. Cardinality(Cached(d)) = 0 => Cached(d) = {}
      BY <1>5, FS_EmptySet
    <3>2. Cached(d) = {} => d.used = 0
      BY <1>9, BytesOfNone
    <3> QED BY <1>10, <2>1, <3>1, <3>2
  <2> QED BY <1>5, <2>2, <2>3
<1> QED BY <1>1, <1>4, <1>9, <1>10 DEF Exact

LEMMA DeletedKeeps == ASSUME NEW c, Listed(c), NEW ks PROVE Keeps(c, Deleted(c, ks))
BY DeletedListed, DeletedExact DEF Keeps

LEMMA LookedKeeps == ASSUME NEW c, Listed(c), NEW k \in Keys PROVE Keeps(c, Looked(c, k))
<1>1. CASE ~Live(c, k)
  BY <1>1, DeletedKeeps DEF Looked, Keeps
<1>2. CASE Live(c, k)
  <2>1. PICK d : d = Touched(c, k)
    OBVIOUS
  <2>2. Looked(c, k) = d /\ k \in Cached(c)
    BY <1>2, <2>1 DEF Looked, Live
  <2>3. /\ IsCache(d) /\ d.entries = c.entries /\ d.used = c.used
        /\ d.order \in {c.order, Append(Only(c.order, Keys \ {k}), k)}
    BY <2>1, TouchedMeans, ListedCounts DEF Within
  <2>4. Cached(d) = Cached(c)
    BY <2>3 DEF Cached
  <2>5. Lists(Append(Only(c.order, Keys \ {k}), k), Cached(c))
    <3>1. Lists(Only(c.order, Keys \ {k}), Cached(c) \cap (Keys \ {k}))
      BY OnlyLists DEF Listed
    <3>2. /\ k \notin Cached(c) \cap (Keys \ {k})
          /\ (Cached(c) \cap (Keys \ {k})) \cup {k} = Cached(c)
      BY <2>2 DEF Cached
    <3> QED BY <3>1, <3>2, AppendedLists
  <2>6. Bytes(d, Cached(d)) = Bytes(c, Cached(c))
    BY <2>3, <2>4, BytesSame
  <2> QED BY <2>2, <2>3, <2>4, <2>5, <2>6 DEF Exact, Listed, Sized, Keeps
<1> QED BY <1>1, <1>2

\* A set of numbers up to n that has a member has a least one.
LEMMA LeastOf ==
    ASSUME NEW n \in Nat, NEW T, T \subseteq 0..n, T # {}
    PROVE  /\ (CHOOSE x \in T : \A y \in T : x <= y) \in T
<1>1. T \subseteq Nat
  OBVIOUS
<1> QED BY <1>1, SmallestNumber

\* evictLRU() and evictFIFO() take a beginning of the list that is long enough, or all of it.
LEMMA EvictionsAre ==
    ASSUME NEW c, Listed(c), NEW need \in Nat
    PROVE  \E n \in 0..Len(c.order) :
             /\ n = Evictions(c, need)
             /\ \/ n = Len(c.order)
                \/ Bytes(c, Front(c, n)) >= need /\ Cardinality(Cached(c)) - n < MaxEntries
<1>1. Len(c.order) \in Nat
  BY ListedCounts
<1> DEFINE enough == {n \in 0..Len(c.order) :
                        /\ Bytes(c, Front(c, n)) >= need
                        /\ Cardinality(Cached(c)) - n < MaxEntries}
<1>2. Evictions(c, need) = IF enough = {} THEN Len(c.order)
                           ELSE CHOOSE n \in enough : \A m \in enough : n <= m
  BY DEF Evictions
<1>3. CASE enough = {}
  BY <1>1, <1>2, <1>3
<1>4. CASE enough # {}
  <2>1. enough \subseteq 0..Len(c.order)
    OBVIOUS
  <2> HIDE DEF enough
  <2>2. Evictions(c, need) \in enough
    BY <1>1, <1>2, <1>4, <2>1, LeastOf
  <2> QED BY <2>2 DEF enough
<1> QED BY <1>3, <1>4

(* evict() always leaves place for an entry, and for its bytes too unless  *)
(* nothing is left at all.                                                 *)
LEMMA RoomMade ==
    ASSUME NEW c, Listed(c), NEW need \in Nat, need > 0
    PROVE  /\ Keeps(c, MakeRoom(c, need))
           /\ Cardinality(Cached(MakeRoom(c, need))) < MaxEntries
           /\ Exact(c) => \/ MakeRoom(c, need).used + need <= MaxSize
                          \/ Cached(MakeRoom(c, need)) = {}
<1>1. PICK d : d = MakeRoom(c, need)
  OBVIOUS
<1>2. /\ IsFiniteSet(Cached(c)) /\ Cardinality(Cached(c)) \in Nat
      /\ Cardinality(Cached(c)) = Len(c.order)
      /\ Exact(c) => c.used \in Nat
  BY ListedCounts, ExactCounts
<1>3. MaxSize \in Nat /\ MaxEntries \in Nat /\ MaxEntries > 0
  BY CacheAssumption
<1>4. CASE ~(c.used + need > MaxSize \/ Cardinality(Cached(c)) >= MaxEntries)
  <2>1. d = c
    BY <1>1, <1>4 DEF MakeRoom
  <2>2. /\ ~(Cardinality(Cached(c)) >= MaxEntries)
        /\ ~(c.used + need > MaxSize)
    BY <1>4
  <2>3. Cardinality(Cached(c)) < MaxEntries
    BY <1>2, <1>3, <2>2
  <2>4. Exact(c) => c.used + need <= MaxSize
    <3>1. Exact(c) => c.used \in Nat
      BY <1>2
    <3> QED BY <1>3, <2>2, <3>1
  <2> QED BY <1>1, <2>1, <2>3, <2>4 DEF Keeps
<1>5. CASE c.used + need > MaxSize \/ Cardinality(Cached(c)) >= MaxEntries
  <2>1. PICK n \in 0..Len(c.order) :
          /\ n = Evictions(c, need)
          /\ \/ n = Len(c.order)
             \/ Bytes(c, Front(c, n)) >= need /\ Cardinality(Cached(c)) - n < MaxEntries
    BY EvictionsAre
  <2>2. PICK gone : gone = Front(c, n)
    OBVIOUS
  <2>3. d = Deleted(c, gone)
    BY <1>1, <1>5, <2>1, <2>2 DEF MakeRoom
  <2>4. /\ gone \subseteq Cached(c) /\ IsFiniteSet(gone) /\ Cardinality(gone) = n
        /\ n = Len(c.order) => gone = Cached(c)
    <3>1. PICK q : q = c.order
      OBVIOUS
    <3>2. gone = Begin(q, n) /\ Lists(q, Cached(c)) /\ n \in 0..Len(q)
      BY <2>1, <2>2, <3>1 DEF Front, Listed, Begin
    <3>3. /\ Begin(q, n) \subseteq Cached(c)
          /\ IsFiniteSet(Begin(q, n)) /\ Cardinality(Begin(q, n)) = n
          /\ n = Len(q) => Begin(q, n) = Cached(c)
      BY <3>2, ListsCount
    <3> QED BY <3>1, <3>2, <3>3
  <2>5. gone \cap Cached(c) = gone
    BY <2>4
  <2>6. /\ Keeps(c, d) /\ Cached(d) = Cached(c) \ gone /\ d.used = c.used - Bytes(c, gone)
    BY <2>3, <2>5, DeletedListed, DeletedKeeps
  <2>7. /\ Cardinality(Cached(d)) = Cardinality(Cached(c)) - n /\ Bytes(c, gone) \in Nat
    <3>1. Cached(c) \cap gone = gone
      BY <2>4
    <3>2. Cardinality(Cached(c) \ gone) = Cardinality(Cached(c)) - Cardinality(Cached(c) \cap gone)
      BY <1>2, FS_Difference
    <3> QED BY <2>4, <2>6, <3>1, <3>2, BytesNat DEF Listed
  <2>8. CASE gone = Cached(c)
    <3>1. Cached(d) = {} /\ Cardinality(Cached(d)) = 0
      BY <2>6, <2>8, FS_EmptySet
    <3> QED BY <1>1, <1>3, <2>6, <3>1
  <2>9. CASE gone # Cached(c)
    <3>1. /\ Bytes(c, gone) >= need /\ Cardinality(Cached(c)) - n < MaxEntries
          /\ n # Len(c.order) /\ n \in Nat
      BY <2>1, <2>2, <2>4, <2>9
    <3>2. Cardinality(Cached(d)) < MaxEntries
      BY <2>7, <3>1
    <3>3. ASSUME Exact(c) PROVE d.used + need <= MaxSize
      <4>1. ASSUME c.used > MaxSize PROVE FALSE
        <5>1. Cardinality(Cached(c)) = 1
          BY <3>3, <4>1 DEF Exact
        <5>2. n = 0
          <6>1. Len(c.order) = 1
            BY <1>2, <5>1
          <6> QED BY <2>1, <3>1, <6>1
        <5>3. gone = {}
          BY <2>4, <5>2, FS_EmptySet
        <5> QED BY <3>1, <5>3, BytesOfNone
      <4>2. c.used \in Nat
        BY <1>2, <3>3
      <4>3. c.used <= MaxSize
        BY <1>3, <4>1, <4>2
      <4>4. d.used = c.used - Bytes(c, gone) /\ Bytes(c, gone) \in Nat /\ Bytes(c, gone) >= need
        BY <2>6, <2>7, <3>1
      <4> QED BY <1>3, <4>2, <4>3, <4>4
    <3> QED BY <1>1, <2>6, <3>2, <3>3
  <2> QED BY <2>8, <2>9
<1> QED BY <1>4, <1>5

(* set(): one entry more, or the old one's bytes against the new one's.    *)
LEMMA OverwritesListed ==
    ASSUME NEW c, Listed(c), NEW k \in Keys, NEW v \in 0..MaxVersion, NEW d, IsCache(d),
           Overwrites(c, d, k, v), Cardinality(Cached(c)) < MaxEntries
    PROVE  /\ Listed(d) /\ IsFiniteSet(Cached(c) \ {k})
           /\ Cardinality(Cached(d)) <= Cardinality(Cached(c)) + 1
<1>1. PICK rest : rest = Cached(c) \ {k}
  OBVIOUS
<1>2. IsFiniteSet(Cached(c)) /\ Cardinality(Cached(c)) \in Nat /\ MaxEntries \in Nat
  BY ListedCounts, CacheAssumption
<1>3. /\ Cached(d) = rest \cup {k} /\ k \notin rest /\ rest = Cached(c) \cap (Keys \ {k})
  BY <1>1 DEF Overwrites, Cached
<1>4. Sized(d)
  BY DEF Sized, Listed, Overwrites, Cached
<1>5. Lists(d.order, Cached(d))
  <2>1. Lists(Only(c.order, Keys \ {k}), rest)
    BY <1>3, OnlyLists DEF Listed
  <2>2. PICK q : q = Only(c.order, Keys \ {k})
    OBVIOUS
  <2>3. Lists(Append(q, k), rest \cup {k})
    BY <1>3, <2>1, <2>2, AppendedLists
  <2> QED BY <1>3, <2>2, <2>3 DEF Overwrites
<1>6. /\ IsFiniteSet(rest) /\ Cardinality(rest) <= Cardinality(Cached(c))
      /\ Cardinality(rest) \in Nat
  <2>1. rest \in SUBSET Cached(c)
    BY <1>1
  <2> QED BY <1>2, <2>1, FS_Subset, FS_CardinalityType
<1>7. Cardinality(Cached(d)) = Cardinality(rest) + 1
  BY <1>3, <1>6, FS_AddElement
<1> QED BY <1>1, <1>2, <1>4, <1>5, <1>6, <1>7 DEF Listed

LEMMA OverwritesExact ==
    ASSUME NEW c, Exact(c), NEW k \in Keys, NEW v \in 0..MaxVersion, NEW d, IsCache(d),
           Overwrites(c, d, k, v), Cardinality(Cached(c)) < MaxEntries,
           c.used + Size(v) <= MaxSize \/ Cached(c) = {}
    PROVE  Exact(d)
<1>1. PICK rest : rest = Cached(c) \ {k}
  OBVIOUS
<1>2. /\ IsFiniteSet(Cached(c)) /\ Cardinality(Cached(c)) \in Nat /\ c.used \in Nat
      /\ Sized(c) /\ Listed(d)
  BY ListedCounts, ExactCounts, OverwritesListed DEF Exact, Listed
<1>3. /\ MaxSize \in Nat /\ MaxEntries \in Nat /\ Size(v) \in Nat /\ Size(v) > 0
  BY CacheAssumption
<1>4. /\ Cached(d) = rest \cup {k} /\ rest \subseteq Cached(c) /\ k \notin rest
      /\ rest = Cached(c) \cap (Keys \ {k}) /\ rest \cap {k} = {}
  BY <1>1 DEF Overwrites, Cached
<1>5. Sized(d)
  BY <1>2 DEF Listed
<1>7. IsFiniteSet(rest) /\ IsFiniteSet({k}) /\ Bytes(c, rest) \in Nat
  <2>1. IsFiniteSet(rest) /\ IsFiniteSet({k})
    BY <1>1, OverwritesListed, FS_Singleton DEF Exact
  <2> QED BY <1>2, <1>4, <2>1, BytesNat
<1>8. Bytes(d, Cached(d)) = Bytes(c, rest) + Size(v)
  <2>1. k \in Cached(d) /\ rest \subseteq Cached(d) /\ {k} \subseteq Cached(d)
    BY <1>4
  <2>2. Bytes(d, rest \cup {k}) = Bytes(d, rest) + Bytes(d, {k})
    BY <1>4, <1>5, <1>7, <2>1, BytesAdd
  <2>3. Bytes(d, {k}) = Size(v)
    <3>1. Bytes(d, {k}) = Size(d.entries[k].version)
      BY <1>5, <2>1, BytesOfOne
    <3> QED BY <3>1 DEF Overwrites
  <2>4. Bytes(d, rest) = Bytes(c, rest)
    <3>1. \A x \in rest : d.entries[x].version = c.entries[x].version
      BY <1>4 DEF Overwrites, Cached
    <3> QED BY <3>1, BytesSame
  <2> QED BY <1>4, <2>2, <2>3, <2>4
<1>9. /\ k \in Cached(c) => /\ Bytes(c, Cached(c)) = Bytes(c, rest) + Size(c.entries[k].version)
                            /\ Size(c.entries[k].version) \in Nat
      /\ k \notin Cached(c) => Bytes(c, Cached(c)) = Bytes(c, rest)
  <2>1. CASE k \in Cached(c)
    <3>1. rest \cup {k} = Cached(c) /\ {k} \subseteq Cached(c)
      BY <1>1, <2>1
    <3>2. Bytes(c, rest \cup {k}) = Bytes(c, rest) + Bytes(c, {k})
      BY <1>2, <1>4, <1>7, <3>1, BytesAdd
    <3> QED BY <1>2, <2>1, <3>1, <3>2, BytesOfOne, WeightIs
  <2>2. CASE k \notin Cached(c)
    <3>1. rest = Cached(c)
      BY <1>1, <2>2
    <3> QED BY <2>2, <3>1
  <2> QED BY <2>1, <2>2
<1>10. d.used = Bytes(d, Cached(d)) /\ d.used <= c.used + Size(v)
  <2>1. c.used = Bytes(c, Cached(c))
    BY DEF Exact
  <2>2. CASE k \in Cached(c)
    <3>1. d.used = c.used - Size(c.entries[k].version) + Size(v)
      BY <2>2 DEF Overwrites
    <3> QED BY <1>2, <1>3, <1>7, <1>8, <1>9, <2>1, <2>2, <3>1
  <2>3. CASE k \notin Cached(c)
    <3>1. d.used = c.used - 0 + Size(v)
      BY <2>3 DEF Overwrites
    <3> QED BY <1>2, <1>3, <1>7, <1>8, <1>9, <2>1, <2>3, <3>1
  <2> QED BY <2>2, <2>3
<1>12. ASSUME d.used > MaxSize PROVE Cardinality(Cached(d)) = 1
  <2>1. Cached(c) = {}
    <3>1. d.used \in Nat
      BY <1>3, <1>7, <1>8, <1>10
    <3> QED BY <1>2, <1>3, <1>10, <1>12, <3>1
  <2>2. Cached(d) = {k}
    BY <1>1, <1>4, <2>1
  <2> QED BY <2>2, FS_Singleton
<1> QED BY <1>2, <1>10, <1>12 DEF Exact

LEMMA StoredKeeps ==
    ASSUME NEW c, Listed(c), Indexes(c), NEW k \in Keys, NEW v \in 0..MaxVersion,
           NEW opts \in LoadOptions \cup WriteOptions, NEW late \in BOOLEAN
    PROVE  Keeps(c, Stored(c, k, v, opts, late))
<1>1. PICK room : room = MakeRoom(c, Size(v))
  OBVIOUS
<1>2. PICK d : d = Stored(c, k, v, opts, late)
  OBVIOUS
<1>3. Size(v) \in Nat /\ Size(v) > 0 /\ v \in Nat
  BY CacheAssumption
<1>4. /\ Keeps(c, room) /\ Cardinality(Cached(room)) < MaxEntries
      /\ Exact(c) => room.used + Size(v) <= MaxSize \/ Cached(room) = {}
  BY <1>1, <1>3, RoomMade
<1>5. IsCache(d) /\ Overwrites(room, d, k, v)
  <2>1. IsCache(c)
    BY ListedCounts
  <2> QED BY <1>1, <1>2, <1>3, <2>1, StoredMeans
<1>6. Listed(d)
  BY <1>4, <1>5, OverwritesListed DEF Keeps
<1>7. Exact(c) => Exact(d)
  BY <1>4, <1>5, OverwritesExact DEF Keeps
<1> QED BY <1>2, <1>6, <1>7 DEF Keeps

-----------------------------------------------------------------------------
\* The cache and the snapshots are exact, unless they are known not to be, and
\* nothing but versions of the source gets into them.
Sizes(c, off) == Listed(c) /\ (~off => Exact(c))

SizesInv ==
    /\ Sizes(cache, skewed)
    /\ Sizes(saved.cache, saved.skewed)
    /\ saving # None => Sizes(saving.cache, saving.skewed)
    /\ source \in 0..MaxVersion
    /\ \A f \in Fetches : fetch[f] # None /\ fetch[f].version # None =>
                            fetch[f].version \in 0..MaxVersion

LEMMA InitSizes == Init => SizesInv
<1> SUFFICES ASSUME Init PROVE SizesInv
  OBVIOUS
<1>1. source \in 0..MaxVersion
  BY CacheAssumption DEF Init
<1> QED BY <1>1, EmptyExact DEF Init, SizesInv, Sizes

\* An entry that expires keeps its bytes and its place.
LEMMA ExpiresKeeps ==
    ASSUME CacheTypes, Listed(cache), NEW k \in Keys, EntryExpires(k)
    PROVE  Keeps(cache, cache')
<1> DEFINE x == [cache.entries[k] EXCEPT !.expired = TRUE]
           en == [cache.entries EXCEPT ![k] = x]
           d == [cache EXCEPT !.entries = en]
<1>1. k \in Cached(cache) /\ cache' = d
  BY DEF EntryExpires, Live, CacheTypes, IsCache
<1>2. cache.entries[k] \in Entries
  BY <1>1 DEF Cached, CacheTypes, IsCache
<1>3. x \in Entries /\ x.version = cache.entries[k].version
  BY <1>2 DEF Entries
<1> HIDE DEF x
<1>4. /\ en \in [Keys -> Entries \cup {None}] /\ en[k] = x
      /\ \A y \in Keys : y # k => en[y] = cache.entries[y]
  BY <1>3 DEF CacheTypes, IsCache
<1> HIDE DEF en
<1>5. d.entries = en /\ d.order = cache.order /\ d.used = cache.used /\ IsCache(d)
  BY <1>4 DEF CacheTypes, IsCache
<1> HIDE DEF d
<1>6. Cached(d) = Cached(cache)
  BY <1>1, <1>3, <1>4, <1>5, NoneIsNothing DEF Cached
<1>7. \A y \in Cached(cache) : d.entries[y].version = cache.entries[y].version
  BY <1>3, <1>4, <1>5 DEF Cached
<1> QED BY <1>1, <1>5, <1>6, <1>7, SameKeeps DEF Keeps

\* The tag index plays no part in the sizes.
LEMMA TagKeeps ==
    ASSUME CacheTypes, Listed(cache), NEW t \in Tags, InvalidateByTag(t)
    PROVE  Keeps(cache, cache')
<1>1. PICK c : c = Deleted(cache, cache.tagIndex[t])
  OBVIOUS
<1>2. Keeps(cache, c)
  BY <1>1, DeletedKeeps
<1> DEFINE ti == [c.tagIndex EXCEPT ![t] = {}]
           d == [c EXCEPT !.tagIndex = ti]
<1>3. IsCache(c)
  BY <1>2, ListedCounts DEF Keeps
<1>4. cache' = d
  BY <1>1, <1>3 DEF InvalidateByTag, IsCache
<1>5. ti \in [Tags -> SUBSET Keys]
  BY <1>3 DEF IsCache
<1> HIDE DEF ti
<1>6. /\ d.entries = c.entries /\ d.order = c.order /\ d.used = c.used /\ IsCache(d)
  BY <1>3, <1>5 DEF IsCache
<1> HIDE DEF d
<1>7. Cached(d) = Cached(c)
  BY <1>6 DEF Cached
<1> QED BY <1>2, <1>4, <1>6, <1>7, SameKeeps DEF Keeps

\* What is not a snapshot's doing keeps the cache as good as it was.
LEMMA SizesStep ==
    ASSUME CacheInv, SizesInv, Next PROVE Sizes(cache, skewed)'
<1>1. /\ CacheTypes /\ Listed(cache) /\ Indexes(cache) /\ source \in 0..MaxVersion
      /\ ~skewed => Exact(cache)
  BY DEF CacheInv, FreshInv, SizesInv, Sizes
<1>2. ASSUME Keeps(cache, cache'), skewed' = skewed PROVE Sizes(cache, skewed)'
  BY <1>1, <1>2 DEF Keeps, Sizes
<1>3. ASSUME cache' = cache, skewed' = skewed PROVE Sizes(cache, skewed)'
  BY <1>1, <1>3 DEF Sizes
<1>4. ASSUME NEW ks, cache' = Deleted(cache, ks), skewed' = skewed PROVE Sizes(cache, skewed)'
  BY <1>1, <1>2, <1>4, DeletedKeeps
<1>5. ASSUME NEW k \in Keys, cache' = Looked(cache, k), skewed' = skewed
      PROVE  Sizes(cache, skewed)'
  BY <1>1, <1>2, <1>5, LookedKeeps
<1>6. ASSUME NEW k \in Keys, NEW opts \in WriteOptions, Set(k, opts) PROVE Sizes(cache, skewed)'
  <2>1. cache' = Stored(cache, k, source, opts, FALSE) /\ skewed' = skewed
    BY <1>6 DEF Set
  <2>2. Keeps(cache, cache')
    BY <1>1, <2>1, StoredKeeps
  <2> QED BY <1>2, <2>1, <2>2
<1>7. ASSUME NEW f \in Fetches, FetchSettles(f) PROVE Sizes(cache, skewed)'
  <2>1. PICK call : call = fetch[f]
    OBVIOUS
  <2>2. /\ call # None /\ call.version # None /\ skewed' = skewed
        /\ cache' = Stored(cache, call.key, call.version, call.opts, call.late)
    BY <1>7, <2>1 DEF FetchSettles
  <2>3. call \in Calls /\ call.version \in 0..MaxVersion
    BY <1>1, <2>1, <2>2 DEF CacheTypes, SizesInv
  <2>4. /\ call.key \in Keys /\ call.opts \in LoadOptions \cup WriteOptions
        /\ call.late \in BOOLEAN
    BY <2>3 DEF Calls
  <2>5. Keeps(cache, cache')
    BY <1>1, <2>2, <2>3, <2>4, StoredKeeps
  <2> QED BY <1>2, <2>2, <2>5
<1>8. CASE Requests
  <2>1. ASSUME NEW t \in Tags, InvalidateByTag(t) PROVE Sizes(cache, skewed)'
    BY <1>1, <1>2, <2>1, TagKeeps DEF InvalidateByTag
  <2> QED BY <1>4, <1>5, <1>6, <1>8, <2>1 DEF Requests, Get, Has, Delete, InvalidateByPattern
<1>9. ASSUME NEW k \in Keys, NEW opts \in LoadOptions, NEW f \in Fetches,
             GetOrSet(k, opts, f) \/ Warm(k, opts, f)
      PROVE  Sizes(cache, skewed)'
  BY <1>3, <1>5, <1>9 DEF GetOrSet, Warm
<1>10. CASE Restart
  <2>1. CASE cache' = Empty
    BY <2>1, EmptyExact DEF Sizes
  <2>2. CASE cache' # Empty
    <3>1. cache' = saved.cache /\ (~skewed' => ~saved.skewed)
      BY <1>10, <2>2 DEF Restart, Starts
    <3> QED BY <3>1 DEF SizesInv, Sizes
  <2> QED BY <2>1, <2>2
<1>11. ASSUME NEW f \in Fetches, Loader(f) PROVE Sizes(cache, skewed)'
  BY <1>3, <1>7, <1>10, <1>11 DEF Loader, FetchReads, FetchFails, RefreshFails
<1>12. ASSUME NEW k \in Keys, EntryExpires(k) PROVE Sizes(cache, skewed)'
  BY <1>1, <1>2, <1>12, ExpiresKeeps DEF EntryExpires
<1>13. ASSUME NEW k \in Keys, StaleCloses(k) PROVE Sizes(cache, skewed)'
  BY <1>3, <1>13 DEF StaleCloses
<1>14. CASE Clear
  <2>1. cache' = Empty
    BY <1>14 DEF Clear
  <2> QED BY <2>1, EmptyExact DEF Sizes
<1>15. CASE SourceChanges \/ Sweep \/ SaveExports \/ SaveWrites \/ SaveFails
  BY <1>3, <1>4, <1>15 DEF SourceChanges, Sweep, SaveExports, SaveWrites, SaveFails
<1> QED BY <1>8, <1>9, <1>10, <1>11, <1>12, <1>13, <1>14, <1>15 DEF Next

\* A snapshot is as exact as the cache was, unless the total has changed since.
LEMMA SavedSizes ==
    ASSUME CacheInv, SizesInv, [Next]_vars
    PROVE  /\ Sizes(saved.cache, saved.skewed)'
           /\ saving' # None => Sizes(saving.cache, saving.skewed)'
<1>1. CASE saved' = saved /\ saving' \in {saving, None}
  BY <1>1 DEF SizesInv, Sizes
<1>2. CASE SaveExports
  BY <1>2 DEF SaveExports, SizesInv, Sizes
<1>3. CASE SaveWrites
  <2>1. PICK c, d, off : /\ c = saving.cache /\ d = Recounted(c, cache.used)
                         /\ off = (saving.skewed \/ saving.cache.used # cache.used)
    OBVIOUS
  <2>2. saving # None /\ saved'.cache = d /\ saved'.skewed = off /\ saving' = None
    BY <1>3, <2>1 DEF SaveWrites, Recounted
  <2>3. Listed(c) /\ (~saving.skewed => Exact(c)) /\ IsCache(c)
    BY <2>1, <2>2, ListedCounts DEF SizesInv, Sizes
  <2>4. /\ IsCache(d) /\ d.entries = c.entries /\ d.order = c.order
        /\ d.used = cache.used /\ Cached(d) = Cached(c)
    BY <2>1, <2>3, RecountedMeans
  <2>5. Listed(d) /\ (d.used = c.used /\ Exact(c) => Exact(d))
    BY <2>3, <2>4, SameKeeps
  <2>6. Sizes(d, off)
    BY <2>1, <2>3, <2>4, <2>5 DEF Sizes
  <2> QED BY <2>2, <2>6
<1> QED BY <1>1, <1>2, <1>3, SavedChanges

\* A loader reads a version the source has.
LEMMA VersionsStep ==
    ASSUME CacheInv, SizesInv, Next
    PROVE  /\ source' \in 0..MaxVersion
           /\ \A f \in Fetches : fetch'[f] # None /\ fetch'[f].version # None =>
                                   fetch'[f].version \in 0..MaxVersion
<1> DEFINE Versions == \A f \in Fetches : fetch'[f] # None /\ fetch'[f].version # None =>
                                            fetch'[f].version \in 0..MaxVersion
<1>1. /\ CacheTypes /\ source \in 0..MaxVersion
      /\ \A f \in Fetches : fetch[f] # None /\ fetch[f].version # None =>
                              fetch[f].version \in 0..MaxVersion
  BY DEF CacheInv, SizesInv
<1>2. ASSUME \A f \in Fetches : \/ fetch'[f] \in {None, fetch[f]}
                                \/ fetch'[f].version \in {None, source}
                                \/ fetch[f] # None /\ fetch'[f].version = fetch[f].version
      PROVE  Versions
  BY <1>1, <1>2
<1>3. source' \in 0..MaxVersion
  <2>1. CASE SourceChanges
    BY <1>1, <2>1, CacheAssumption DEF SourceChanges
  <2>2. CASE ~SourceChanges
    <3>1. source' = source
      BY <2>2 DEF Next, Requests, Loader, Get, Has, Delete, Set, InvalidateByPattern, InvalidateByTag,
         Invalidate, GetOrSet, Warm, FetchReads, FetchSettles, FetchFails, RefreshFails, EntryExpires,
         StaleCloses, Clear, Sweep, SaveExports, SaveWrites, SaveFails, Restart, Starts
    <3> QED BY <1>1, <3>1
  <2> QED BY <2>1, <2>2
<1> HIDE DEF Versions
<1>4. ASSUME UNCHANGED fetch PROVE Versions
  BY <1>2, <1>4
<1>5. ASSUME NEW ks, Invalidate(ks) PROVE Versions
  <2>1. \A f \in Fetches : /\ fetch'[f] = None <=> fetch[f] = None
                           /\ fetch[f] # None => fetch'[f].version = fetch[f].version
    BY <1>1, <1>5, InvalidateMeans
  <2> QED BY <1>2, <2>1
<1>6. ASSUME Requests PROVE Versions
  BY <1>4, <1>5, <1>6 DEF Requests, Get, Has, Delete, Set, InvalidateByPattern, InvalidateByTag
<1>7. ASSUME NEW f \in Fetches, NEW k \in Keys, NEW opts \in LoadOptions,
             NEW kind \in {"refresh", "cold", "warm"}, Start(f, k, kind, opts)
      PROVE  Versions
  <2>1. fetch'[f].version = None /\ \A g \in Fetches : g # f => fetch'[g] = fetch[g]
    BY <1>1, <1>7, StartMeans
  <2> QED BY <1>2, <2>1
<1>8. ASSUME NEW k \in Keys, NEW opts \in LoadOptions, NEW f \in Fetches, GetOrSet(k, opts, f)
      PROVE  Versions
  <2>1. CASE UNCHANGED fetch
    BY <1>4, <2>1
  <2>2. ASSUME Start(f, k, IF staleData[k] # None THEN "refresh" ELSE "cold", opts) PROVE Versions
    <3>1. CASE staleData[k] # None
      <4>1. Start(f, k, "refresh", opts)
        BY <2>2, <3>1
      <4> QED BY <1>7, <4>1
    <3>2. CASE staleData[k] = None
      <4>1. Start(f, k, "cold", opts)
        BY <2>2, <3>2
      <4> QED BY <1>7, <4>1
    <3> QED BY <3>1, <3>2
  <2> QED BY <1>8, <2>1, <2>2 DEF GetOrSet
<1>9. ASSUME NEW k \in Keys, NEW opts \in LoadOptions, NEW f \in Fetches, Warm(k, opts, f)
      PROVE  Versions
  <2>1. Start(f, k, "warm", opts)
    BY <1>9 DEF Warm
  <2> QED BY <1>7, <2>1
<1>10. ASSUME NEW f \in Fetches, FetchReads(f) PROVE Versions
  <2>1. fetch'[f].version = source /\ \A g \in Fetches : g # f => fetch'[g] = fetch[g]
    BY <1>1, <1>10, ReadsMeans
  <2> QED BY <1>2, <2>1
<1>11. ASSUME NEW f \in Fetches, FetchSettles(f) \/ FetchFails(f) \/ RefreshFails(f) PROVE Versions
  <2>1. \A g \in Fetches : fetch'[g] \in {None, fetch[g]}
    BY <1>1, <1>11 DEF FetchSettles, FetchFails, RefreshFails, Restart, Starts, CacheTypes
  <2> QED BY <1>2, <2>1
<1>12. ASSUME NEW k \in Keys, EntryExpires(k) \/ StaleCloses(k) PROVE Versions
  BY <1>4, <1>12 DEF EntryExpires, StaleCloses
<1>13. ASSUME \/ Clear \/ SourceChanges \/ Sweep
              \/ SaveExports \/ SaveWrites \/ SaveFails
       PROVE  Versions
  BY <1>4, <1>5, <1>13 DEF Clear, SourceChanges, Sweep, SaveExports, SaveWrites, SaveFails
<1>14. ASSUME Restart PROVE Versions
  <2>1. \A g \in Fetches : fetch'[g] \in {None, fetch[g]}
    BY <1>14 DEF Restart, Starts
  <2> QED BY <1>2, <2>1
<1>15. Versions
  BY <1>6, <1>8, <1>9, <1>10, <1>11, <1>12, <1>13, <1>14 DEF Next, Loader
<1> QED BY <1>3, <1>15 DEF Versions

(* stats.size is the sum of the sizes of the entries, the order of         *)
(* eviction has every key of the map once, and both limits hold but for a  *)
(* single value larger than the cache, for any sizes, limits and order.    *)
(* Of the bytes this holds unless the process started from a snapshot with *)
(* the statistics of another moment, until it clears the cache; of the     *)
(* order and the number of entries it always does.                         *)
THEOREM SizeExactHolds == Spec => []SizeExact
<1>1. ASSUME SizesInv, CacheInv, [Next]_vars PROVE SizesInv'
  <2>1. CASE Next
    BY <1>1, <2>1, SizesStep, SavedSizes, VersionsStep DEF SizesInv
  <2>2. CASE UNCHANGED vars
    BY <1>1, <2>2 DEF vars, savedVars, SizesInv, Sizes
  <2> QED BY <1>1, <2>1, <2>2
<1>2. ASSUME SizesInv PROVE SizeExact
  <2>1. Listed(cache) /\ (~skewed => Exact(cache))
    BY <1>2 DEF SizesInv, Sizes
  <2>2. PICK n : n = Len(cache.order)
    OBVIOUS
  <2>3. n \in Nat /\ Cardinality(Cached(cache)) = n
    BY <2>1, <2>2, ListedCounts
  <2>4. n \in 0..Len(cache.order)
    BY <2>2, <2>3
  <2>5. Begin(cache.order, n) = Cached(cache)
    BY <2>1, <2>2, <2>4, ListsCount DEF Listed
  <2> QED BY <2>1, <2>2, <2>3, <2>5 DEF SizeExact, Exact, Listed, Front, Begin
<1> QED BY <1>1, <1>2, InitSizes, CacheHolds, PTL DEF Spec
================================================================================
