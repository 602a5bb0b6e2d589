----------------------------- MODULE ServicesProofs -----------------------------
(***************************************************************************)
(* The services beside the stores, for any keys, tenants, requests and     *)
(* flushes: what authentication grants and for how long, what the usage    *)
(* meter bills, how many calls the rate limiter lets through, in which     *)
(* order a priority queue serves what waits in it, and what the ranges of  *)
(* a sorted set answer.  The two sums are folds over a set: their laws     *)
(* come first, by the smallest counterexample.                             *)
(***************************************************************************)
EXTENDS Services, FiniteSetTheorems, WellFoundedInduction, TLAPS

(***************************************************************************)
(* KeyValidator.  A grant comes from a lookup that read the row good, from *)
(* an internal key, or from an entry of the cache; and an entry was made   *)
(* by one of the first two, not longer than cacheTtlMs before it expires.  *)
(***************************************************************************)
Refusals == {"INVALID_EXTERNAL_KEY", "INSUFFICIENT_SCOPE", "TENANT_MISMATCH", "ORG_SUSPENDED"}

Lookups == [key: External, tenant: Tenants \ {""}, state: {"sent", "good"} \cup Refusals]

KeyTypes ==
    /\ row \in [External -> Standings]
    /\ cache \in [Pairs -> Nat]
    /\ lookup \in [Requests -> Lookups \cup {NoLookup}]
    /\ granted \subseteq ApiKeys \X Tenants
    /\ now \in Nat
    /\ backed \in [Pairs -> Nat]

\* The org of an external key is the tenant it is looked up or cached for.
OwnersMatch ==
    /\ \A c \in Pairs : c[1] \in External /\ cache[c] # 0 => c[2] = Owner[c[1]]
    /\ \A r \in Requests : lookup[r].state = "good" => lookup[r].tenant = Owner[lookup[r].key]

\* No entry outlives by more than cacheTtlMs the last moment it was justified.
EntriesBacked ==
    \A c \in Pairs : backed[c] <= now /\ cache[c] <= backed[c] + CacheTtl

KeyInv == KeyTypes /\ OwnersMatch /\ TenantMatches /\ EntriesBacked

\* The verdict on an external key is one of these, and "ok" for its owner only.
LEMMA JudgedMeans ==
    ASSUME NEW k \in External, NEW t \in Tenants, NEW s \in Standings
    PROVE  /\ Judged(k, t, s) \in Refusals \cup {"ok"}
           /\ Judged(k, t, s) = "ok" => t = Owner[k] /\ s = "good"
BY DEF Judged, Refusals, Standings

\* A key that is not external is let through only as an internal one.
LEMMA JudgedAtOnceMeans ==
    ASSUME NEW k \in ApiKeys, JudgedAtOnce(k) = "ok"
    PROVE  k \in InternalKeys
BY DEF JudgedAtOnce

(* Steps other than invalidations: the history variable only grows, and    *)
(* stands at the present for what is justified before the step.            *)
LEMMA BacksMeans ==
    ASSUME KeyTypes, EntriesBacked, Backs, now' \in Nat, now <= now'
    PROVE  /\ backed' \in [Pairs -> Nat]
           /\ \A c \in Pairs : backed[c] <= backed'[c] /\ backed'[c] <= now'
           /\ \A c \in Pairs : Justified(c, row, lookup) => backed'[c] = now'
BY DEF KeyTypes, EntriesBacked, Backs

LEMMA InitKeysInv == InitKeys => KeyInv
<1> SUFFICES ASSUME InitKeys PROVE KeyInv
  OBVIOUS
<1>1. NoLookup.state = "none" /\ CacheTtl \in Nat
  BY KeyAssumption DEF NoLookup
<1>2. KeyTypes
  BY DEF InitKeys, KeyTypes, Standings
<1>3. OwnersMatch /\ TenantMatches
  BY <1>1 DEF InitKeys, OwnersMatch, TenantMatches
<1>4. EntriesBacked
  BY <1>1 DEF InitKeys, EntriesBacked
<1> QED BY <1>2, <1>3, <1>4 DEF KeyInv

LEMMA KeysStep == KeyInv /\ [NextKeys]_keyVars => KeyInv'
<1> SUFFICES ASSUME KeyInv, [NextKeys]_keyVars PROVE KeyInv'
  OBVIOUS
<1> USE DEF KeyInv
<1>a. NoLookup.state = "none" /\ CacheTtl \in Nat \ {0}
  BY KeyAssumption DEF NoLookup
<1>1. ASSUME NEW k \in ApiKeys, NEW t \in Tenants, RefusesIncomplete(k, t) PROVE KeyInv'
  <2>1. granted' = granted /\ UNCHANGED <<row, cache, lookup, now>> /\ Backs
    BY <1>1 DEF RefusesIncomplete, Answers
  <2>2. /\ backed' \in [Pairs -> Nat]
        /\ \A c \in Pairs : backed[c] <= backed'[c] /\ backed'[c] <= now'
    BY <2>1, BacksMeans DEF KeyTypes
  <2> QED BY <1>a, <2>1, <2>2 DEF KeyTypes, OwnersMatch, TenantMatches, EntriesBacked
<1>2. ASSUME NEW k \in ApiKeys, NEW t \in Tenants, AnswersFromCache(k, t) PROVE KeyInv'
  <2>1. /\ granted' = granted \cup {<<k, t>>}
        /\ UNCHANGED <<row, cache, lookup, now>> /\ Backs
        /\ <<k, t>> \in Pairs /\ cache[<<k, t>>] > now
    BY <1>2 DEF AnswersFromCache, Answers, Hit, Presented, Fresh, CacheKey, Pairs
  <2>2. /\ backed' \in [Pairs -> Nat]
        /\ \A c \in Pairs : backed[c] <= backed'[c] /\ backed'[c] <= now'
    BY <2>1, BacksMeans DEF KeyTypes
  <2>3. k \in External => t = Owner[k]
    BY <2>1 DEF OwnersMatch, KeyTypes
  <2> QED BY <1>a, <2>1, <2>2, <2>3 DEF KeyTypes, OwnersMatch, TenantMatches, EntriesBacked
<1>3. ASSUME NEW k \in ApiKeys, NEW t \in Tenants, AnswersAtOnce(k, t) PROVE KeyInv'
  <2>1. /\ <<k, t>> \in Pairs /\ k \notin External
        /\ UNCHANGED <<row, lookup, now>> /\ Backs
    BY <1>3 DEF AnswersAtOnce, Presented, Pairs, External
  <2>2. /\ backed' \in [Pairs -> Nat]
        /\ \A c \in Pairs : backed[c] <= backed'[c] /\ backed'[c] <= now'
        /\ \A c \in Pairs : Justified(c, row, lookup) => backed'[c] = now'
    BY <2>1, BacksMeans DEF KeyTypes
  <2>3. CASE JudgedAtOnce(k) = "ok"
    <3>1. /\ granted' = granted \cup {<<k, t>>}
          /\ cache' = [cache EXCEPT ![<<k, t>>] = now + CacheTtl]
      BY <1>3, <2>3 DEF AnswersAtOnce, Answers, CachesGrant, CacheKey
    <3>2. backed'[<<k, t>>] = now
      BY <2>1, <2>2, <2>3, JudgedAtOnceMeans DEF Justified
    <3> QED BY <1>a, <2>1, <2>2, <3>1, <3>2
            DEF KeyTypes, OwnersMatch, TenantMatches, EntriesBacked
  <2>4. CASE JudgedAtOnce(k) # "ok"
    <3>1. granted' = granted /\ cache' = cache
      BY <1>3, <2>4 DEF AnswersAtOnce, Answers, CachesGrant, CacheKey, KeyTypes
    <3> QED BY <1>a, <2>1, <2>2, <3>1 DEF KeyTypes, OwnersMatch, TenantMatches, EntriesBacked
  <2> QED BY <2>3, <2>4
<1>4. ASSUME NEW k \in ApiKeys, NEW t \in Tenants, NEW r \in Requests, Asks(r, k, t)
      PROVE  KeyInv'
  <2>1. /\ <<k, t>> \in Pairs /\ k \in External
        /\ UNCHANGED <<row, granted, now>> /\ Backs
        /\ lookup' = [lookup EXCEPT ![r] = [key |-> k, tenant |-> t, state |-> "sent"]]
        /\ cache' = [cache EXCEPT ![<<k, t>>] = 0]
    BY <1>4 DEF Asks, Presented, Pairs, External, CacheKey
  <2>2. /\ backed' \in [Pairs -> Nat]
        /\ \A c \in Pairs : backed[c] <= backed'[c] /\ backed'[c] <= now'
    BY <2>1, BacksMeans DEF KeyTypes
  <2> DEFINE asked == [key |-> k, tenant |-> t, state |-> "sent"]
  <2>3. asked \in Lookups /\ asked.state # "good"
    BY <2>1 DEF Pairs, Lookups
  <2>4. lookup' = [lookup EXCEPT ![r] = asked]
    BY <2>1
  <2> HIDE DEF asked
  <2>5. UNCHANGED <<row, granted, now>> /\ cache' = [cache EXCEPT ![<<k, t>>] = 0]
    BY <2>1
  <2>6. KeyTypes'
    BY <2>2, <2>3, <2>4, <2>5 DEF KeyTypes
  <2>7. OwnersMatch'
    BY <2>3, <2>4, <2>5 DEF KeyTypes, OwnersMatch
  <2>8. EntriesBacked'
    BY <1>a, <2>2, <2>5 DEF KeyTypes, EntriesBacked
  <2> QED BY <2>5, <2>6, <2>7, <2>8 DEF TenantMatches
<1>5. ASSUME NEW r \in Requests, ReadsRow(r) PROVE KeyInv'
  <2>1. lookup[r] \in Lookups
    BY <1>5, <1>a DEF ReadsRow, KeyTypes
  <2> DEFINE verdict == Judged(lookup[r].key, lookup[r].tenant, row[lookup[r].key])
             state == IF verdict = "ok" THEN "good" ELSE verdict
  <2>2. /\ UNCHANGED <<row, cache, granted, now>> /\ Backs
        /\ lookup' = [lookup EXCEPT ![r] = [lookup[r] EXCEPT !.state = state]]
    BY <1>5, <2>1 DEF ReadsRow, KeyTypes
  <2>3. /\ backed' \in [Pairs -> Nat]
        /\ \A c \in Pairs : backed[c] <= backed'[c] /\ backed'[c] <= now'
    BY <2>2, BacksMeans DEF KeyTypes
  <2>4. /\ verdict \in Refusals \cup {"ok"}
        /\ verdict = "ok" => lookup[r].tenant = Owner[lookup[r].key]
    BY <2>1, JudgedMeans DEF Lookups, KeyTypes
  <2>5. /\ state \in {"good"} \cup Refusals
        /\ state = "good" => lookup[r].tenant = Owner[lookup[r].key]
    BY <2>4 DEF Refusals
  <2> HIDE DEF state
  <2>6. /\ [lookup[r] EXCEPT !.state = state] \in Lookups
        /\ [lookup[r] EXCEPT !.state = state].state = state
        /\ [lookup[r] EXCEPT !.state = state].key = lookup[r].key
        /\ [lookup[r] EXCEPT !.state = state].tenant = lookup[r].tenant
    BY <2>1, <2>5 DEF Lookups
  <2> QED BY <1>a, <2>2, <2>3, <2>5, <2>6
          DEF KeyTypes, OwnersMatch, TenantMatches, EntriesBacked
<1>6. ASSUME NEW r \in Requests, Settles(r) PROVE KeyInv'
  <2> DEFINE k == lookup[r].key
             t == lookup[r].tenant
  <2>1. lookup[r] \in Lookups /\ <<k, t>> \in Pairs /\ k \in ApiKeys /\ t \in Tenants
    BY <1>6, <1>a DEF Settles, KeyTypes, Lookups, Pairs, External
  <2>2. /\ UNCHANGED <<row, now>> /\ Backs
        /\ lookup' = [lookup EXCEPT ![r] = NoLookup]
    BY <1>6 DEF Settles
  <2>3. /\ backed' \in [Pairs -> Nat]
        /\ \A c \in Pairs : backed[c] <= backed'[c] /\ backed'[c] <= now'
        /\ \A c \in Pairs : Justified(c, row, lookup) => backed'[c] = now'
    BY <2>2, BacksMeans DEF KeyTypes
  <2>4. CASE lookup[r].state = "good"
    <3>1. /\ granted' = granted \cup {<<k, t>>}
          /\ cache' = [cache EXCEPT ![<<k, t>>] = now + CacheTtl]
      BY <1>6, <2>4 DEF Settles, Answers, CachesGrant, CacheKey
    <3>2. backed'[<<k, t>>] = now
      BY <2>1, <2>2, <2>3, <2>4 DEF Justified, Granting, CacheKey
    <3>3. t = Owner[k]
      BY <2>4 DEF OwnersMatch
    <3> HIDE DEF k, t
    <3> QED BY <1>a, <2>1, <2>2, <2>3, <3>1, <3>2, <3>3
            DEF KeyTypes, OwnersMatch, TenantMatches, EntriesBacked
  <2>5. CASE lookup[r].state # "good"
    <3>1. granted' = granted /\ cache' = cache
      BY <1>6, <2>1, <2>5 DEF Settles, Answers, CachesGrant, CacheKey, KeyTypes, Lookups,
         Refusals
    <3> QED BY <1>a, <2>2, <2>3, <3>1 DEF KeyTypes, OwnersMatch, TenantMatches, EntriesBacked
  <2> QED BY <2>4, <2>5
<1>7. ASSUME NEW r \in Requests, LookupFails(r) PROVE KeyInv'
  <2>1. /\ UNCHANGED <<row, cache, granted, now>> /\ Backs
        /\ lookup' = [lookup EXCEPT ![r] = NoLookup]
    BY <1>7 DEF LookupFails, Answers
  <2>2. /\ backed' \in [Pairs -> Nat]
        /\ \A c \in Pairs : backed[c] <= backed'[c] /\ backed'[c] <= now'
    BY <2>1, BacksMeans DEF KeyTypes
  <2> QED BY <1>a, <2>1, <2>2 DEF KeyTypes, OwnersMatch, TenantMatches, EntriesBacked
<1>8. ASSUME NEW C \in SUBSET Pairs, Unbacked(C), UNCHANGED <<row, lookup, granted, now>>,
             cache' = [c \in Pairs |-> IF c \in C THEN 0 ELSE cache[c]]
      PROVE  KeyInv'
  <2>1. /\ backed' \in [Pairs -> Nat]
        /\ \A c \in Pairs : /\ backed'[c] <= now
                            /\ c \notin C => backed[c] <= backed'[c]
    BY <1>8 DEF Unbacked, KeyTypes, EntriesBacked
  <2> QED BY <1>8, <1>a, <2>1 DEF KeyTypes, OwnersMatch, TenantMatches, EntriesBacked
<1>9. ASSUME NEW k \in ApiKeys, NEW t \in Tenants, Presented(k, t), Invalidate(k, t)
      PROVE  KeyInv'
  <2>1. <<k, t>> \in Pairs
    BY <1>9 DEF Presented, Pairs
  <2>2. cache' = [c \in Pairs |-> IF c \in {<<k, t>>} THEN 0 ELSE cache[c]]
    BY <1>9, <2>1 DEF Invalidate, CacheKey, KeyTypes
  <2> QED BY <1>8, <1>9, <2>1, <2>2 DEF Invalidate
<1>10. ASSUME ClearCache PROVE KeyInv'
  <2>1. cache' = [c \in Pairs |-> IF c \in Pairs THEN 0 ELSE cache[c]]
    BY <1>10 DEF ClearCache
  <2> QED BY <1>8, <1>10, <2>1 DEF ClearCache
<1>11. ASSUME NEW k \in External, RowChanges(k) PROVE KeyInv'
  <2>1. UNCHANGED <<cache, lookup, granted, now>> /\ Backs /\ row' \in [External -> Standings]
    BY <1>11 DEF RowChanges, KeyTypes
  <2>2. /\ backed' \in [Pairs -> Nat]
        /\ \A c \in Pairs : backed[c] <= backed'[c] /\ backed'[c] <= now'
    BY <2>1, BacksMeans DEF KeyTypes
  <2> QED BY <1>a, <2>1, <2>2 DEF KeyTypes, OwnersMatch, TenantMatches, EntriesBacked
<1>12. ASSUME TimePasses PROVE KeyInv'
  <2>1. UNCHANGED <<row, cache, lookup, granted>> /\ Backs /\ now' = now + 1 /\ now \in Nat
    BY <1>12 DEF TimePasses, KeyTypes
  <2>2. /\ backed' \in [Pairs -> Nat]
        /\ \A c \in Pairs : backed[c] <= backed'[c] /\ backed'[c] <= now'
    BY <2>1, BacksMeans
  <2> QED BY <1>a, <2>1, <2>2 DEF KeyTypes, OwnersMatch, TenantMatches, EntriesBacked
<1>13. ASSUME UNCHANGED keyVars PROVE KeyInv'
  BY <1>13 DEF keyVars, KeyTypes, OwnersMatch, TenantMatches, EntriesBacked
<1> QED
  BY <1>1, <1>2, <1>3, <1>4, <1>5, <1>6, <1>7, <1>9, <1>10, <1>11, <1>12, <1>13
  DEF NextKeys

LEMMA KeysEffect == KeyInv => RevocationTakesEffect
BY KeyAssumption DEF KeyInv, KeyTypes, EntriesBacked, RevocationTakesEffect, Fresh

(* keyValidator.ts:21: an external key is let through for the tenant its   *)
(* org belongs to and for no other, however hits of the cache, lookups     *)
(* under way, invalidations and changes of the row interleave.             *)
THEOREM TenantMatchesHolds == KeySpec => []TenantMatches
<1>1. KeyInv => TenantMatches
  BY DEF KeyInv
<1> QED BY <1>1, InitKeysInv, KeysStep, PTL DEF KeySpec

(* The cache grants nothing for longer than cacheTtlMs after the last      *)
(* moment the row, or a lookup that had read it good, justified the grant, *)
(* nor at all once invalidate() or clearCache() took the entry away.       *)
THEOREM RevocationTakesEffectHolds == KeySpec => []RevocationTakesEffect
BY KeysEffect, InitKeysInv, KeysStep, PTL DEF KeySpec
-----------------------------------------------------------------------------
(***************************************************************************)
(* Sums over a finite set, as MapThenSumSet takes them: it[s] is the sum   *)
(* of h over s, for every s \subseteq S.  Inductions over the size of s    *)
(* are arguments about a smallest set for which a claim fails.             *)
(***************************************************************************)
First(s) == CHOOSE x \in s : TRUE

Totals(it, S, h) ==
    it = [s \in SUBSET S |-> IF s = {} THEN 0 ELSE h[First(s)] + it[s \ {First(s)}]]

LEMMA FirstIn == ASSUME NEW s, s # {} PROVE First(s) \in s
BY DEF First

LEMMA SmallestNumber ==
    ASSUME NEW T, T \subseteq Nat, T # {}
    PROVE  \E x \in T : \A y \in T : x <= y
<1>1. PICK x \in T : \A y \in T : ~(<<y, x>> \in OpToRel(<, Nat))
  BY NatLessThanWellFounded, WFMin
<1>2. ASSUME NEW y \in T, y < x PROVE FALSE
  <2>1. <<y, x>> \in OpToRel(<, Nat)
    BY <1>2, Zenon DEF OpToRel
  <2> QED
    BY <2>1, <1>1
<1>3. \A y \in T : x <= y
  BY <1>2
<1> QED
  BY <1>3

\* A non-empty family of subsets of S has one without smaller ones.
LEMMA SmallestSet ==
    ASSUME NEW S, IsFiniteSet(S), NEW F, F \subseteq SUBSET S, F # {}
    PROVE  \E s \in F : \A a \in s : s \ {a} \notin F
<1>1. \A s \in F : IsFiniteSet(s) /\ Cardinality(s) \in Nat
  BY FS_Subset, FS_CardinalityType
<1> DEFINE T == {Cardinality(s) : s \in F}
<1>2. T \subseteq Nat /\ T # {}
  BY <1>1
<1>3. PICK n \in T : \A m \in T : n <= m
  <2> HIDE DEF T
  <2> QED
    BY <1>2, SmallestNumber
<1>4. PICK s \in F : Cardinality(s) = n
  BY <1>3
<1>5. ASSUME NEW a \in s, s \ {a} \in F PROVE FALSE
  <2>1. Cardinality(s \ {a}) = Cardinality(s) - 1
    BY <1>1, FS_RemoveElement
  <2>2. Cardinality(s \ {a}) \in T
    BY <1>5
  <2>3. n <= Cardinality(s \ {a})
    <3> HIDE DEF T
    <3> QED
      BY <1>3, <2>2
  <2> QED
    BY <1>1, <1>4, <2>1, <2>3
<1> QED
  BY <1>4, <1>5

LEMMA TotalsExist ==
    ASSUME NEW S, IsFiniteSet(S), NEW h
    PROVE  \E it : Totals(it, S, h)
<1> DEFINE Small(n) == {s \in SUBSET S : Cardinality(s) <= n}
           Upto(it, n) == it = [s \in Small(n) |-> IF s = {} THEN 0
                                                   ELSE h[First(s)] + it[s \ {First(s)}]]
           T == {n \in Nat : ~\E it : Upto(it, n)}
<1>1. \A s \in SUBSET S : /\ IsFiniteSet(s) /\ Cardinality(s) \in Nat
                          /\ Cardinality(s) <= Cardinality(S)
                          /\ Cardinality(s) = 0 => s = {}
  BY FS_Subset, FS_CardinalityType, FS_EmptySet
<1>2. \A s \in SUBSET S : s # {} => /\ First(s) \in s
                                    /\ s \ {First(s)} \in SUBSET S
                                    /\ Cardinality(s \ {First(s)}) = Cardinality(s) - 1
  BY <1>1, FirstIn, FS_RemoveElement
<1>3. ASSUME T # {} PROVE FALSE
  <2>1. PICK n \in T : \A m \in T : n <= m
    <3>1. T \subseteq Nat
      OBVIOUS
    <3> HIDE DEF T
    <3> QED
      BY <1>3, <3>1, SmallestNumber
  <2>2. CASE n = 0
    <3> DEFINE it == [s \in Small(0) |-> 0]
    <3>1. \A s \in Small(0) : s = {}
      BY <1>1
    <3>2. Upto(it, 0)
      BY <3>1
    <3> QED
      BY <2>1, <2>2, <3>2
  <2>3. CASE n # 0
    <3>0. n \in Nat
      BY <2>1
    <3>1. n - 1 \in Nat /\ n - 1 \notin T
      <4> HIDE DEF T
      <4> QED
        BY <2>1, <2>3, <3>0
    <3>2. PICK f : Upto(f, n - 1)
      BY <3>1
    <3> DEFINE Next1(s) == IF s = {} THEN 0 ELSE h[First(s)] + f[s \ {First(s)}]
               g == [s \in Small(n) |-> Next1(s)]
    <3>3. \A s \in Small(n - 1) : f[s] = Next1(s)
      BY <3>2
    <3>4. \A s \in Small(n) : s # {} => s \ {First(s)} \in Small(n - 1)
                                          /\ s \ {First(s)} \in Small(n)
      BY <1>1, <1>2, <2>1
    <3>5. \A s \in Small(n - 1) : s \in Small(n)
      BY <1>1, <2>1
    <3> HIDE DEF Small
    <3>6. \A s \in Small(n) : g[s] = Next1(s)
      OBVIOUS
    <3> HIDE DEF g
    <3>7. \A s \in Small(n) : s # {} => g[s \ {First(s)}] = f[s \ {First(s)}]
      <4> HIDE DEF Next1
      <4> QED
        BY <3>3, <3>4, <3>6
    <3>8. \A s \in Small(n) : g[s] = IF s = {} THEN 0 ELSE h[First(s)] + g[s \ {First(s)}]
      BY <3>6, <3>7
    <3>9. g = [s \in Small(n) |-> g[s]]
      BY DEF g
    <3>10. Upto(g, n)
      BY <3>8, <3>9
    <3> QED
      BY <2>1, <3>10
  <2> QED
    BY <2>2, <2>3
<1>4. Cardinality(S) \in Nat
  BY <1>1
<1>5. PICK it : Upto(it, Cardinality(S))
  BY <1>3, <1>4
<1>6. Small(Cardinality(S)) = SUBSET S
  BY <1>1
<1> QED
  BY <1>5, <1>6 DEF Totals

LEMMA TotalsStep ==
    ASSUME NEW S, NEW h, NEW it, Totals(it, S, h)
    PROVE  /\ it[{}] = 0
           /\ \A s \in SUBSET S : s # {} =>
                /\ First(s) \in S /\ First(s) \in s /\ s \ {First(s)} \in SUBSET S
                /\ it[s] = h[First(s)] + it[s \ {First(s)}]
<1>1. \A s \in SUBSET S : it[s] = IF s = {} THEN 0 ELSE h[First(s)] + it[s \ {First(s)}]
  BY DEF Totals
<1>2. \A s \in SUBSET S : s # {} => First(s) \in s /\ s \ {First(s)} \in SUBSET S
  BY FirstIn
<1> QED
  BY <1>1, <1>2

LEMMA TotalsNat ==
    ASSUME NEW S, IsFiniteSet(S), NEW h \in [S -> Nat], NEW it, Totals(it, S, h)
    PROVE  \A s \in SUBSET S : it[s] \in Nat
<1> DEFINE F == {s \in SUBSET S : it[s] \notin Nat}
<1> SUFFICES ASSUME F # {} PROVE FALSE
  OBVIOUS
<1>1. PICK s \in F : \A a \in s : s \ {a} \notin F
  <2>1. F \subseteq SUBSET S
    OBVIOUS
  <2> HIDE DEF F
  <2> QED
    BY <2>1, SmallestSet
<1>2. s # {}
  <2>1. it[{}] = 0
    BY TotalsStep
  <2>2. {} \notin F
    BY <2>1
  <2> HIDE DEF F
  <2> QED
    BY <1>1, <2>2
<1>3. First(s) \in S /\ s \ {First(s)} \in SUBSET S /\ it[s] = h[First(s)] + it[s \ {First(s)}]
  BY <1>1, <1>2, TotalsStep
<1>4. it[s \ {First(s)}] \in Nat
  BY <1>1, <1>2, <1>3, FirstIn
<1> QED
  BY <1>1, <1>3, <1>4

LEMMA TotalsZero ==
    ASSUME NEW S, IsFiniteSet(S), NEW h, \A x \in S : h[x] = 0, NEW it, Totals(it, S, h)
    PROVE  it[S] = 0
<1> DEFINE F == {s \in SUBSET S : it[s] # 0}
<1> SUFFICES ASSUME F # {} PROVE FALSE
  OBVIOUS
<1>1. PICK s \in F : \A a \in s : s \ {a} \notin F
  <2>1. F \subseteq SUBSET S
    OBVIOUS
  <2> HIDE DEF F
  <2> QED
    BY <2>1, SmallestSet
<1>2. s # {}
  <2>1. it[{}] = 0
    BY TotalsStep
  <2>2. {} \notin F
    BY <2>1
  <2> HIDE DEF F
  <2> QED
    BY <1>1, <2>2
<1>3. First(s) \in S /\ s \ {First(s)} \in SUBSET S /\ it[s] = h[First(s)] + it[s \ {First(s)}]
  BY <1>1, <1>2, TotalsStep
<1>4. it[s \ {First(s)}] = 0
  BY <1>1, <1>2, <1>3, FirstIn
<1> QED
  BY <1>1, <1>3, <1>4

\* One term changes: the sum changes by as much.
LEMMA TotalsChange ==
    ASSUME NEW S, IsFiniteSet(S), NEW h \in [S -> Nat], NEW g \in [S -> Nat], NEW a \in S,
           \A x \in S : x # a => h[x] = g[x],
           NEW it, Totals(it, S, h), NEW jt, Totals(jt, S, g)
    PROVE  it[S] + g[a] = jt[S] + h[a]
<1> DEFINE Moves(s) == IF a \in s THEN it[s] + g[a] = jt[s] + h[a] ELSE it[s] = jt[s]
           F == {s \in SUBSET S : ~Moves(s)}
<1>1. ASSUME F # {} PROVE FALSE
  <2>1. PICK s \in F : \A x \in s : s \ {x} \notin F
    <3>1. F \subseteq SUBSET S
      OBVIOUS
    <3> HIDE DEF F
    <3> QED
      BY <1>1, <3>1, SmallestSet
  <2>2. s # {}
    <3>1. it[{}] = 0 /\ jt[{}] = 0
      BY TotalsStep
    <3>2. Moves({})
      BY <3>1
    <3> HIDE DEF Moves
    <3> QED
      BY <2>1, <3>2
  <2> DEFINE x == First(s)
             r == s \ {x}
  <2>3. /\ x \in S /\ x \in s /\ r \in SUBSET S
        /\ it[s] = h[x] + it[r] /\ jt[s] = g[x] + jt[r]
    <3>1. s \in SUBSET S
      BY <2>1
    <3>2. it[s] = IF s = {} THEN 0 ELSE h[First(s)] + it[s \ {First(s)}]
      BY <3>1 DEF Totals
    <3>3. jt[s] = IF s = {} THEN 0 ELSE g[First(s)] + jt[s \ {First(s)}]
      BY <3>1 DEF Totals
    <3>4. First(s) \in s
      BY <2>2, FirstIn
    <3> QED
      BY <2>2, <3>1, <3>2, <3>3, <3>4
  <2>4. Moves(r)
    BY <2>1, <2>2, <2>3
  <2>5. {it[r], jt[r], h[x], g[x], h[a], g[a]} \subseteq Nat
    BY <2>3, TotalsNat
  <2>6. a \in s <=> a = x \/ a \in r
    BY <2>3
  <2>7. a = x => a \notin r
    OBVIOUS
  <2>8. a # x => h[x] = g[x]
    BY <2>3
  <2> HIDE DEF x, r
  <2>9. Moves(s)
    BY <2>3, <2>4, <2>5, <2>6, <2>7, <2>8
  <2> QED
    BY <2>1, <2>9
<1>2. Moves(S)
  BY <1>1
<1> QED
  BY <1>2

\* Any term may be taken out first.
LEMMA TotalsRemove ==
    ASSUME NEW S, IsFiniteSet(S), NEW h \in [S -> Nat], NEW it, Totals(it, S, h)
    PROVE  \A s \in SUBSET S : \A a \in s : it[s] = h[a] + it[s \ {a}]
<1> DEFINE F == {s \in SUBSET S : \E a \in s : it[s] # h[a] + it[s \ {a}]}
<1> SUFFICES ASSUME F # {} PROVE FALSE
  OBVIOUS
<1>1. PICK s \in F : \A a \in s : s \ {a} \notin F
  <2>1. F \subseteq SUBSET S
    OBVIOUS
  <2> HIDE DEF F
  <2> QED
    BY <2>1, SmallestSet
<1>2. PICK a \in s : it[s] # h[a] + it[s \ {a}]
  BY <1>1
<1> DEFINE x == First(s)
<1>3. x \in S /\ x \in s /\ s \ {x} \in SUBSET S /\ it[s] = h[x] + it[s \ {x}]
  <2>1. s \in SUBSET S /\ s # {}
    BY <1>1, <1>2
  <2> HIDE DEF F
  <2> QED
    BY <2>1, TotalsStep
<1>4. a # x /\ a \in S /\ s \ {a} \in SUBSET S
  BY <1>1, <1>2, <1>3
<1> HIDE DEF x
<1>5. it[s \ {x}] = h[a] + it[(s \ {x}) \ {a}]
  <2>1. a \in s \ {x} /\ s \ {x} \notin F
    BY <1>1, <1>3, <1>4
  <2> QED
    BY <1>3, <2>1
<1>6. it[s \ {a}] = h[x] + it[(s \ {a}) \ {x}]
  <2>1. x \in s \ {a} /\ s \ {a} \notin F
    BY <1>1, <1>3, <1>4
  <2> QED
    BY <1>4, <2>1
<1>7. (s \ {x}) \ {a} = (s \ {a}) \ {x} /\ (s \ {x}) \ {a} \in SUBSET S
  BY <1>3
<1>8. it[(s \ {x}) \ {a}] \in Nat /\ h[a] \in Nat /\ h[x] \in Nat
  BY <1>3, <1>4, <1>7, TotalsNat
<1> HIDE DEF F
<1> QED
  BY <1>2, <1>3, <1>5, <1>6, <1>7, <1>8

LEMMA TotalsGrow ==
    ASSUME NEW S, IsFiniteSet(S), NEW h \in [S -> Nat], NEW it, Totals(it, S, h)
    PROVE  \A t \in SUBSET S : \A s \in SUBSET t : it[s] <= it[t]
<1> DEFINE F == {t \in SUBSET S : \E s \in SUBSET t : ~(it[s] <= it[t])}
<1> SUFFICES ASSUME F # {} PROVE FALSE
  OBVIOUS
<1>1. PICK t \in F : \A a \in t : t \ {a} \notin F
  <2>1. F \subseteq SUBSET S
    OBVIOUS
  <2> HIDE DEF F
  <2> QED
    BY <2>1, SmallestSet
<1>2. PICK s \in SUBSET t : ~(it[s] <= it[t])
  BY <1>1
<1>3. t \in SUBSET S /\ s \in SUBSET S /\ it[s] \in Nat /\ it[t] \in Nat
  BY <1>1, <1>2, TotalsNat
<1>4. PICK x \in t : TRUE
  <2>1. t = {} => s = t
    BY <1>2
  <2> QED
    BY <1>2, <1>3, <2>1
<1>5. /\ it[t] = h[x] + it[t \ {x}] /\ h[x] \in Nat /\ it[t \ {x}] \in Nat
      /\ t \ {x} \in SUBSET S
  BY <1>3, <1>4, TotalsRemove, TotalsNat
<1>6. \A r \in SUBSET (t \ {x}) : it[r] <= it[t \ {x}]
  BY <1>1, <1>4, <1>5
<1>7. CASE x \in s
  <2>1. it[s] = h[x] + it[s \ {x}]
    BY <1>3, <1>7, TotalsRemove
  <2>3. it[s \ {x}] \in Nat
    BY <1>3, TotalsNat
  <2>2. it[s \ {x}] <= it[t \ {x}]
    BY <1>2, <1>6
  <2> QED
    BY <1>2, <1>5, <2>1, <2>2, <2>3
<1>8. CASE x \notin s
  <2>1. it[s] <= it[t \ {x}]
    BY <1>2, <1>6, <1>8
  <2> QED
    BY <1>2, <1>3, <1>5, <2>1
<1> QED
  BY <1>7, <1>8

\* The sum over a part of a set is the one its own fold computes.
LEMMA TotalsPart ==
    ASSUME NEW S, IsFiniteSet(S), NEW T \in SUBSET S, NEW h,
           NEW it, Totals(it, S, h), NEW jt, Totals(jt, T, h)
    PROVE  jt[T] = it[T]
<1> DEFINE F == {s \in SUBSET T : jt[s] # it[s]}
<1> SUFFICES ASSUME F # {} PROVE FALSE
  OBVIOUS
<1>1. PICK s \in F : \A a \in s : s \ {a} \notin F
  <2>1. F \subseteq SUBSET S
    OBVIOUS
  <2> HIDE DEF F
  <2> QED
    BY <2>1, SmallestSet
<1>2. s # {}
  <2>1. it[{}] = 0 /\ jt[{}] = 0
    BY TotalsStep
  <2> QED
    BY <1>1, <2>1
<1>3. /\ First(s) \in s /\ s \ {First(s)} \in SUBSET T
      /\ it[s] = h[First(s)] + it[s \ {First(s)}]
      /\ jt[s] = h[First(s)] + jt[s \ {First(s)}]
  <2>1. s \in SUBSET T /\ s \in SUBSET S
    BY <1>1
  <2> QED
    BY <1>2, <2>1, TotalsStep
<1>4. it[s \ {First(s)}] = jt[s \ {First(s)}]
  BY <1>1, <1>3
<1> QED
  BY <1>1, <1>3, <1>4

-----------------------------------------------------------------------------
\* The sum of h over S.
SumOver(S, h) == MapThenSumSet(LAMBDA x : h[x], S)

LEMMA SumIs ==
    ASSUME NEW S, IsFiniteSet(S), NEW h
    PROVE  \E it : Totals(it, S, h) /\ SumOver(S, h) = it[S]
<1> DEFINE Sums(it) ==
             it = [s \in SUBSET S |->
                     IF s = {} THEN 0
                     ELSE h[CHOOSE x \in s : TRUE] + it[s \ {CHOOSE x \in s : TRUE}]]
           sum == CHOOSE it : Sums(it)
<1>1. \A it : Totals(it, S, h) <=> Sums(it)
  BY DEF Totals, First
<1>2. SumOver(S, h) = sum[S]
  BY DEF SumOver, MapThenSumSet, MapThenFoldSet
<1> HIDE DEF Sums
<1>3. \E it : Sums(it)
  BY <1>1, TotalsExist
<1>4. Sums(sum)
  BY <1>3
<1> HIDE DEF sum
<1> QED
  BY <1>1, <1>2, <1>4

LEMMA SumFacts ==
    ASSUME NEW S, IsFiniteSet(S), NEW h \in [S -> Nat], NEW t \in SUBSET S, NEW s \in SUBSET t
    PROVE  SumOver(t, h) \in Nat /\ SumOver(s, h) <= SumOver(t, h)
<1>1. IsFiniteSet(t) /\ IsFiniteSet(s) /\ s \in SUBSET S
  BY FS_Subset
<1>2. PICK it : Totals(it, S, h)
  BY TotalsExist
<1>3. SumOver(t, h) = it[t]
  BY <1>1, <1>2, SumIs, TotalsPart
<1>4. SumOver(s, h) = it[s]
  BY <1>1, <1>2, SumIs, TotalsPart
<1> QED
  BY <1>2, <1>3, <1>4, TotalsNat, TotalsGrow

LEMMA SumZero ==
    ASSUME NEW S, IsFiniteSet(S), NEW h, \A x \in S : h[x] = 0
    PROVE  SumOver(S, h) = 0
BY SumIs, TotalsZero

\* g is h but for the term at a, which is one more.
OneMore(S, a, h, g) == /\ IsFiniteSet(S) /\ a \in S
                       /\ h \in [S -> Nat] /\ g \in [S -> Nat]
                       /\ g[a] = h[a] + 1 /\ \A x \in S : x # a => h[x] = g[x]

LEMMA SumPlusOne ==
    ASSUME NEW S, NEW t \in SUBSET S, NEW a, NEW h, NEW g, OneMore(S, a, h, g)
    PROVE  /\ a \in t => SumOver(t, g) = SumOver(t, h) + 1
           /\ a \notin t => SumOver(t, g) = SumOver(t, h)
<1>1. /\ a \in S /\ h \in [S -> Nat] /\ g \in [S -> Nat]
      /\ g[a] = h[a] + 1 /\ \A x \in S : x # a => h[x] = g[x]
  BY DEF OneMore
<1>2. IsFiniteSet(t)
  BY FS_Subset DEF OneMore
<1>3. PICK it : Totals(it, t, h) /\ SumOver(t, h) = it[t]
  BY <1>2, SumIs
<1>4. PICK jt : Totals(jt, t, g) /\ SumOver(t, g) = jt[t]
  BY <1>2, SumIs
<1> DEFINE ht == [x \in t |-> h[x]]
           gt == [x \in t |-> g[x]]
<1>5. ht \in [t -> Nat] /\ gt \in [t -> Nat] /\ \A x \in t : ht[x] = h[x] /\ gt[x] = g[x]
  BY <1>1
<1> HIDE DEF ht, gt
<1>6. Totals(it, t, ht)
  <2>1. \A s \in SUBSET t : s # {} => ht[First(s)] = h[First(s)]
    BY <1>5, FirstIn
  <2>2. [s \in SUBSET t |-> IF s = {} THEN 0 ELSE ht[First(s)] + it[s \ {First(s)}]]
        = [s \in SUBSET t |-> IF s = {} THEN 0 ELSE h[First(s)] + it[s \ {First(s)}]]
    BY <2>1
  <2> QED
    BY <1>3, <2>2 DEF Totals
<1>7. Totals(jt, t, gt)
  <2>1. \A s \in SUBSET t : s # {} => gt[First(s)] = g[First(s)]
    BY <1>5, FirstIn
  <2>2. [s \in SUBSET t |-> IF s = {} THEN 0 ELSE gt[First(s)] + jt[s \ {First(s)}]]
        = [s \in SUBSET t |-> IF s = {} THEN 0 ELSE g[First(s)] + jt[s \ {First(s)}]]
    BY <2>1
  <2> QED
    BY <1>4, <2>2 DEF Totals
<1>8. it[t] \in Nat /\ jt[t] \in Nat
  BY <1>2, <1>5, <1>6, <1>7, TotalsNat
<1>9. CASE a \in t
  <2>1. \A x \in t : x # a => ht[x] = gt[x]
    BY <1>1, <1>5
  <2>2. it[t] + gt[a] = jt[t] + ht[a]
    BY <1>2, <1>5, <1>6, <1>7, <1>9, <2>1, TotalsChange
  <2>3. gt[a] = ht[a] + 1 /\ ht[a] \in Nat
    BY <1>1, <1>5, <1>9
  <2>4. jt[t] = it[t] + 1
    BY <1>8, <2>2, <2>3
  <2> QED
    BY <1>3, <1>4, <1>9, <2>4
<1>10. CASE a \notin t
  <2>1. ht = gt
    BY <1>1, <1>10 DEF ht, gt
  <2>2. jt[t] = it[t]
    BY <1>2, <1>6, <1>7, <2>1, TotalsPart
  <2> QED
    BY <1>3, <1>4, <1>8, <1>10, <2>2
<1> QED
  BY <1>9, <1>10

-----------------------------------------------------------------------------
(***************************************************************************)
(* UsageMeter.  A count is in the table, in the buffer or in the batch of  *)
(* one flush: a step that moves it takes it from one and adds it to the    *)
(* other, and a flush that is not under way holds nothing.                 *)
(***************************************************************************)
Amounts == [Counters -> Nat]
Flushing == [phase : {"none", "connecting", "writing", "rollback"}, batch : Amounts]

MeterTypes ==
    /\ buffer \in Amounts
    /\ flush \in [Flushes -> Flushing]
    /\ table \in Amounts
    /\ recorded \in Amounts
    /\ severed \in BOOLEAN

IdleEmpty == \A f \in Flushes : flush[f].phase = "none" => flush[f].batch = Nothing

MeterInv == MeterTypes /\ IdleEmpty /\ CountedOnce

\* What the flushes of fl hold for c, and the terms of that sum.
Pending(fl, c) == MapThenSumSet(LAMBDA f : fl[f].batch[c], Flushes)
Taken(fl, c) == [f \in Flushes |-> fl[f].batch[c]]

LEMMA PendingIs ==
    ASSUME NEW fl, NEW c
    PROVE  \E it : Totals(it, Flushes, Taken(fl, c)) /\ Pending(fl, c) = it[Flushes]
<1> DEFINE Sums(it) ==
             it = [s \in SUBSET Flushes |->
                     IF s = {} THEN 0
                     ELSE fl[CHOOSE x \in s : TRUE].batch[c] + it[s \ {CHOOSE x \in s : TRUE}]]
           sum == CHOOSE it : Sums(it)
<1>1. \A s \in SUBSET Flushes : s # {} => Taken(fl, c)[First(s)] = fl[First(s)].batch[c]
  BY FirstIn DEF Taken
<1>2. ASSUME NEW it PROVE Totals(it, Flushes, Taken(fl, c)) <=> Sums(it)
  <2>1. [s \in SUBSET Flushes |-> IF s = {} THEN 0 ELSE Taken(fl, c)[First(s)] + it[s \ {First(s)}]]
        = [s \in SUBSET Flushes |-> IF s = {} THEN 0 ELSE fl[First(s)].batch[c] + it[s \ {First(s)}]]
    BY <1>1
  <2> QED
    BY <2>1 DEF Totals, First
<1>3. Pending(fl, c) = sum[Flushes]
  BY DEF Pending, MapThenSumSet, MapThenFoldSet
<1> HIDE DEF Sums
<1>4. PICK it : Totals(it, Flushes, Taken(fl, c))
  BY TotalsExist, MeterAssumption DEF MeterAssumption
<1>5. Sums(it)
  BY <1>2, <1>4
<1>6. Sums(sum)
  BY <1>5
<1> HIDE DEF sum
<1> QED
  BY <1>2, <1>3, <1>6

LEMMA PendingNat ==
    ASSUME NEW fl \in [Flushes -> Flushing], NEW c \in Counters
    PROVE  Pending(fl, c) \in Nat /\ Taken(fl, c) \in [Flushes -> Nat]
<1>1. Taken(fl, c) \in [Flushes -> Nat]
  BY DEF Taken, Flushing, Amounts
<1> QED
  BY <1>1, PendingIs, TotalsNat, MeterAssumption DEF MeterAssumption

LEMMA PendingNothing ==
    ASSUME NEW c \in Counters
    PROVE  Pending([f \in Flushes |-> NoFlush], c) = 0
<1> DEFINE fl == [f \in Flushes |-> NoFlush]
<1>1. \A f \in Flushes : Taken(fl, c)[f] = 0
  BY DEF Taken, NoFlush, Nothing
<1> HIDE DEF fl
<1>2. Pending(fl, c) = 0
  BY <1>1, PendingIs, TotalsZero, MeterAssumption DEF MeterAssumption
<1> QED
  BY <1>2 DEF fl

\* One flush changes: what is pending changes by as much.
LEMMA PendingMoves ==
    ASSUME NEW fl \in [Flushes -> Flushing], NEW a \in Flushes, NEW r \in Flushing,
           NEW c \in Counters
    PROVE  Pending([fl EXCEPT ![a] = r], c) + fl[a].batch[c] = Pending(fl, c) + r.batch[c]
<1> DEFINE gl == [fl EXCEPT ![a] = r]
<1>1. gl \in [Flushes -> Flushing] /\ gl[a] = r
      /\ \A f \in Flushes : f # a => gl[f] = fl[f]
  OBVIOUS
<1> HIDE DEF gl
<1>2. Taken(fl, c) \in [Flushes -> Nat] /\ Taken(gl, c) \in [Flushes -> Nat]
  BY <1>1, PendingNat
<1>3. /\ Taken(fl, c)[a] = fl[a].batch[c] /\ Taken(gl, c)[a] = r.batch[c]
      /\ \A f \in Flushes : f # a => Taken(gl, c)[f] = Taken(fl, c)[f]
  BY <1>1 DEF Taken
<1>4. PICK it : Totals(it, Flushes, Taken(fl, c)) /\ Pending(fl, c) = it[Flushes]
  BY PendingIs
<1>5. PICK jt : Totals(jt, Flushes, Taken(gl, c)) /\ Pending(gl, c) = jt[Flushes]
  BY PendingIs
<1>6. IsFiniteSet(Flushes)
  BY MeterAssumption DEF MeterAssumption
<1>7. it[Flushes] + Taken(gl, c)[a] = jt[Flushes] + Taken(fl, c)[a]
  <2> DEFINE h == Taken(fl, c)
             g == Taken(gl, c)
  <2>1. /\ h \in [Flushes -> Nat] /\ g \in [Flushes -> Nat]
        /\ \A x \in Flushes : x # a => h[x] = g[x]
        /\ Totals(it, Flushes, h) /\ Totals(jt, Flushes, g)
    BY <1>2, <1>3, <1>4, <1>5
  <2> HIDE DEF h, g
  <2>2. it[Flushes] + g[a] = jt[Flushes] + h[a]
    BY <1>6, <2>1, TotalsChange
  <2> QED
    BY <2>2 DEF h, g
<1> QED
  BY <1>1, <1>3, <1>4, <1>5, <1>7 DEF gl

\* What is accounted for, by where it is.
LEMMA AccountedIs == \A c \in Counters : Accounted(c) = table[c] + buffer[c] + Pending(flush, c)
BY DEF Accounted, Pending

Adds(c) ==
    /\ table[c] + buffer[c] + Pending(flush, c) <= recorded[c]
    /\ ~severed => table[c] + buffer[c] + Pending(flush, c) = recorded[c]

LEMMA CountedOnceIs == CountedOnce <=> \A c \in Counters : Adds(c)
BY AccountedIs DEF CountedOnce, Adds

\* A flush moves on, taking or giving up counts.
LEMMA FlushMoves ==
    ASSUME MeterInv, NEW a \in Flushes, NEW r \in Flushing, flush' = [flush EXCEPT ![a] = r],
           r.phase = "none" => r.batch = Nothing,
           buffer' \in Amounts, table' \in Amounts, severed' \in BOOLEAN, recorded' = recorded,
           severed => severed',
           \A c \in Counters :
             LET before == table[c] + buffer[c] + flush[a].batch[c]
                 after == table'[c] + buffer'[c] + r.batch[c]
             IN  after <= before /\ (~severed' => after = before)
    PROVE  MeterInv'
<1>1. /\ flush \in [Flushes -> Flushing] /\ buffer \in Amounts /\ table \in Amounts
      /\ recorded \in Amounts
  BY DEF MeterInv, MeterTypes
<1>2. flush' \in [Flushes -> Flushing]
  BY <1>1
<1>3. MeterTypes'
  BY <1>1, <1>2 DEF MeterTypes
<1>4. IdleEmpty'
  BY <1>1 DEF MeterInv, IdleEmpty
<1>5. ASSUME NEW c \in Counters PROVE Adds(c)'
  <2> DEFINE p == Pending(flush, c)
             q == Pending(flush', c)
             f == flush[a].batch[c]
             g == r.batch[c]
  <2>1. p \in Nat /\ q \in Nat
    BY <1>1, <1>2, PendingNat
  <2>2. q + f = p + g
    BY <1>1, PendingMoves, Zenon
  <2>3. f \in Nat /\ g \in Nat
    BY <1>1 DEF Flushing, Amounts
  <2>4. {buffer[c], table[c], recorded[c], buffer'[c], table'[c]} \subseteq Nat
    BY <1>1 DEF Amounts
  <2>5. /\ table[c] + buffer[c] + p <= recorded[c]
        /\ ~severed => table[c] + buffer[c] + p = recorded[c]
    BY CountedOnceIs DEF MeterInv, Adds
  <2>6. /\ table'[c] + buffer'[c] + g <= table[c] + buffer[c] + f
        /\ ~severed' => table'[c] + buffer'[c] + g = table[c] + buffer[c] + f
    OBVIOUS
  <2> HIDE DEF p, q, f, g
  <2>7. table'[c] + buffer'[c] + q <= recorded[c]
    BY <2>1, <2>2, <2>3, <2>4, <2>5, <2>6
  <2>8. ~severed' => table'[c] + buffer'[c] + q = recorded[c]
    BY <2>1, <2>2, <2>3, <2>4, <2>5, <2>6
  <2> QED
    BY <2>7, <2>8 DEF Adds, q
<1>6. CountedOnce'
  <2>1. \A c \in Counters : Accounted(c)' = (table[c] + buffer[c] + Pending(flush, c))'
    BY DEF Accounted, Pending
  <2> QED
    BY <1>5, <2>1 DEF CountedOnce, Adds
<1> QED
  BY <1>3, <1>4, <1>6 DEF MeterInv

LEMMA InitMeterInv == InitMeter => MeterInv
<1> SUFFICES ASSUME InitMeter PROVE MeterInv
  OBVIOUS
<1>1. Nothing \in Amounts /\ NoFlush \in Flushing
  BY DEF Nothing, NoFlush, Amounts, Flushing
<1>2. MeterTypes /\ IdleEmpty
  BY <1>1 DEF InitMeter, MeterTypes, IdleEmpty, NoFlush
<1>3. \A c \in Counters : Pending(flush, c) = 0
  BY PendingNothing DEF InitMeter
<1>4. \A c \in Counters : Adds(c)
  BY <1>3 DEF Adds, InitMeter, Nothing
<1> QED
  BY <1>2, <1>4, CountedOnceIs DEF MeterInv

LEMMA MeterStep == MeterInv /\ [NextMeter]_meterVars => MeterInv'
<1> SUFFICES ASSUME MeterInv, [NextMeter]_meterVars PROVE MeterInv'
  OBVIOUS
<1> USE DEF MeterInv
<1>1. /\ flush \in [Flushes -> Flushing] /\ buffer \in Amounts /\ table \in Amounts
      /\ recorded \in Amounts /\ severed \in BOOLEAN
  BY DEF MeterTypes
<1>2. Nothing \in Amounts /\ NoFlush \in Flushing /\ NoFlush.batch = Nothing
      /\ NoFlush.phase = "none" /\ \A c \in Counters : Nothing[c] = 0
  BY DEF Nothing, NoFlush, Amounts, Flushing
<1>3. ASSUME NEW a \in Amounts, NEW b \in Amounts
      PROVE  Merged(a, b) \in Amounts /\ \A c \in Counters : Merged(a, b)[c] = a[c] + b[c]
  BY DEF Merged, Amounts
<1>4. \A f \in Flushes : flush[f] \in Flushing /\ flush[f].batch \in Amounts
  BY <1>1 DEF Flushing
<1>5. ASSUME NEW c \in Counters, NEW f \in Flushes
      PROVE  table[c] \in Nat /\ buffer[c] \in Nat /\ flush[f].batch[c] \in Nat
  BY <1>1, <1>4 DEF Amounts
<1>6. ASSUME NEW c \in Counters, Record(c) PROVE MeterInv'
  <2>1. /\ UNCHANGED <<flush, table, severed>>
        /\ buffer' = [buffer EXCEPT ![c] = @ + 1] /\ recorded' = [recorded EXCEPT ![c] = @ + 1]
    BY <1>6 DEF Record
  <2>2. buffer' \in Amounts /\ recorded' \in Amounts
    BY <1>1, <2>1 DEF Amounts
  <2>3. MeterTypes' /\ IdleEmpty'
    BY <1>1, <2>1, <2>2 DEF MeterTypes, IdleEmpty
  <2>4. ASSUME NEW d \in Counters PROVE Adds(d)'
    <3>1. Pending(flush', d) = Pending(flush, d) /\ Pending(flush, d) \in Nat
      BY <1>1, <2>1, PendingNat
    <3>2. table[d] \in Nat /\ buffer[d] \in Nat /\ recorded[d] \in Nat
      BY <1>1 DEF Amounts
    <3>3. (buffer'[d] = buffer[d] /\ recorded'[d] = recorded[d])
          \/ (buffer'[d] = buffer[d] + 1 /\ recorded'[d] = recorded[d] + 1)
      BY <1>1, <2>1 DEF Amounts
    <3>4. Adds(d)
      BY CountedOnceIs
    <3> QED
      BY <2>1, <3>1, <3>2, <3>3, <3>4 DEF Adds
  <2>5. \A d \in Counters : Accounted(d)' = (table[d] + buffer[d] + Pending(flush, d))'
    BY DEF Accounted, Pending
  <2> QED
    BY <2>3, <2>4, <2>5 DEF CountedOnce, Adds
<1>7. ASSUME NEW f \in Flushes, FlushStarts(f) PROVE MeterInv'
  <2> DEFINE r == [phase |-> "connecting", batch |-> buffer]
  <2>1. r \in Flushing /\ r.phase # "none" /\ r.batch = buffer
    BY <1>1 DEF Flushing
  <2>2. /\ flush' = [flush EXCEPT ![f] = r] /\ buffer' = Nothing /\ flush[f].batch = Nothing
        /\ UNCHANGED <<table, recorded, severed>>
    BY <1>7 DEF FlushStarts, IdleEmpty
  <2> HIDE DEF r
  <2>3. \A c \in Counters : table'[c] + buffer'[c] + r.batch[c] = table[c] + buffer[c] + flush[f].batch[c]
    BY <1>2, <1>5, <2>1, <2>2
  <2>4. \A c \in Counters : table'[c] + buffer'[c] + r.batch[c] <= table[c] + buffer[c] + flush[f].batch[c]
    BY <1>2, <1>5, <2>1, <2>2
  <2> QED
    BY <1>1, <1>2, <2>1, <2>2, <2>3, <2>4, FlushMoves
<1>8. ASSUME NEW f \in Flushes, NEW ph \in {"writing", "rollback"},
             flush' = [flush EXCEPT ![f].phase = ph], UNCHANGED <<buffer, table, recorded, severed>>
      PROVE  MeterInv'
  <2> DEFINE r == [flush[f] EXCEPT !.phase = ph]
  <2>1. r \in Flushing /\ r.phase # "none" /\ r.batch = flush[f].batch
    BY <1>4 DEF Flushing
  <2>2. flush' = [flush EXCEPT ![f] = r]
    BY <1>8
  <2> HIDE DEF r
  <2>3. \A c \in Counters : table'[c] + buffer'[c] + r.batch[c] <= table[c] + buffer[c] + flush[f].batch[c]
    BY <1>5, <1>8, <2>1
  <2>4. \A c \in Counters : table'[c] + buffer'[c] + r.batch[c] = table[c] + buffer[c] + flush[f].batch[c]
    BY <1>8, <2>1
  <2> QED
    BY <1>1, <1>8, <2>1, <2>2, <2>3, <2>4, FlushMoves
<1>9. ASSUME NEW f \in Flushes, flush' = [flush EXCEPT ![f] = NoFlush], UNCHANGED recorded,
             severed' \in BOOLEAN, severed => severed',
             \/ buffer' = buffer /\ table' = Merged(table, flush[f].batch)
             \/ buffer' = Merged(buffer, flush[f].batch) /\ table' = table
             \/ buffer' = buffer /\ table' = table /\ severed'
      PROVE  MeterInv'
  <2>1. buffer' \in Amounts /\ table' \in Amounts
    BY <1>1, <1>3, <1>4, <1>9
  <2>2. ASSUME NEW c \in Counters
        PROVE  LET before == table[c] + buffer[c] + flush[f].batch[c]
                   after == table'[c] + buffer'[c] + NoFlush.batch[c]
               IN  after <= before /\ (~severed' => after = before)
    <3>1. NoFlush.batch[c] = 0
      BY <1>2
    <3>2. table[c] \in Nat /\ buffer[c] \in Nat /\ flush[f].batch[c] \in Nat
      BY <1>5
    <3>3. CASE buffer' = buffer /\ table' = Merged(table, flush[f].batch)
      BY <1>1, <1>3, <1>4, <3>1, <3>2, <3>3
    <3>4. CASE buffer' = Merged(buffer, flush[f].batch) /\ table' = table
      BY <1>1, <1>3, <1>4, <3>1, <3>2, <3>4
    <3>5. CASE buffer' = buffer /\ table' = table /\ severed'
      BY <3>1, <3>2, <3>5
    <3> QED
      BY <1>9, <3>3, <3>4, <3>5
  <2> QED
    BY <1>2, <1>9, <2>1, <2>2, FlushMoves
<1>10. ASSUME NEW f \in Flushes, ConnectFails(f) PROVE MeterInv'
  BY <1>9, <1>10 DEF ConnectFails
<1>11. ASSUME NEW f \in Flushes, Commits(f) PROVE MeterInv'
  BY <1>1, <1>9, <1>11 DEF Commits
<1>12. ASSUME NEW f \in Flushes, ConnectionBreaks(f) PROVE MeterInv'
  BY <1>9, <1>12 DEF ConnectionBreaks, SkipsRestore
<1>13. ASSUME NEW f \in Flushes, Restores(f) PROVE MeterInv'
  BY <1>1, <1>9, <1>13 DEF Restores
<1>14. ASSUME NEW f \in Flushes, Connected(f) \/ StatementFails(f) PROVE MeterInv'
  BY <1>8, <1>14 DEF Connected, StatementFails
<1>15. ASSUME ProcessEnds PROVE MeterInv'
  <2>1. /\ buffer' = Nothing /\ flush' = [f \in Flushes |-> NoFlush] /\ severed' = TRUE
        /\ UNCHANGED <<table, recorded>>
    BY <1>15 DEF ProcessEnds
  <2>2. MeterTypes' /\ IdleEmpty'
    BY <1>1, <1>2, <2>1 DEF MeterTypes, IdleEmpty
  <2>3. ASSUME NEW c \in Counters PROVE Adds(c)'
    <3>1. Pending(flush', c) = 0
      BY <2>1, PendingNothing
    <3>2. Pending(flush, c) \in Nat /\ table[c] \in Nat /\ buffer[c] \in Nat /\ recorded[c] \in Nat
      BY <1>1, PendingNat DEF Amounts
    <3>3. table[c] + buffer[c] + Pending(flush, c) <= recorded[c]
      BY CountedOnceIs DEF Adds
    <3>4. buffer'[c] = 0 /\ table'[c] = table[c] /\ recorded'[c] = recorded[c]
      BY <1>2, <2>1
    <3> QED
      BY <2>1, <3>1, <3>2, <3>3, <3>4 DEF Adds
  <2>4. \A c \in Counters : Accounted(c)' = (table[c] + buffer[c] + Pending(flush, c))'
    BY DEF Accounted, Pending
  <2> QED
    BY <2>2, <2>3, <2>4 DEF CountedOnce, Adds
<1>16. ASSUME UNCHANGED meterVars PROVE MeterInv'
  <2>1. UNCHANGED <<buffer, flush, table, recorded, severed>>
    BY <1>16 DEF meterVars
  <2>2. MeterTypes' /\ IdleEmpty'
    BY <2>1 DEF MeterTypes, IdleEmpty
  <2>3. \A c \in Counters : Accounted(c)' = (table[c] + buffer[c] + Pending(flush, c))'
    BY DEF Accounted, Pending
  <2>4. \A c \in Counters : Adds(c)
    BY CountedOnceIs
  <2> QED
    BY <2>1, <2>2, <2>3, <2>4 DEF CountedOnce, Adds
<1> QED
  BY <1>6, <1>7, <1>10, <1>11, <1>12, <1>13, <1>14, <1>15, <1>16 DEF NextMeter

(* An event is billed at most once, whatever fails, and exactly once as    *)
(* long as no connection broke and the process went on.                    *)
THEOREM CountedOnceHolds == MeterSpec => []CountedOnce
<1>1. MeterInv => CountedOnce
  BY DEF MeterInv
<1> QED
  BY <1>1, InitMeterInv, MeterStep, PTL DEF MeterSpec

-----------------------------------------------------------------------------
(***************************************************************************)
(* RateLimiter.  What an entry has let through since it started is bounded *)
(* by what it has used of the limit, and by the limit once more for every  *)
(* restart; a period as long as the window sees at most one entry before   *)
(* the current one.                                                        *)
(***************************************************************************)
Live(e) == e.count > 0 /\ tick <= e.resetAt

\* What the current entry has used of the limit.
Used(k) ==
    IF Live(limits[k]) THEN IF limits[k].count <= Limit THEN limits[k].count ELSE Limit
                       ELSE 0

Span(t) == {x \in 0..MaxTick : t <= x /\ x < t + Window}
Since(t) == {x \in 0..MaxTick : t <= x}
Through(k, S) == SumOver(S, allowed[k])
Extra == imports * Limit

WindowEntries == [count : Nat, resetAt : Nat]

LimitTypes ==
    /\ limits \in [LimitKeys -> WindowEntries]
    /\ saved \in [LimitKeys -> WindowEntries]
    /\ tick \in 0..MaxTick
    /\ allowed \in [LimitKeys -> [0..MaxTick -> Nat]]
    /\ imports \in Nat
    /\ \A k \in LimitKeys : \A e \in {limits[k], saved[k]} :
         e.resetAt <= tick + Window /\ (e.count > 0 => e.resetAt >= Window)
    /\ \A k \in LimitKeys, x \in 0..MaxTick : x > tick => allowed[k][x] = 0

\* An entry saved and not yet over is not newer than the one in use.
SavedOlder ==
    \A k \in LimitKeys :
        Live(saved[k]) /\ limits[k].count > 0 => saved[k].resetAt <= limits[k].resetAt

EntryBounded ==
    \A k \in LimitKeys :
        /\ Through(k, Since(tick)) <= Extra + Used(k)
        /\ \A e \in {limits[k], saved[k]} :
             Live(e) => Through(k, Since(e.resetAt - Window)) <= Extra + Used(k)

SpanBounded ==
    \A k \in LimitKeys, t \in 0..MaxTick :
        /\ tick < t + Window => Through(k, Span(t)) <= Extra + Limit + Used(k)
        /\ Through(k, Span(t)) <= Extra + Limit + Limit

LimitInv == LimitTypes /\ SavedOlder /\ EntryBounded /\ SpanBounded

LEMMA TicksFinite == IsFiniteSet(0..MaxTick)
BY FS_Interval, LimitAssumption DEF LimitAssumption

\* Sums of what a key was allowed, over parts of the clock.
LEMMA ThroughFacts ==
    ASSUME LimitTypes, NEW k \in LimitKeys, NEW t \in SUBSET (0..MaxTick), NEW s \in SUBSET t
    PROVE  Through(k, t) \in Nat /\ Through(k, s) \in Nat /\ Through(k, s) <= Through(k, t)
<1>1. allowed[k] \in [0..MaxTick -> Nat]
  BY DEF LimitTypes
<1>2. s \in SUBSET (0..MaxTick) /\ s \in SUBSET s
  OBVIOUS
<1>3. Through(k, t) \in Nat /\ Through(k, s) <= Through(k, t)
  BY <1>1, TicksFinite, SumFacts DEF Through
<1>4. Through(k, s) \in Nat
  BY <1>1, <1>2, TicksFinite, SumFacts DEF Through
<1> QED
  BY <1>3, <1>4

LEMMA SpansAreTicks ==
    ASSUME NEW t
    PROVE  Span(t) \in SUBSET (0..MaxTick) /\ Since(t) \in SUBSET (0..MaxTick)
BY DEF Span, Since

LEMMA UsedType == ASSUME LimitTypes, NEW k \in LimitKeys PROVE Used(k) \in 0..Limit
BY LimitAssumption DEF LimitAssumption, LimitTypes, WindowEntries, Used, Live

LEMMA ExtraType == ASSUME LimitTypes PROVE Extra \in Nat /\ Limit \in Nat \ {0} /\ Window \in Nat \ {0}
<1>1. imports \in Nat /\ Limit \in Nat \ {0} /\ Window \in Nat \ {0}
  BY LimitAssumption DEF LimitAssumption, LimitTypes
<1>2. \A m, n \in Nat : m * n \in Nat
  OBVIOUS
<1> QED
  BY <1>1, <1>2 DEF Extra

\* A step that allows nothing and leaves the clock alone.
LEMMA NothingAllowed ==
    ASSUME LimitInv, LimitTypes', SavedOlder', UNCHANGED <<tick, allowed>>,
           Extra' \in Nat, Extra <= Extra',
           \A k \in LimitKeys :
             /\ Extra + Used(k) <= Extra' + Used(k)'
             /\ limits'[k] \in {limits[k], saved[k]} \/ limits'[k].count = 0
             /\ saved'[k] \in {limits[k], saved[k]}
    PROVE  LimitInv'
<1>1. \A k \in LimitKeys : \A s : Through(k, s)' = Through(k, s)
  BY DEF Through
<1>2. \A k \in LimitKeys : Used(k) \in 0..Limit /\ Used(k)' \in 0..Limit
  <2> SUFFICES ASSUME NEW k \in LimitKeys PROVE Used(k) \in 0..Limit /\ Used(k)' \in 0..Limit
    OBVIOUS
  <2>1. limits'[k].count \in Nat /\ Limit \in Nat
    BY LimitAssumption DEF LimitAssumption, LimitTypes, WindowEntries
  <2>2. Used(k)' \in 0..Limit
    BY <2>1 DEF Used
  <2> QED
    BY <2>2, UsedType DEF LimitInv
<1>3. Extra \in Nat /\ Limit \in Nat
  BY ExtraType DEF LimitInv
<1>4. \A t : Span(t)' = Span(t) /\ Since(t)' = Since(t)
  BY DEF Span, Since
<1>5. \A k \in LimitKeys : \A t : Through(k, Span(t)) \in Nat /\ Through(k, Since(t)) \in Nat
  BY ThroughFacts, SpansAreTicks DEF LimitInv
<1>6. EntryBounded'
  <2> SUFFICES ASSUME NEW k \in LimitKeys
               PROVE  /\ (Through(k, Since(tick)) <= Extra + Used(k))'
                      /\ \A e \in {limits'[k], saved'[k]} :
                           Live(e)' => Through(k, Since(e.resetAt - Window)) <= Extra' + Used(k)'
    BY <1>1, <1>4 DEF EntryBounded, Live
  <2>1. Through(k, Since(tick)) <= Extra + Used(k)
    BY DEF LimitInv, EntryBounded
  <2>2. (Through(k, Since(tick)) <= Extra + Used(k))'
    BY <1>1, <1>2, <1>3, <1>4, <1>5, <2>1
  <2>3. ASSUME NEW e \in {limits'[k], saved'[k]}, Live(e)'
        PROVE  Through(k, Since(e.resetAt - Window)) <= Extra' + Used(k)'
    <3>1. e \in {limits[k], saved[k]} /\ Live(e)
      BY <2>3 DEF Live
    <3>2. Through(k, Since(e.resetAt - Window)) <= Extra + Used(k)
      BY <3>1 DEF LimitInv, EntryBounded
    <3> QED
      BY <1>2, <1>3, <1>5, <3>2
  <2> QED
    BY <2>2, <2>3
<1>7. SpanBounded'
  <2> SUFFICES ASSUME NEW k \in LimitKeys, NEW t \in 0..MaxTick
               PROVE  /\ tick < t + Window => Through(k, Span(t)) <= Extra' + Limit + Used(k)'
                      /\ Through(k, Span(t)) <= Extra' + Limit + Limit
    BY <1>1, <1>4 DEF SpanBounded
  <2>1. /\ tick < t + Window => Through(k, Span(t)) <= Extra + Limit + Used(k)
        /\ Through(k, Span(t)) <= Extra + Limit + Limit
    BY DEF LimitInv, SpanBounded
  <2> QED
    BY <1>2, <1>3, <1>5, <2>1
<1> QED
  BY <1>6, <1>7 DEF LimitInv

LEMMA InitLimitsInv == InitLimits => LimitInv
<1> SUFFICES ASSUME InitLimits PROVE LimitInv
  OBVIOUS
<1>1. LimitTypes
  BY LimitAssumption DEF LimitAssumption, InitLimits, LimitTypes, WindowEntries, NoEntry
<1>2. SavedOlder
  BY DEF InitLimits, SavedOlder, Live, NoEntry
<1>3. \A k \in LimitKeys : \A t : Through(k, Span(t)) = 0 /\ Through(k, Since(t)) = 0
  <2> SUFFICES ASSUME NEW k \in LimitKeys, NEW t
               PROVE  Through(k, Span(t)) = 0 /\ Through(k, Since(t)) = 0
    OBVIOUS
  <2>1. IsFiniteSet(Span(t)) /\ IsFiniteSet(Since(t))
    BY TicksFinite, SpansAreTicks, FS_Subset
  <2>2. (\A x \in Span(t) : allowed[k][x] = 0) /\ (\A x \in Since(t) : allowed[k][x] = 0)
    BY DEF InitLimits, Span, Since
  <2> QED
    BY <2>1, <2>2, SumZero DEF Through
<1>4. \A k \in LimitKeys : Used(k) \in 0..Limit
  BY <1>1, UsedType
<1>5. Extra \in Nat /\ Limit \in Nat
  BY <1>1, ExtraType
<1>6. EntryBounded
  BY <1>3, <1>4, <1>5 DEF EntryBounded
<1>7. SpanBounded
  BY <1>3, <1>4, <1>5 DEF SpanBounded
<1> QED
  BY <1>1, <1>2, <1>6, <1>7 DEF LimitInv

LEMMA CountedIs ==
    ASSUME LimitTypes, NEW k \in LimitKeys
    PROVE  LET e == Counted(k) IN
             /\ e \in WindowEntries
             /\ Live(limits[k]) => /\ e.count = limits[k].count + 1
                                   /\ e.resetAt = limits[k].resetAt
             /\ ~Live(limits[k]) => e.count = 1 /\ e.resetAt = tick + Window
             /\ Live(e)
<1>1. /\ limits[k] \in WindowEntries /\ limits[k].count \in Nat /\ limits[k].resetAt \in Nat
      /\ tick \in Nat /\ Window \in Nat
  BY LimitAssumption DEF LimitAssumption, LimitTypes, WindowEntries
<1>2. CASE Live(limits[k])
  <2>1. Counted(k) = [limits[k] EXCEPT !.count = @ + 1]
    BY <1>1, <1>2 DEF Counted, Expired, Live
  <2>2. [limits[k] EXCEPT !.count = @ + 1] \in WindowEntries
        /\ [limits[k] EXCEPT !.count = @ + 1].count = limits[k].count + 1
        /\ [limits[k] EXCEPT !.count = @ + 1].resetAt = limits[k].resetAt
    BY <1>1 DEF WindowEntries
  <2> QED
    BY <1>1, <1>2, <2>1, <2>2 DEF Live
<1>3. CASE ~Live(limits[k])
  <2>1. Counted(k) = [count |-> 1, resetAt |-> tick + Window]
    BY <1>1, <1>3 DEF Counted, Expired, Live
  <2>2. [count |-> 1, resetAt |-> tick + Window] \in WindowEntries
    BY <1>1 DEF WindowEntries
  <2> QED
    BY <1>1, <1>3, <2>1, <2>2 DEF Live
<1> QED
  BY <1>2, <1>3

\* check() of a key: one more call goes through and uses the limit, or none does.
LEMMA CheckUses ==
    ASSUME LimitTypes, NEW k \in LimitKeys, Check(k)
    PROVE  /\ limits'[k].count <= Limit => Used(k)' = Used(k) + 1
           /\ ~(limits'[k].count <= Limit) => Used(k)' = Used(k)
           /\ ~Live(limits[k]) => Used(k) = 0
<1> DEFINE e == Counted(k)
           c == limits[k].count
<1>1. limits \in [LimitKeys -> WindowEntries] /\ c \in Nat /\ Limit \in Nat \ {0}
  BY LimitAssumption DEF LimitAssumption, LimitTypes, WindowEntries
<1>2. limits'[k] = e /\ tick' = tick
  BY <1>1 DEF Check
<1>3. /\ Live(limits[k]) => e.count = c + 1
      /\ ~Live(limits[k]) => e.count = 1
      /\ Live(e)
  BY CountedIs
<1> HIDE DEF e, c
<1>4. limits'[k].count > 0 /\ tick' <= limits'[k].resetAt
  BY <1>2, <1>3 DEF Live
<1>5. Used(k)' = IF e.count <= Limit THEN e.count ELSE Limit
  BY <1>2, <1>4 DEF Used, Live
<1>6. Used(k) = IF Live(limits[k]) THEN IF c <= Limit THEN c ELSE Limit ELSE 0
  BY DEF Used, c
<1> QED
  BY <1>1, <1>2, <1>3, <1>5, <1>6

LEMMA CheckAllows ==
    ASSUME LimitTypes, NEW k \in LimitKeys, Check(k)
    PROVE  /\ allowed' \in [LimitKeys -> [0..MaxTick -> Nat]]
           /\ \A j \in LimitKeys, x \in 0..MaxTick : x > tick => allowed'[j][x] = 0
           /\ \A S \in SUBSET (0..MaxTick) :
                /\ limits'[k].count <= Limit =>
                     Through(k, S)' = Through(k, S) + (IF tick \in S THEN 1 ELSE 0)
                /\ ~(limits'[k].count <= Limit) => Through(k, S)' = Through(k, S)
           /\ \A j \in LimitKeys \ {k} : \A S : Through(j, S)' = Through(j, S)
<1>1. /\ tick \in 0..MaxTick
      /\ allowed \in [LimitKeys -> [0..MaxTick -> Nat]] /\ allowed[k] \in [0..MaxTick -> Nat]
      /\ \A j \in LimitKeys, x \in 0..MaxTick : x > tick => allowed[j][x] = 0
  BY DEF LimitTypes
<1>2. CASE limits'[k].count <= Limit
  <2> DEFINE grown == [allowed[k] EXCEPT ![tick] = @ + 1]
  <2>1. allowed' = [allowed EXCEPT ![k] = grown]
    BY <1>2 DEF Check
  <2>2. grown \in [0..MaxTick -> Nat] /\ \A x \in 0..MaxTick : x > tick => grown[x] = allowed[k][x]
    BY <1>1
  <2>3. \A S \in SUBSET (0..MaxTick) :
          SumOver(S, grown) = SumOver(S, allowed[k]) + (IF tick \in S THEN 1 ELSE 0)
    <3>1. grown[tick] = allowed[k][tick] + 1
          /\ \A x \in 0..MaxTick : x # tick => allowed[k][x] = grown[x]
      BY <1>1
    <3> DEFINE h == allowed[k]
               D == 0..MaxTick
    <3>2. /\ h \in [D -> Nat] /\ grown \in [D -> Nat]
          /\ grown[tick] = h[tick] + 1 /\ \A x \in D : x # tick => h[x] = grown[x]
      BY <1>1, <2>2, <3>1
    <3>3. OneMore(D, tick, h, grown)
      BY <1>1, <3>2, TicksFinite DEF OneMore
    <3>4. \A P \in SUBSET D : SumOver(P, h) \in Nat /\ SumOver(P, grown) \in Nat
      BY <3>2, TicksFinite, SumFacts
    <3> HIDE DEF D, h, grown
    <3>5. \A P \in SUBSET D :
            /\ tick \in P => SumOver(P, grown) = SumOver(P, h) + 1
            /\ tick \notin P => SumOver(P, grown) = SumOver(P, h)
      BY ONLY <3>3, SumPlusOne
    <3>6. \A P \in SUBSET D :
            SumOver(P, grown) = SumOver(P, h) + (IF tick \in P THEN 1 ELSE 0)
      BY <3>4, <3>5
    <3> QED
      BY <3>6 DEF D, h
  <2> HIDE DEF grown
  <2>4. allowed'[k] = grown /\ \A j \in LimitKeys \ {k} : allowed'[j] = allowed[j]
    BY <1>1, <2>1
  <2>5. allowed' \in [LimitKeys -> [0..MaxTick -> Nat]]
    BY <1>1, <2>1, <2>2
  <2>6. \A j \in LimitKeys, x \in 0..MaxTick : x > tick => allowed'[j][x] = 0
    BY <1>1, <2>2, <2>4
  <2>7. \A S \in SUBSET (0..MaxTick) :
          Through(k, S)' = Through(k, S) + (IF tick \in S THEN 1 ELSE 0)
    BY <2>3, <2>4 DEF Through
  <2>8. \A j \in LimitKeys \ {k} : \A S : Through(j, S)' = Through(j, S)
    BY <2>4 DEF Through
  <2> QED
    BY <1>2, <2>5, <2>6, <2>7, <2>8
<1>3. CASE ~(limits'[k].count <= Limit)
  <2>1. allowed' = allowed
    BY <1>3 DEF Check
  <2>2. \A j \in LimitKeys : \A S : Through(j, S)' = Through(j, S)
    BY <2>1 DEF Through
  <2> QED
    BY <1>1, <1>3, <2>1, <2>2
<1> QED
  BY <1>2, <1>3

LEMMA CheckInv == ASSUME LimitInv, NEW k \in LimitKeys, Check(k) PROVE LimitInv'
<1>1. /\ LimitTypes /\ tick \in 0..MaxTick /\ tick \in Nat /\ MaxTick \in Nat
      /\ limits \in [LimitKeys -> WindowEntries] /\ saved \in [LimitKeys -> WindowEntries]
      /\ Limit \in Nat \ {0} /\ Window \in Nat \ {0} /\ Extra \in Nat /\ imports \in Nat
  BY ExtraType, LimitAssumption DEF LimitAssumption, LimitInv, LimitTypes
<1> DEFINE e == Counted(k)
<1>2. /\ limits' = [limits EXCEPT ![k] = e] /\ UNCHANGED <<saved, tick, imports>>
      /\ Extra' = Extra
  BY DEF Check, Extra
<1>3. limits'[k] = e /\ \A j \in LimitKeys \ {k} : limits'[j] = limits[j]
  BY <1>1, <1>2
<1>4. /\ e \in WindowEntries
      /\ Live(limits[k]) => e.resetAt = limits[k].resetAt
      /\ ~Live(limits[k]) => e.resetAt = tick + Window
  BY <1>1, CountedIs
<1> HIDE DEF e
<1>5. \A t : Span(t)' = Span(t) /\ Since(t)' = Since(t)
  BY DEF Span, Since
<1>6. \A f : Live(f)' <=> Live(f)
  BY <1>2 DEF Live
<1>7. \A j \in LimitKeys \ {k} : Used(j)' = Used(j)
  BY <1>3, <1>6 DEF Used
<1>8. \A j \in LimitKeys : \A t : /\ Through(j, Span(t)) \in Nat /\ Through(j, Since(t)) \in Nat
                              /\ Used(j) \in 0..Limit
  BY <1>1, ThroughFacts, SpansAreTicks, UsedType
<1>9. /\ limits'[k].count <= Limit => Used(k)' = Used(k) + 1
      /\ ~(limits'[k].count <= Limit) => Used(k)' = Used(k)
      /\ ~Live(limits[k]) => Used(k) = 0
      /\ Used(k)' \in 0..Limit
  <2>1. Used(k)' \in 0..Limit
    <3>1. limits'[k].count \in Nat
      BY <1>3, <1>4 DEF WindowEntries
    <3> QED
      BY <1>1, <3>1 DEF Used
  <2> QED
    BY <1>1, <2>1, CheckUses
<1>10. ASSUME NEW S \in SUBSET (0..MaxTick)
       PROVE  \/ Through(k, S)' = Through(k, S)
              \/ Through(k, S)' = Through(k, S) + 1 /\ Used(k)' = Used(k) + 1
  <2>1. Through(k, S) \in Nat
    BY <1>1, ThroughFacts
  <2>2. /\ limits'[k].count <= Limit =>
             Through(k, S)' = Through(k, S) + (IF tick \in S THEN 1 ELSE 0)
        /\ ~(limits'[k].count <= Limit) => Through(k, S)' = Through(k, S)
    BY <1>1, CheckAllows
  <2> QED
    BY <1>9, <2>1, <2>2
<1>11. LimitTypes'
  <2>1. limits' \in [LimitKeys -> WindowEntries]
    BY <1>1, <1>2, <1>4
  <2>2. allowed' \in [LimitKeys -> [0..MaxTick -> Nat]]
        /\ \A j \in LimitKeys, x \in 0..MaxTick : x > tick => allowed'[j][x] = 0
    BY <1>1, CheckAllows
  <2>3. \A j \in LimitKeys : \A f \in {limits'[j], saved'[j]} :
          f.resetAt <= tick + Window /\ (f.count > 0 => f.resetAt >= Window)
    <3>1. \A j \in LimitKeys : \A f \in {limits[j], saved[j]} :
            f.resetAt <= tick + Window /\ (f.count > 0 => f.resetAt >= Window)
      BY <1>1 DEF LimitTypes
    <3>2. e.resetAt <= tick + Window /\ e.resetAt >= Window
      BY <1>1, <1>4, <3>1 DEF Live, WindowEntries
    <3> QED
      BY <1>2, <1>3, <3>1, <3>2
  <2> QED
    BY <1>1, <1>2, <2>1, <2>2, <2>3 DEF LimitTypes
<1>12. SavedOlder'
  <2> SUFFICES ASSUME NEW j \in LimitKeys, Live(saved[j]), limits'[j].count > 0
               PROVE  saved[j].resetAt <= limits'[j].resetAt
    BY <1>2, <1>6 DEF SavedOlder
  <2>1. CASE j # k
    BY <1>3, <2>1 DEF LimitInv, SavedOlder
  <2>2. CASE j = k /\ Live(limits[k])
    BY <1>3, <1>4, <2>2 DEF LimitInv, SavedOlder, Live
  <2>3. CASE j = k /\ ~Live(limits[k])
    BY <1>1, <1>3, <1>4, <2>3 DEF LimitTypes
  <2> QED
    BY <2>1, <2>2, <2>3
<1>13. ASSUME NEW S \in SUBSET (0..MaxTick), NEW b \in Nat, Through(k, S) <= b + Used(k)
       PROVE  Through(k, S)' <= b + Used(k)'
  <2>1. Through(k, S) \in Nat /\ Used(k) \in Nat /\ Used(k)' \in Nat /\ Used(k) <= Used(k)'
    BY <1>1, <1>8, <1>9, ThroughFacts
  <2> QED
    BY <1>10, <1>13, <2>1
<1> DEFINE N(j, S) == SumOver(S, allowed'[j])
<1>14. \A j \in LimitKeys : \A S : N(j, S) = Through(j, S)'
  BY DEF Through
<1>15. \A j \in LimitKeys \ {k} : \A S : N(j, S) = Through(j, S)
  BY <1>1, <1>14, CheckAllows
<1> HIDE DEF N
<1>16. ASSUME NEW j \in LimitKeys, NEW S \in SUBSET (0..MaxTick), NEW b \in Nat,
              Through(j, S) <= b + Used(j)
       PROVE  N(j, S) <= b + Used(j)'
  BY <1>7, <1>13, <1>14, <1>15, <1>16
<1>17. EntryBounded'
  <2> SUFFICES ASSUME NEW j \in LimitKeys
               PROVE  /\ N(j, Since(tick)) <= Extra + Used(j)'
                      /\ \A f \in {limits'[j], saved[j]} :
                           Live(f) => N(j, Since(f.resetAt - Window)) <= Extra + Used(j)'
    BY <1>2, <1>6 DEF EntryBounded, Through, N, Since, Live
  <2>1. /\ Through(j, Since(tick)) <= Extra + Used(j)
        /\ \A f \in {limits[j], saved[j]} :
             Live(f) => Through(j, Since(f.resetAt - Window)) <= Extra + Used(j)
    BY DEF LimitInv, EntryBounded
  <2>2. \A t : Since(t) \in SUBSET (0..MaxTick)
    BY SpansAreTicks
  <2>3. N(j, Since(tick)) <= Extra + Used(j)'
    BY <1>1, <1>16, <2>1, <2>2
  <2>4. ASSUME NEW f \in {limits'[j], saved[j]}, Live(f)
        PROVE  N(j, Since(f.resetAt - Window)) <= Extra + Used(j)'
    <3>1. CASE f \in {limits[j], saved[j]}
      <4>1. Through(j, Since(f.resetAt - Window)) <= Extra + Used(j)
        BY <2>1, <2>4, <3>1
      <4> QED
        BY <1>1, <1>16, <2>2, <4>1
    <3>2. CASE j = k /\ f = e
      <4>1. CASE Live(limits[k])
        <5>1. f.resetAt = limits[j].resetAt
          BY <1>4, <3>2, <4>1
        <5>2. Through(j, Since(f.resetAt - Window)) <= Extra + Used(j)
          BY <2>1, <3>2, <4>1, <5>1
        <5> QED
          BY <1>1, <1>16, <2>2, <5>2
      <4>2. CASE ~Live(limits[k])
        <5>1. f.resetAt - Window = tick
          BY <1>1, <1>4, <3>2, <4>2
        <5> QED
          BY <2>3, <5>1
      <4> QED
        BY <4>1, <4>2
    <3> QED
      BY <1>3, <2>4, <3>1, <3>2
  <2> QED
    BY <2>3, <2>4
<1>18. SpanBounded'
  <2> SUFFICES ASSUME NEW j \in LimitKeys, NEW t \in 0..MaxTick
               PROVE  /\ tick < t + Window => N(j, Span(t)) <= Extra + Limit + Used(j)'
                      /\ N(j, Span(t)) <= Extra + Limit + Limit
    BY <1>2 DEF SpanBounded, Through, N, Span
  <2>1. /\ tick < t + Window => Through(j, Span(t)) <= Extra + Limit + Used(j)
        /\ Through(j, Span(t)) <= Extra + Limit + Limit
    BY DEF LimitInv, SpanBounded
  <2>2. Span(t) \in SUBSET (0..MaxTick)
    BY SpansAreTicks
  <2>3. ASSUME tick < t + Window PROVE N(j, Span(t)) <= Extra + Limit + Used(j)'
    <3>1. Extra + Limit \in Nat
      BY <1>1
    <3> QED
      BY <1>16, <2>1, <2>2, <2>3, <3>1
  <2>4. CASE tick < t + Window
    <3>1. Used(j)' \in 0..Limit
      BY <1>7, <1>8, <1>9
    <3>2. N(j, Span(t)) \in Nat
      <4>1. Through(j, Span(t)) \in Nat
        BY <1>8
      <4> QED
        BY <1>10, <1>14, <1>15, <2>2, <4>1
    <3> QED
      BY <1>1, <2>3, <2>4, <3>1, <3>2
  <2>5. CASE ~(tick < t + Window)
    <3>1. tick \notin Span(t)
      BY <1>1, <2>5 DEF Span
    <3>2. N(j, Span(t)) = Through(j, Span(t))
      <4>1. CASE j # k
        BY <1>15, <4>1
      <4>2. CASE j = k
        <5>1. Through(k, Span(t)) \in Nat
          BY <1>8
        <5>2. \A S \in SUBSET (0..MaxTick) : N(k, S) = IF limits'[k].count <= Limit
                 THEN Through(k, S) + (IF tick \in S THEN 1 ELSE 0) ELSE Through(k, S)
          BY <1>1, <1>14, CheckAllows
        <5> QED
          BY <2>2, <3>1, <4>2, <5>1, <5>2
      <4> QED
        BY <4>1, <4>2
    <3> QED
      BY <2>1, <2>5, <3>2
  <2> QED
    BY <2>3, <2>4, <2>5
<1> QED
  BY <1>11, <1>12, <1>17, <1>18 DEF LimitInv

LEMMA TicksInv == ASSUME LimitInv, Ticks PROVE LimitInv'
<1>1. /\ LimitTypes /\ tick \in 0..MaxTick /\ tick \in Nat /\ MaxTick \in Nat
      /\ limits \in [LimitKeys -> WindowEntries] /\ saved \in [LimitKeys -> WindowEntries]
      /\ Limit \in Nat \ {0} /\ Window \in Nat \ {0} /\ Extra \in Nat /\ imports \in Nat
  BY ExtraType, LimitAssumption DEF LimitAssumption, LimitInv, LimitTypes
<1>2. /\ UNCHANGED <<limits, saved, allowed, imports>> /\ tick' = tick + 1 /\ tick < MaxTick
      /\ Extra' = Extra
  BY DEF Ticks, Extra
<1>3. LimitTypes'
  <2>1. \A k \in LimitKeys : \A e \in {limits[k], saved[k]} : e.resetAt \in Nat
    BY <1>1 DEF WindowEntries
  <2>2. \A k \in LimitKeys : \A e \in {limits[k], saved[k]} :
          e.resetAt <= tick' + Window /\ (e.count > 0 => e.resetAt >= Window)
    BY <1>1, <1>2, <2>1 DEF LimitTypes
  <2>3. \A k \in LimitKeys, x \in 0..MaxTick : x > tick' => allowed[k][x] = 0
    BY <1>1, <1>2 DEF LimitTypes
  <2> QED
    BY <1>1, <1>2, <2>2, <2>3 DEF LimitTypes
<1>4. \A k \in LimitKeys : \A e \in {limits[k], saved[k]} :
        e.resetAt \in Nat /\ (tick' <= e.resetAt => tick <= e.resetAt)
  BY <1>1, <1>2 DEF WindowEntries
<1>5. SavedOlder'
  BY <1>2, <1>4 DEF LimitInv, SavedOlder, Live
<1>6. \A k \in LimitKeys : \A t : /\ Through(k, Span(t)) \in Nat /\ Through(k, Since(t)) \in Nat
                              /\ Used(k) \in 0..Limit
  BY <1>1, ThroughFacts, SpansAreTicks, UsedType
<1>7. ASSUME NEW k \in LimitKeys
      PROVE  Used(k)' \in 0..Limit /\ (Used(k)' = Used(k) \/ (Live(limits[k]) /\ limits[k].resetAt = tick))
  <2>1. limits[k].count \in Nat /\ limits[k].resetAt \in Nat
    BY <1>1 DEF WindowEntries
  <2>2. Used(k)' = IF limits[k].count > 0 /\ tick + 1 <= limits[k].resetAt
                   THEN IF limits[k].count <= Limit THEN limits[k].count ELSE Limit ELSE 0
    BY <1>2 DEF Used, Live
  <2>3. Used(k) = IF limits[k].count > 0 /\ tick <= limits[k].resetAt
                  THEN IF limits[k].count <= Limit THEN limits[k].count ELSE Limit ELSE 0
    BY DEF Used, Live
  <2> QED
    BY <1>1, <2>1, <2>2, <2>3 DEF Live
<1>8. EntryBounded'
  <2> SUFFICES ASSUME NEW k \in LimitKeys
               PROVE  /\ Through(k, Since(tick + 1)) <= Extra + Used(k)'
                      /\ \A e \in {limits[k], saved[k]} :
                           e.count > 0 /\ tick + 1 <= e.resetAt =>
                             Through(k, Since(e.resetAt - Window)) <= Extra + Used(k)'
    BY <1>2 DEF EntryBounded, Through, Since, Live
  <2>1. Through(k, Since(tick + 1)) = 0
    <3>1. \A x \in Since(tick + 1) : allowed[k][x] = 0
      BY <1>1 DEF Since, LimitTypes
    <3>2. IsFiniteSet(Since(tick + 1))
      BY TicksFinite, SpansAreTicks, FS_Subset
    <3> QED
      BY <3>1, <3>2, SumZero DEF Through
  <2>2. ASSUME NEW e \in {limits[k], saved[k]}, e.count > 0, tick + 1 <= e.resetAt
        PROVE  Through(k, Since(e.resetAt - Window)) <= Extra + Used(k)'
    <3>1. Live(e) /\ e.resetAt \in Nat
      BY <1>1, <1>4, <2>2 DEF Live
    <3>2. Through(k, Since(e.resetAt - Window)) <= Extra + Used(k)
      BY <3>1 DEF LimitInv, EntryBounded
    <3>3. ~(Live(limits[k]) /\ limits[k].resetAt = tick)
      <4> SUFFICES ASSUME Live(limits[k]), limits[k].resetAt = tick PROVE FALSE
        OBVIOUS
      <4>1. e.resetAt <= limits[k].resetAt
        BY <1>4, <3>1 DEF LimitInv, SavedOlder, Live
      <4> QED
        BY <1>1, <2>2, <3>1, <4>1
    <3> QED
      BY <1>7, <3>2, <3>3
  <2>3. Used(k)' \in Nat
    BY <1>1, <1>7
  <2> QED
    BY <1>1, <2>1, <2>2, <2>3
<1>9. SpanBounded'
  <2> SUFFICES ASSUME NEW k \in LimitKeys, NEW t \in 0..MaxTick
               PROVE  /\ tick + 1 < t + Window => Through(k, Span(t)) <= Extra + Limit + Used(k)'
                      /\ Through(k, Span(t)) <= Extra + Limit + Limit
    BY <1>2 DEF SpanBounded, Through, Span
  <2>1. /\ tick < t + Window => Through(k, Span(t)) <= Extra + Limit + Used(k)
        /\ Through(k, Span(t)) <= Extra + Limit + Limit
    BY DEF LimitInv, SpanBounded
  <2>2. ASSUME tick + 1 < t + Window PROVE Through(k, Span(t)) <= Extra + Limit + Used(k)'
    <3>1. CASE Used(k)' = Used(k)
      BY <1>1, <2>1, <2>2, <3>1
    <3>2. CASE Live(limits[k]) /\ limits[k].resetAt = tick
      <4> DEFINE s == tick - Window
      <4>1. Through(k, Since(s)) <= Extra + Used(k)
        BY <3>2 DEF LimitInv, EntryBounded
      <4>2. s < t /\ s \in Int
        BY <1>1, <2>2
      <4>3. Span(t) \in SUBSET Since(s)
        BY <1>1, <4>2 DEF Span, Since
      <4>4. Through(k, Span(t)) <= Through(k, Since(s))
        BY <1>1, <4>3, ThroughFacts, SpansAreTicks
      <4>5. Through(k, Since(s)) \in Nat /\ Through(k, Span(t)) \in Nat
        BY <1>6
      <4>6. Used(k) \in 0..Limit /\ Used(k)' \in 0..Limit
        BY <1>6, <1>7
      <4> HIDE DEF s
      <4> QED
        BY <1>1, <4>1, <4>4, <4>5, <4>6
    <3> QED
      BY <1>7, <3>1, <3>2
  <2> QED
    BY <2>1, <2>2
<1> QED
  BY <1>3, <1>5, <1>8, <1>9 DEF LimitInv

LEMMA RestartLimitsInv == ASSUME LimitInv, RestartLimits PROVE LimitInv'
<1>1. /\ LimitTypes /\ tick \in 0..MaxTick /\ Limit \in Nat \ {0} /\ Window \in Nat \ {0}
      /\ Extra \in Nat /\ imports \in Nat
      /\ limits \in [LimitKeys -> WindowEntries] /\ saved \in [LimitKeys -> WindowEntries]
  BY ExtraType DEF LimitInv, LimitTypes
<1>2. UNCHANGED <<saved, tick, allowed>> /\ imports' = imports + 1
  BY DEF RestartLimits
<1>3. Extra' = Extra + Limit
  <2>1. \A m, n \in Nat : (m + 1) * n = m * n + n
    OBVIOUS
  <2> QED
    BY <1>1, <1>2, <2>1 DEF Extra
<1>4. /\ limits' \in [LimitKeys -> WindowEntries]
      /\ \A k \in LimitKeys : limits'[k] = saved[k] \/ limits'[k] = NoEntry
  BY <1>1 DEF RestartLimits, NoEntry, WindowEntries
<1>5. LimitTypes'
  <2>1. \A k \in LimitKeys : \A e \in {limits'[k], saved[k]} :
          e.resetAt <= tick + Window /\ (e.count > 0 => e.resetAt >= Window)
    BY <1>1, <1>4 DEF LimitTypes, NoEntry
  <2> QED
    BY <1>1, <1>2, <1>4, <2>1 DEF LimitTypes
<1>6. SavedOlder'
  <2>1. \A k \in LimitKeys : limits'[k].count > 0 => limits'[k] = saved[k]
    BY <1>4 DEF NoEntry
  <2>2. \A k \in LimitKeys : saved[k].resetAt \in Nat
    BY <1>1 DEF WindowEntries
  <2> QED
    BY <1>2, <2>1, <2>2 DEF SavedOlder
<1>7. ASSUME NEW k \in LimitKeys PROVE Extra + Used(k) <= Extra' + Used(k)'
  <2>1. limits'[k].count \in Nat
    BY <1>4 DEF WindowEntries
  <2>2. Used(k)' \in 0..Limit
    BY <1>1, <2>1 DEF Used
  <2>3. Used(k) \in 0..Limit
    BY <1>1, UsedType
  <2> QED
    BY <1>1, <1>3, <2>2, <2>3
<1>8. Extra' \in Nat /\ Extra <= Extra'
  BY <1>1, <1>3
<1>9. \A k \in LimitKeys : limits'[k] = saved[k] \/ limits'[k].count = 0
  BY <1>4 DEF NoEntry
<1> QED
  BY <1>2, <1>5, <1>6, <1>7, <1>8, <1>9, NothingAllowed

LEMMA PruneLimitsInv == ASSUME LimitInv, Prune PROVE LimitInv'
<1>1. /\ LimitTypes /\ Extra \in Nat
      /\ limits \in [LimitKeys -> WindowEntries] /\ saved \in [LimitKeys -> WindowEntries]
  BY ExtraType DEF LimitInv, LimitTypes
<1>2. /\ limits' = [k \in LimitKeys |-> IF k \in Prunable THEN NoEntry ELSE limits[k]]
      /\ UNCHANGED <<saved, tick, allowed, imports>> /\ Extra' = Extra
  BY DEF Prune, Extra
<1>3. \A k \in LimitKeys : \/ limits'[k] = limits[k]
                           \/ limits'[k] = NoEntry /\ tick > limits[k].resetAt
  BY <1>2 DEF Prunable
<1>4. NoEntry \in WindowEntries /\ NoEntry.count = 0 /\ NoEntry.resetAt = 0
  BY DEF NoEntry, WindowEntries
<1>5. LimitTypes'
  <2>1. limits' \in [LimitKeys -> WindowEntries]
    BY <1>1, <1>2, <1>4
  <2>2. \A k \in LimitKeys : \A e \in {limits'[k], saved[k]} :
          e.resetAt <= tick + Window /\ (e.count > 0 => e.resetAt >= Window)
    BY <1>1, <1>3, <1>4, LimitAssumption DEF LimitTypes, LimitAssumption
  <2> QED
    BY <1>1, <1>2, <2>1, <2>2 DEF LimitTypes
<1>6. SavedOlder'
  BY <1>2, <1>3, <1>4 DEF LimitInv, SavedOlder, Live
<1>7. ASSUME NEW k \in LimitKeys PROVE Used(k)' = Used(k)
  <2>1. limits[k].resetAt \in Nat /\ tick \in Nat
    BY <1>1 DEF WindowEntries, LimitTypes
  <2> QED
    BY <1>2, <1>3, <1>4, <2>1 DEF Used, Live
<1>8. \A k \in LimitKeys : Used(k) \in Nat
  BY <1>1, UsedType
<1>9. \A k \in LimitKeys : Extra + Used(k) <= Extra' + Used(k)'
  BY <1>1, <1>2, <1>7, <1>8
<1>10. \A k \in LimitKeys : limits'[k] = limits[k] \/ limits'[k].count = 0
  BY <1>3, <1>4
<1> QED
  BY <1>1, <1>2, <1>5, <1>6, <1>9, <1>10, NothingAllowed

LEMMA SavesInv == ASSUME LimitInv, Saves PROVE LimitInv'
<1>1. /\ LimitTypes /\ Extra \in Nat /\ limits \in [LimitKeys -> WindowEntries]
  BY ExtraType DEF LimitInv, LimitTypes
<1>2. saved' = limits /\ UNCHANGED <<limits, tick, allowed, imports>> /\ Extra' = Extra
  BY DEF Saves, Extra
<1>3. LimitTypes'
  BY <1>1, <1>2 DEF LimitTypes
<1>4. SavedOlder'
  BY <1>1, <1>2 DEF SavedOlder, WindowEntries
<1>5. \A k \in LimitKeys : Used(k)' = Used(k) /\ Used(k) \in Nat
  BY <1>1, <1>2, UsedType DEF Used, Live
<1>6. \A k \in LimitKeys : Extra + Used(k) <= Extra' + Used(k)'
  BY <1>1, <1>2, <1>5
<1> QED
  BY <1>1, <1>2, <1>3, <1>4, <1>6, NothingAllowed

LEMMA LimitStep == LimitInv /\ [NextLimits]_limitVars => LimitInv'
<1> SUFFICES ASSUME LimitInv, [NextLimits]_limitVars PROVE LimitInv'
  OBVIOUS
<1>1. ASSUME NEW k \in LimitKeys, Check(k) PROVE LimitInv'
  BY <1>1, CheckInv
<1>2. CASE Prune \/ Saves \/ RestartLimits \/ Ticks
  BY <1>2, PruneLimitsInv, SavesInv, RestartLimitsInv, TicksInv
<1>3. CASE UNCHANGED limitVars
  <2>1. UNCHANGED <<limits, saved, tick, allowed, imports>>
    BY <1>3 DEF limitVars
  <2> QED
    BY <2>1 DEF LimitInv, LimitTypes, SavedOlder, EntryBounded, SpanBounded,
                Live, Used, Through, Span, Since, Extra
<1> QED
  BY <1>1, <1>2, <1>3 DEF NextLimits

(* However calls, prunings and restarts fall, no period as long as the     *)
(* window sees more than twice the limit allowed, and once more for every  *)
(* restart.                                                                *)
THEOREM WindowBoundedHolds == LimitSpec => []WindowBounded
<1>1. ASSUME LimitInv PROVE WindowBounded
  <2> SUFFICES ASSUME NEW k \in LimitKeys, NEW t \in 0..MaxTick
               PROVE  AllowedFrom(k, t) <= (2 + imports) * Limit
    BY DEF WindowBounded
  <2>1. AllowedFrom(k, t) = Through(k, Span(t))
    BY DEF AllowedFrom, Through, SumOver, Span
  <2>2. Through(k, Span(t)) <= Extra + Limit + Limit
    BY <1>1 DEF LimitInv, SpanBounded
  <2>3. (2 + imports) * Limit = Extra + Limit + Limit
    <3>1. \A m, n \in Nat : (2 + m) * n = m * n + n + n
      OBVIOUS
    <3>2. imports \in Nat /\ Limit \in Nat
      BY <1>1, ExtraType DEF LimitInv, LimitTypes
    <3> QED
      BY <3>1, <3>2 DEF Extra
  <2> QED
    BY <2>1, <2>2, <2>3
<1> QED
  BY <1>1, InitLimitsInv, LimitStep, PTL DEF LimitSpec

-----------------------------------------------------------------------------
(***************************************************************************)
(* PriorityQueue.  The heap is ordered but for one place while an entry    *)
(* moves: upwards the entry may be above its parent (Rising), downwards it *)
(* may be below its children (Sinking).                                    *)
(***************************************************************************)
Entries == [value : Nat, priority : Int, seq : Nat]

\* A heap whose entries have numbers of their own.
Numbered(h) == h \in Seq(Entries) /\ \A i, j \in 1..Len(h) : h[i].seq = h[j].seq => i = j

Has(h, x) == \E i \in 1..Len(h) : h[i] = x

\* g has the entries of h in other places.
Rearranges(g, h) == Numbered(g) /\ Len(g) = Len(h) /\ \A x : Has(g, x) <=> Has(h, x)

Ordered(h) == \A i \in 2..Len(h) : ~Above(h[i], h[i \div 2])

Rising(h, p) ==
    /\ \A i \in 2..Len(h) : i # p => ~Above(h[i], h[i \div 2])
    /\ \A i \in 2..Len(h) : p > 1 /\ i \div 2 = p => ~Above(h[i], h[p \div 2])

Sinking(h, p) ==
    /\ \A i \in 2..Len(h) : i \div 2 # p => ~Above(h[i], h[i \div 2])
    /\ \A i \in 2..Len(h) : p > 1 /\ i \div 2 = p => ~Above(h[i], h[p \div 2])

\* compare() is a strict order, total on entries with different numbers.
LEMMA AboveOrders ==
    ASSUME NEW a \in Entries, NEW b \in Entries, NEW c \in Entries
    PROVE  /\ Above(a, b) => ~Above(b, a)
           /\ ~Above(a, b) /\ ~Above(b, c) => ~Above(a, c)
           /\ Above(a, b) /\ Above(b, c) => Above(a, c)
           /\ a.seq # b.seq => Above(a, b) \/ Above(b, a)
BY DEF Above, Entries

\* Whose child a place is.
LEMMA Halves ==
    ASSUME NEW i \in Nat, i > 1
    PROVE  /\ i \div 2 \in Nat /\ 1 <= i \div 2 /\ i \div 2 < i
           /\ \A p \in Nat : i \div 2 = p <=> i \in {2 * p, 2 * p + 1}
OBVIOUS

LEMMA SwappedIs ==
    ASSUME NEW h, Numbered(h), NEW i \in 1..Len(h), NEW j \in 1..Len(h)
    PROVE  LET g == Swapped(h, i, j) IN
           /\ Rearranges(g, h)
           /\ g[i] = h[j] /\ g[j] = h[i]
           /\ \A k \in 1..Len(h) : k # i /\ k # j => g[k] = h[k]
<1> DEFINE g == Swapped(h, i, j)
<1>1. h \in Seq(Entries) /\ \A m, n \in 1..Len(h) : h[m].seq = h[n].seq => m = n
  BY DEF Numbered
<1>2. g \in Seq(Entries) /\ Len(g) = Len(h)
  BY <1>1 DEF Swapped
<1>3. g[i] = h[j] /\ g[j] = h[i] /\ \A k \in 1..Len(h) : k # i /\ k # j => g[k] = h[k]
  BY <1>1 DEF Swapped
<1> HIDE DEF g
<1>4. \A m, n \in 1..Len(g) : g[m].seq = g[n].seq => m = n
  BY <1>1, <1>2, <1>3
<1>5. \A x : Has(g, x) <=> Has(h, x)
  BY <1>2, <1>3 DEF Has
<1>6. Rearranges(g, h)
  BY <1>2, <1>4, <1>5 DEF Rearranges, Numbered
<1> QED BY <1>3, <1>6 DEF g

LEMMA Rises ==
    ASSUME NEW h, Numbered(h), NEW p \in 1..Len(h), Rising(h, p)
    PROVE  LET q == Parent(h, p)
               g == Swapped(h, p, q) IN
           /\ q \in 1..Len(h)
           /\ q = p => Ordered(h) /\ g = h
           /\ q # p => q < p /\ ~Ordered(h)
           /\ Rising(g, q)
<1>1. PICK q : q = Parent(h, p)
  OBVIOUS
<1>2. PICK g : g = Swapped(h, p, q)
  OBVIOUS
<1>3. /\ p \in Nat /\ Len(h) \in Nat /\ p > 0 /\ p <= Len(h)
      /\ \A i \in 1..Len(h) : h[i] \in Entries
  BY DEF Numbered
<1>4. CASE q = p
  <2>1. p > 1 => ~Above(h[p], h[p \div 2])
    <3> SUFFICES ASSUME p > 1 PROVE ~Above(h[p], h[p \div 2])
      OBVIOUS
    <3>1. p \div 2 # p
      BY <1>3, Halves
    <3> QED BY <1>1, <1>4, <3>1 DEF Parent
  <2>2. Ordered(h)
    BY <1>3, <2>1 DEF Ordered, Rising
  <2>3. g = h
    BY <1>2, <1>4, <1>3 DEF Swapped, Numbered
  <2> QED BY <1>1, <1>2, <1>3, <1>4, <2>2, <2>3
<1>5. CASE q # p
  <2>1. p > 1 /\ q = p \div 2 /\ Above(h[p], h[q])
    BY <1>1, <1>5 DEF Parent
  <2>2. q \in Nat /\ 1 <= q /\ q < p /\ q \in 1..Len(h)
    BY <1>3, <2>1, Halves
  <2>3. /\ g[p] = h[q] /\ g[q] = h[p] /\ Len(g) = Len(h)
        /\ \A k \in 1..Len(h) : k # p /\ k # q => g[k] = h[k]
    BY <1>2, <2>2, SwappedIs DEF Rearranges
  <2>4. \A i \in 2..Len(g) : i # q => ~Above(g[i], g[i \div 2])
    <3> SUFFICES ASSUME NEW i \in 2..Len(h), i # q PROVE ~Above(g[i], g[i \div 2])
      BY <2>3
    <3>1. /\ i \in Nat /\ i > 1 /\ i \div 2 \in 1..Len(h) /\ i \div 2 < i
          /\ h[i] \in Entries /\ h[p] \in Entries /\ h[q] \in Entries
      BY <1>3, <2>2, Halves
    <3>2. CASE i = p
      BY <2>1, <2>3, <3>1, <3>2, AboveOrders
    <3>3. CASE i # p /\ i \div 2 = p
      <4>1. ~Above(h[i], h[q])
        BY <2>1, <3>3 DEF Rising
      <4> QED BY <2>3, <3>1, <3>3, <4>1
    <3>4. CASE i # p /\ i \div 2 = q
      <4>1. ~Above(h[i], h[q])
        BY <3>4 DEF Rising
      <4>2. ~Above(h[i], h[p])
        BY <2>1, <3>1, <4>1, AboveOrders
      <4> QED BY <2>3, <3>1, <3>4, <4>2
    <3>5. CASE i # p /\ i \div 2 # p /\ i \div 2 # q
      <4>1. ~Above(h[i], h[i \div 2])
        BY <3>5 DEF Rising
      <4>2. g[i] = h[i] /\ g[i \div 2] = h[i \div 2]
        BY <2>3, <3>1, <3>5
      <4> QED BY <4>1, <4>2
    <3> QED BY <3>2, <3>3, <3>4, <3>5
  <2>5. \A i \in 2..Len(g) : q > 1 /\ i \div 2 = q => ~Above(g[i], g[q \div 2])
    <3> SUFFICES ASSUME NEW i \in 2..Len(h), q > 1, i \div 2 = q PROVE ~Above(g[i], g[q \div 2])
      BY <2>3
    <3>1. q \div 2 \in 1..Len(h) /\ q \div 2 < q
      BY <1>3, <2>2, Halves
    <3>2. /\ i \in Nat /\ i > 1 /\ q < i
          /\ h[i] \in Entries /\ h[q \div 2] \in Entries /\ h[q] \in Entries
      BY <1>3, <2>2, <3>1, Halves
    <3>3. ~Above(h[q], h[q \div 2])
      BY <1>3, <2>2 DEF Rising
    <3>4. g[q \div 2] = h[q \div 2]
      BY <2>2, <2>3, <3>1
    <3>5. CASE i = p
      BY <2>3, <3>3, <3>4, <3>5
    <3>6. CASE i # p
      <4>1. ~Above(h[i], h[q])
        BY <3>6 DEF Rising
      <4>2. ~Above(h[i], h[q \div 2])
        BY <3>2, <3>3, <4>1, AboveOrders
      <4> QED BY <2>3, <3>2, <3>4, <3>6, <4>2
    <3> QED BY <3>5, <3>6
  <2>6. Rising(g, q)
    BY <2>4, <2>5 DEF Rising
  <2>7. ~Ordered(h)
    BY <1>3, <2>1 DEF Ordered
  <2> QED BY <1>1, <1>2, <1>5, <2>2, <2>6, <2>7
<1> QED BY <1>4, <1>5

\* Among an entry and its children one is above the others.
LEMMA LargestIs ==
    ASSUME NEW h, Numbered(h), NEW p \in 1..Len(h)
    PROVE  LET q == Largest(h, p)
               family == {p, 2 * p, 2 * p + 1} \cap 1..Len(h)
           IN  q \in family /\ \A d \in family : d = q \/ Above(h[q], h[d])
<1> DEFINE family == {p, 2 * p, 2 * p + 1} \cap 1..Len(h)
           best(c) == \A d \in family : d = c \/ Above(h[c], h[d])
<1>1. \A c \in family : h[c] \in Entries
  BY DEF Numbered
<1>2. \A c, d \in family : c # d => h[c].seq # h[d].seq
  BY DEF Numbered
<1>3. p \in family /\ p \in Nat
  OBVIOUS
<1>4. DOMAIN h = 1..Len(h)
  BY DEF Numbered
<1>5. \A c, d \in family : c # d => Above(h[c], h[d]) \/ Above(h[d], h[c])
  BY <1>1, <1>2, AboveOrders
<1>6. \A b, c, d \in family : Above(h[b], h[c]) /\ Above(h[c], h[d]) => Above(h[b], h[d])
  BY <1>1, AboveOrders
<1>7. \A c \in family : c \in {p, 2 * p, 2 * p + 1}
  OBVIOUS
<1>8. \E c \in family : best(c)
  <2> HIDE DEF family
  <2>1. CASE 2 * p \in family /\ 2 * p + 1 \in family
    <3>1. PICK a \in {p, 2 * p} : \A d \in {p, 2 * p} : d = a \/ Above(h[a], h[d])
      BY <1>3, <1>5, <2>1
    <3>2. PICK r \in family : r = 2 * p + 1
      BY <2>1
    <3>3. a \in family /\ \A d \in family : d \in {p, 2 * p} \/ d = r
      BY <1>3, <1>7, <2>1, <3>1, <3>2
    <3>4. CASE a = r \/ Above(h[a], h[r])
      BY <3>1, <3>3, <3>4
    <3>5. CASE Above(h[r], h[a])
      <4>1. \A d \in family : d = r \/ Above(h[r], h[d])
        BY <1>6, <3>1, <3>2, <3>3, <3>5
      <4> QED BY <3>2, <4>1
    <3> QED BY <1>5, <3>2, <3>3, <3>4, <3>5
  <2>2. CASE 2 * p \in family /\ 2 * p + 1 \notin family
    BY <1>3, <1>5, <1>7, <2>2
  <2>3. CASE 2 * p \notin family /\ 2 * p + 1 \in family
    BY <1>3, <1>5, <1>7, <2>3
  <2>4. CASE 2 * p \notin family /\ 2 * p + 1 \notin family
    BY <1>3, <1>7, <2>4
  <2> QED BY <2>1, <2>2, <2>3, <2>4
<1>9. Largest(h, p) = CHOOSE c \in family : best(c)
  BY <1>4 DEF Largest
<1> HIDE DEF family
<1>10. Largest(h, p) \in family /\ best(Largest(h, p))
  BY <1>8, <1>9
<1> QED BY <1>10 DEF family

LEMMA Sinks ==
    ASSUME NEW h, Numbered(h), NEW p \in 1..Len(h), Sinking(h, p)
    PROVE  LET q == Largest(h, p)
               g == Swapped(h, p, q) IN
           /\ q \in 1..Len(h)
           /\ q = p => Ordered(h) /\ g = h
           /\ q # p => p < q /\ ~Ordered(h)
           /\ Sinking(g, q)
<1>1. PICK q : q = Largest(h, p)
  OBVIOUS
<1>2. PICK g : g = Swapped(h, p, q)
  OBVIOUS
<1>3. /\ p \in Nat /\ Len(h) \in Nat /\ p > 0 /\ p <= Len(h)
      /\ \A i \in 1..Len(h) : h[i] \in Entries
  BY DEF Numbered
<1>4. q \in 1..Len(h) /\ q \in {p, 2 * p, 2 * p + 1}
  BY <1>1, LargestIs
<1>5. \A i \in 2..Len(h) : i \div 2 = p => i = q \/ Above(h[q], h[i])
  <2> SUFFICES ASSUME NEW i \in 2..Len(h), i \div 2 = p PROVE i = q \/ Above(h[q], h[i])
    OBVIOUS
  <2>1. i \in {p, 2 * p, 2 * p + 1} \cap 1..Len(h)
    BY <1>3, Halves
  <2> QED BY <1>1, <2>1, LargestIs
<1>6. CASE q = p
  <2>1. ASSUME NEW i \in 2..Len(h), i \div 2 = p PROVE ~Above(h[i], h[i \div 2])
    <3>1. i # p /\ h[i] \in Entries /\ h[p] \in Entries
      BY <1>3, <2>1, Halves
    <3>2. Above(h[p], h[i])
      BY <1>5, <1>6, <2>1, <3>1
    <3> QED BY <2>1, <3>1, <3>2, AboveOrders
  <2>2. Ordered(h)
    BY <2>1 DEF Ordered, Sinking
  <2>3. g = h
    BY <1>2, <1>6, <1>3 DEF Swapped, Numbered
  <2> QED BY <1>1, <1>2, <1>6, <2>2, <2>3
<1>7. CASE q # p
  <2>1. q \in Nat /\ q \in 2..Len(h) /\ p < q /\ q \div 2 = p
    BY <1>3, <1>4, <1>7, Halves
  <2>2. Above(h[q], h[p])
    <3>1. p \in {p, 2 * p, 2 * p + 1} \cap 1..Len(h)
      OBVIOUS
    <3> QED BY <1>1, <1>7, <3>1, LargestIs
  <2>3. /\ g[p] = h[q] /\ g[q] = h[p] /\ Len(g) = Len(h)
        /\ \A k \in 1..Len(h) : k # p /\ k # q => g[k] = h[k]
    BY <1>2, <1>4, SwappedIs DEF Rearranges
  <2>4. \A i \in 2..Len(g) : i \div 2 # q => ~Above(g[i], g[i \div 2])
    <3> SUFFICES ASSUME NEW i \in 2..Len(h), i \div 2 # q PROVE ~Above(g[i], g[i \div 2])
      BY <2>3
    <3>1. /\ i \in Nat /\ i > 1 /\ i \in 1..Len(h) /\ i \div 2 \in 1..Len(h) /\ i \div 2 < i
          /\ h[i] \in Entries /\ h[p] \in Entries /\ h[q] \in Entries
      BY <1>3, <1>4, Halves
    <3>2. CASE i = p
      <4>1. ~Above(h[q], h[p \div 2])
        BY <2>1, <3>1, <3>2 DEF Sinking
      <4>2. g[i \div 2] = h[p \div 2]
        BY <2>1, <2>3, <3>1, <3>2
      <4> QED BY <2>3, <3>2, <4>1, <4>2
    <3>3. CASE i = q
      BY <2>1, <2>2, <2>3, <3>1, <3>3, AboveOrders
    <3>4. CASE i # q /\ i \div 2 = p
      <4>1. Above(h[q], h[i])
        BY <1>5, <3>4
      <4>2. ~Above(h[i], h[q])
        BY <3>1, <4>1, AboveOrders
      <4>3. g[i] = h[i] /\ g[i \div 2] = h[q]
        BY <2>3, <3>1, <3>4
      <4> QED BY <4>2, <4>3
    <3>5. CASE i # q /\ i # p /\ i \div 2 # p
      <4>1. ~Above(h[i], h[i \div 2])
        BY <3>5 DEF Sinking
      <4>2. g[i] = h[i] /\ g[i \div 2] = h[i \div 2]
        BY <2>3, <3>1, <3>5
      <4> QED BY <4>1, <4>2
    <3> QED BY <3>2, <3>3, <3>4, <3>5
  <2>5. \A i \in 2..Len(g) : q > 1 /\ i \div 2 = q => ~Above(g[i], g[q \div 2])
    <3> SUFFICES ASSUME NEW i \in 2..Len(h), i \div 2 = q PROVE ~Above(g[i], g[q \div 2])
      BY <2>3
    <3>1. i # p /\ i # q /\ i \in 1..Len(h)
      BY <1>3, <2>1, Halves
    <3>2. ~Above(h[i], h[q])
      BY <1>7 DEF Sinking
    <3> QED BY <2>1, <2>3, <3>1, <3>2
  <2>6. Sinking(g, q)
    BY <2>4, <2>5 DEF Sinking
  <2>7. ~Ordered(h)
    BY <2>1, <2>2 DEF Ordered
  <2> QED BY <1>1, <1>2, <1>4, <1>7, <2>1, <2>6, <2>7
<1> QED BY <1>6, <1>7

\* A set of numbers with 0 that is closed under the step up to n has n.
LEMMA UpTo ==
    ASSUME NEW n \in Nat, NEW S, 0 \in S, \A i \in 0..n : i # 0 /\ (i - 1) \in S => i \in S
    PROVE  n \in S
<1> DEFINE T == {i \in 0..n : i \notin S}
<1> SUFFICES ASSUME T # {} PROVE FALSE
  OBVIOUS
<1>1. PICK x \in T : \A y \in T : x <= y
  <2>1. T \subseteq Nat
    OBVIOUS
  <2> HIDE DEF T
  <2> QED BY <2>1, SmallestNumber
<1>2. x # 0 /\ x \in 0..n /\ (x - 1) \notin T /\ (x - 1) \in 0..n
  BY <1>1
<1> QED BY <1>1, <1>2

(***************************************************************************)
(* The loops of the sorted set and of the priority queue, each a recursive *)
(* function on the number of rounds: what the m-th round makes of x.       *)
(***************************************************************************)
ListRound(loop, x, m) ==
    CASE loop.kind = "walk" ->
           LET next == loop.list.forward[x][loop.level] IN
           IF next # Null /\ Before(next, loop.key) THEN next ELSE x
      [] loop.kind = "descend" -> Walk(loop.list, loop.list.level - m, x, loop.key)
      [] loop.kind = "toArray" ->
           IF x.next = Null THEN x
           ELSE [next |-> loop.list.forward[x.next][0], result |-> Append(x.result, x.next)]
      [] loop.kind = "import" -> ListSet(x, loop.exported[m], loop.heights[m])
      [] loop.kind = "choose" ->
           IF loop.seq[m] \in loop.set THEN Append(x, loop.seq[m]) ELSE x

Round(loop, x, m) ==
    CASE loop.kind = "bubbleUp" ->
           [heap |-> Swapped(x.heap, x.place, Parent(x.heap, x.place)),
            place |-> Parent(x.heap, x.place)]
      [] loop.kind = "sinkDown" ->
           [heap |-> Swapped(x.heap, x.place, Largest(x.heap, x.place)),
            place |-> Largest(x.heap, x.place)]
      [] loop.kind = "enqueue" -> Pushed(x, [loop.listed[m] EXCEPT !.seq = m - 1])
      [] loop.kind = "serve" ->
           [heap |-> Popped(x.heap), out |-> Append(x.out, x.heap[1])]
      [] OTHER -> ListRound(loop, x, m)

Rounds(f, loop, x, n) == f = [m \in 0..n |-> IF m = 0 THEN x ELSE Round(loop, f[m - 1], m)]

LEMMA RoundsExist ==
    ASSUME NEW loop, NEW x, NEW n \in Nat
    PROVE  \E f : Rounds(f, loop, x, n)
<1> DEFINE T == {k \in Nat : \E f : Rounds(f, loop, x, k)}
<1>1. 0 \in T
  <2> DEFINE f == [m \in 0..0 |-> x]
  <2>1. f = [m \in 0..0 |-> IF m = 0 THEN x ELSE Round(loop, f[m - 1], m)]
    OBVIOUS
  <2> QED BY <2>1 DEF Rounds
<1>2. ASSUME NEW k \in 0..n, k # 0, (k - 1) \in T PROVE k \in T
  <2>1. PICK f : Rounds(f, loop, x, k - 1)
    BY <1>2
  <2> DEFINE g == [m \in 0..k |-> IF m < k THEN f[m] ELSE Round(loop, f[k - 1], k)]
  <2>2. \A m \in 0..(k - 1) : f[m] = IF m = 0 THEN x ELSE Round(loop, f[m - 1], m)
    BY <2>1 DEF Rounds
  <2>3. k \in Nat /\ k # 0
    BY <1>2
  <2>4. ASSUME NEW m \in 0..k, m # k
        PROVE  m \in 0..(k - 1) /\ m < k /\ (m # 0 => m - 1 < k /\ m - 1 \in 0..k)
    BY ONLY <2>3, <2>4
  <2>5. k \in 0..k /\ k - 1 \in 0..k /\ k - 1 < k /\ ~(k < k)
    BY <2>3
  <2>6. \A m \in 0..k : g[m] = IF m = 0 THEN x ELSE Round(loop, g[m - 1], m)
    BY <1>2, <2>2, <2>4, <2>5
  <2>7. Rounds(g, loop, x, k)
    BY <2>6 DEF Rounds
  <2> QED BY <2>3, <2>7
<1>3. n \in T
  <2> HIDE DEF T
  <2> QED BY <1>1, <1>2, UpTo
<1> QED BY <1>3

\* f[m] is what m rounds make of x.
Runs(f, loop, x, n) ==
    f[0] = x /\ \A m \in 1..n : f[m] = Round(loop, f[m - 1], m)

LEMMA RoundsRun ==
    ASSUME NEW loop, NEW x, NEW n \in Nat, NEW f, Rounds(f, loop, x, n)
    PROVE  Runs(f, loop, x, n)
<1>1. \A m \in 0..n : f[m] = IF m = 0 THEN x ELSE Round(loop, f[m - 1], m)
  BY DEF Rounds
<1>2. 0 \in 0..n /\ \A m \in 1..n : m \in 0..n /\ m # 0
  OBVIOUS
<1> QED BY <1>1, <1>2 DEF Runs

LEMMA BubbleUpRuns ==
    ASSUME NEW h, NEW i, Len(h) \in Nat
    PROVE  \E f : /\ Runs(f, [kind |-> "bubbleUp"], [heap |-> h, place |-> i], Len(h))
                  /\ BubbleUp(h, i) = f[Len(h)].heap
<1> DEFINE n == Len(h)
           x == [heap |-> h, place |-> i]
           loop == [kind |-> "bubbleUp"]
           Is(at) == at = [m \in 0..n |->
                 IF m = 0 THEN x
                 ELSE LET from == at[m - 1]
                          to == Parent(from.heap, from.place)
                      IN  [heap |-> Swapped(from.heap, from.place, to), place |-> to]]
           f == CHOOSE at : Is(at)
<1>1. \A at : Is(at) <=> Rounds(at, loop, x, n)
  BY DEF Round, Rounds
<1>2. Is(f)
  BY <1>1, RoundsExist
<1>3. BubbleUp(h, i) = f[n].heap
  BY DEF BubbleUp, Settling
<1> QED BY <1>1, <1>2, <1>3, RoundsRun

LEMMA SinkDownRuns ==
    ASSUME NEW h, NEW i, Len(h) \in Nat
    PROVE  \E f : /\ Runs(f, [kind |-> "sinkDown"], [heap |-> h, place |-> i], Len(h))
                  /\ SinkDown(h, i) = f[Len(h)].heap
<1> DEFINE n == Len(h)
           x == [heap |-> h, place |-> i]
           loop == [kind |-> "sinkDown"]
           Is(at) == at = [m \in 0..n |->
                 IF m = 0 THEN x
                 ELSE LET from == at[m - 1]
                          to == Largest(from.heap, from.place)
                      IN  [heap |-> Swapped(from.heap, from.place, to), place |-> to]]
           f == CHOOSE at : Is(at)
<1>1. \A at : Is(at) <=> Rounds(at, loop, x, n)
  BY DEF Round, Rounds
<1>2. Is(f)
  BY <1>1, RoundsExist
<1>3. SinkDown(h, i) = f[n].heap
  BY DEF SinkDown, Settling
<1> QED BY <1>1, <1>2, <1>3, RoundsRun

LEMMA EnqueuedRuns ==
    ASSUME NEW listed, Len(listed) \in Nat
    PROVE  \E f : /\ Runs(f, [kind |-> "enqueue", listed |-> listed], <<>>, Len(listed))
                  /\ Enqueued(listed) = f[Len(listed)]
<1> DEFINE n == Len(listed)
           loop == [kind |-> "enqueue", listed |-> listed]
           Is(h) == h = [m \in 0..n |->
                 IF m = 0 THEN <<>> ELSE Pushed(h[m - 1], [listed[m] EXCEPT !.seq = m - 1])]
           f == CHOOSE h : Is(h)
<1>1. \A h : Is(h) <=> Rounds(h, loop, <<>>, n)
  BY DEF Round, Rounds
<1>2. Is(f)
  BY <1>1, RoundsExist
<1>3. Enqueued(listed) = f[n]
  BY DEF Enqueued
<1> QED BY <1>1, <1>2, <1>3, RoundsRun

LEMMA ServedRuns ==
    ASSUME NEW h, Len(h) \in Nat
    PROVE  \E f : /\ Runs(f, [kind |-> "serve"], [heap |-> h, out |-> <<>>], Len(h))
                  /\ Served(h) = f[Len(h)].out
<1> DEFINE n == Len(h)
           x == [heap |-> h, out |-> <<>>]
           loop == [kind |-> "serve"]
           Is(at) == at = [m \in 0..n |->
                 IF m = 0 THEN x
                 ELSE LET from == at[m - 1]
                      IN  [heap |-> Popped(from.heap), out |-> Append(from.out, from.heap[1])]]
           f == CHOOSE at : Is(at)
<1>1. \A at : Is(at) <=> Rounds(at, loop, x, n)
  BY DEF Round, Rounds
<1>2. Is(f)
  BY <1>1, RoundsExist
<1>3. Served(h) = f[n].out
  BY DEF Served
<1> QED BY <1>1, <1>2, <1>3, RoundsRun

LEMMA RearrangedTwice ==
    ASSUME NEW f, NEW g, NEW h, Rearranges(f, g), Rearranges(g, h)
    PROVE  Rearranges(f, h)
BY DEF Rearranges

\* Each round of bubbleUp() ends with an ordered heap or nearer to the root.
LEMMA BubbleUpOrders ==
    ASSUME NEW h, Numbered(h), NEW p \in 1..Len(h), Rising(h, p)
    PROVE  Rearranges(BubbleUp(h, p), h) /\ Ordered(BubbleUp(h, p))
<1> DEFINE n == Len(h)
           loop == [kind |-> "bubbleUp"]
           Rose(x, m) ==
             /\ Rearranges(x.heap, h) /\ x.place \in 1..n /\ Rising(x.heap, x.place)
             /\ Ordered(x.heap) \/ x.place + m <= p
<1>1. n \in Nat /\ n > 0 /\ p \in Nat /\ p <= n /\ p > 0
  BY DEF Numbered
<1>2. PICK f : Runs(f, loop, [heap |-> h, place |-> p], n) /\ BubbleUp(h, p) = f[n].heap
  BY <1>1, BubbleUpRuns
<1> DEFINE S == {m \in 0..n : Rose(f[m], m)}
<1>3. 0 \in S
  <2>1. f[0].heap = h /\ f[0].place = p
    BY <1>2 DEF Runs
  <2>2. Rearranges(h, h)
    BY DEF Rearranges
  <2> QED BY <1>1, <2>1, <2>2
<1>4. ASSUME NEW m \in 0..n, m # 0, (m - 1) \in S PROVE m \in S
  <2>1. PICK g, q, r : g = f[m - 1].heap /\ q = f[m - 1].place /\ r = Parent(g, q)
    OBVIOUS
  <2>2. /\ Rearranges(g, h) /\ q \in 1..n /\ Rising(g, q)
        /\ Ordered(g) \/ q + (m - 1) <= p
    BY <1>4, <2>1
  <2>3. f[m].heap = Swapped(g, q, r) /\ f[m].place = r
    <3>1. m \in 1..n
      BY <1>4
    <3>2. f[m] = Round(loop, f[m - 1], m)
      BY <1>2, <3>1 DEF Runs
    <3>3. f[m] = [heap |-> Swapped(g, q, r), place |-> r]
      BY <2>1, <3>2, Zenon DEF Round
    <3> QED BY <3>3
  <2>4. Numbered(g) /\ Len(g) = n
    BY <2>2 DEF Rearranges
  <2>5. PICK k : k = Swapped(g, q, r)
    OBVIOUS
  <2>6. /\ r \in 1..n /\ Rising(k, r)
        /\ r = q => Ordered(g) /\ k = g
        /\ r # q => r < q /\ ~Ordered(g)
    BY <2>1, <2>2, <2>4, <2>5, Rises
  <2>7. Rearranges(k, h)
    BY <2>2, <2>4, <2>5, <2>6, SwappedIs, RearrangedTwice
  <2>8. Ordered(k) \/ r + m <= p
    BY <1>1, <2>2, <2>6
  <2> QED BY <2>3, <2>5, <2>6, <2>7, <2>8
<1>5. n \in S
  <2> HIDE DEF S
  <2> QED BY <1>1, <1>3, <1>4, UpTo
<1>6. Rearranges(f[n].heap, h) /\ (Ordered(f[n].heap) \/ f[n].place + n <= p) /\ f[n].place \in 1..n
  BY <1>5
<1> QED BY <1>1, <1>2, <1>6

\* Each round of sinkDown() ends with an ordered heap or farther from the root.
LEMMA SinkDownOrders ==
    ASSUME NEW h, Numbered(h), NEW p \in 1..Len(h), Sinking(h, p)
    PROVE  Rearranges(SinkDown(h, p), h) /\ Ordered(SinkDown(h, p))
<1> DEFINE n == Len(h)
           loop == [kind |-> "sinkDown"]
           Sank(x, m) ==
             /\ Rearranges(x.heap, h) /\ x.place \in 1..n /\ Sinking(x.heap, x.place)
             /\ Ordered(x.heap) \/ m < x.place
<1>1. n \in Nat /\ n > 0 /\ p \in Nat /\ p <= n /\ p > 0
  BY DEF Numbered
<1>2. PICK f : Runs(f, loop, [heap |-> h, place |-> p], n) /\ SinkDown(h, p) = f[n].heap
  BY <1>1, SinkDownRuns
<1> DEFINE S == {m \in 0..n : Sank(f[m], m)}
<1>3. 0 \in S
  <2>1. f[0].heap = h /\ f[0].place = p
    BY <1>2 DEF Runs
  <2>2. Rearranges(h, h)
    BY DEF Rearranges
  <2> QED BY <1>1, <2>1, <2>2
<1>4. ASSUME NEW m \in 0..n, m # 0, (m - 1) \in S PROVE m \in S
  <2>1. PICK g, q, r : g = f[m - 1].heap /\ q = f[m - 1].place /\ r = Largest(g, q)
    OBVIOUS
  <2>2. /\ Rearranges(g, h) /\ q \in 1..n /\ Sinking(g, q)
        /\ Ordered(g) \/ m - 1 < q
    BY <1>4, <2>1
  <2>3. f[m].heap = Swapped(g, q, r) /\ f[m].place = r
    <3>1. m \in 1..n
      BY <1>4
    <3>2. f[m] = Round(loop, f[m - 1], m)
      BY <1>2, <3>1 DEF Runs
    <3>3. f[m] = [heap |-> Swapped(g, q, r), place |-> r]
      BY <2>1, <3>2, Zenon DEF Round
    <3> QED BY <3>3
  <2>4. Numbered(g) /\ Len(g) = n
    BY <2>2 DEF Rearranges
  <2>5. PICK k : k = Swapped(g, q, r)
    OBVIOUS
  <2>6. /\ r \in 1..n /\ Sinking(k, r)
        /\ r = q => Ordered(g) /\ k = g
        /\ r # q => q < r /\ ~Ordered(g)
    BY <2>1, <2>2, <2>4, <2>5, Sinks
  <2>7. Rearranges(k, h)
    BY <2>2, <2>4, <2>5, <2>6, SwappedIs, RearrangedTwice
  <2>8. Ordered(k) \/ m < r
    BY <1>1, <2>2, <2>6
  <2> QED BY <2>3, <2>5, <2>6, <2>7, <2>8
<1>5. n \in S
  <2> HIDE DEF S
  <2> QED BY <1>1, <1>3, <1>4, UpTo
<1>6. Rearranges(f[n].heap, h) /\ (Ordered(f[n].heap) \/ n < f[n].place) /\ f[n].place \in 1..n
  BY <1>5
<1> QED BY <1>1, <1>2, <1>6

\* The root is above every other entry.
LEMMA RootIsFirst ==
    ASSUME NEW h, Numbered(h), Ordered(h)
    PROVE  \A i \in 2..Len(h) : Above(h[1], h[i])
<1> DEFINE T == {i \in 2..Len(h) : ~Above(h[1], h[i])}
<1> SUFFICES ASSUME T # {} PROVE FALSE
  OBVIOUS
<1>1. PICK i \in T : \A j \in T : i <= j
  <2>1. T \subseteq Nat
    OBVIOUS
  <2> HIDE DEF T
  <2> QED BY <2>1, SmallestNumber
<1>2. /\ i \in Nat /\ i > 1 /\ i <= Len(h) /\ Len(h) \in Nat
      /\ \A j \in 1..Len(h) : h[j] \in Entries
      /\ i \div 2 \in Nat /\ 1 <= i \div 2 /\ i \div 2 < i
  BY <1>1, Halves DEF Numbered
<1>3. Above(h[i \div 2], h[i])
  <2>1. ~Above(h[i], h[i \div 2])
    BY <1>1 DEF Ordered
  <2>2. h[i].seq # h[i \div 2].seq
    BY <1>2 DEF Numbered
  <2> QED BY <1>2, <2>1, <2>2, AboveOrders
<1>4. CASE i \div 2 = 1
  BY <1>1, <1>3, <1>4
<1>5. CASE i \div 2 # 1
  <2>1. i \div 2 \in 2..Len(h) /\ i \div 2 \notin T
    BY <1>1, <1>2, <1>5
  <2>2. Above(h[1], h[i \div 2])
    BY <2>1
  <2>3. Above(h[1], h[i])
    BY <1>2, <1>3, <2>2, AboveOrders
  <2> QED BY <1>1, <2>3
<1> QED BY <1>4, <1>5

LEMMA PushedIs ==
    ASSUME NEW h, Numbered(h), Ordered(h), NEW item \in Entries,
           \A i \in 1..Len(h) : h[i].seq # item.seq
    PROVE  LET g == Pushed(h, item) IN
           /\ Numbered(g) /\ Ordered(g) /\ Len(g) = Len(h) + 1
           /\ \A x : Has(g, x) <=> Has(h, x) \/ x = item
<1>1. PICK d : d = Append(h, item)
  OBVIOUS
<1>2. PICK n : n = Len(h) + 1
  OBVIOUS
<1>3. h \in Seq(Entries) /\ Len(h) \in Nat
  BY DEF Numbered
<1>4. /\ d \in Seq(Entries) /\ Len(d) = n /\ d[n] = item
      /\ \A i \in 1..Len(h) : d[i] = h[i]
      /\ n \in Nat /\ n \in 1..Len(d)
      /\ \A i : i \in 1..n <=> i = n \/ i \in 1..Len(h)
  BY <1>1, <1>2, <1>3
<1>5. Numbered(d)
  <2>1. \A i, j \in 1..Len(h) : h[i].seq = h[j].seq => i = j
    BY DEF Numbered
  <2>2. ASSUME NEW i \in 1..n, NEW j \in 1..n, d[i].seq = d[j].seq PROVE i = j
    <3>1. (i = n \/ i \in 1..Len(h)) /\ (j = n \/ j \in 1..Len(h))
      BY <1>4
    <3> QED BY <1>4, <2>1, <2>2, <3>1
  <2> QED BY <1>4, <2>2 DEF Numbered
<1>6. Rising(d, n)
  <2>1. ASSUME NEW i \in 2..Len(d) PROVE i \in Nat /\ i > 1 /\ i <= n /\ i \div 2 < i /\ i \div 2 \in 1..Len(h)
    BY <1>2, <1>3, <1>4, <2>1, Halves
  <2>2. ASSUME NEW i \in 2..Len(d), i # n PROVE ~Above(d[i], d[i \div 2])
    <3>1. i \in 2..Len(h)
      BY <1>2, <1>3, <1>4, <2>1, <2>2
    <3> QED BY <1>4, <2>1, <3>1 DEF Ordered
  <2>3. \A i \in 2..Len(d) : i \div 2 # n
    BY <2>1, <1>2, <1>3, <1>4
  <2> QED BY <2>2, <2>3 DEF Rising
<1>7. PICK g : g = Pushed(h, item)
  OBVIOUS
<1>8. Rearranges(g, d) /\ Ordered(g)
  BY <1>1, <1>2, <1>4, <1>5, <1>6, <1>7, BubbleUpOrders DEF Pushed
<1>9. \A x : Has(d, x) <=> Has(h, x) \/ x = item
  BY <1>4 DEF Has
<1> QED BY <1>2, <1>4, <1>7, <1>8, <1>9 DEF Rearranges

LEMMA PoppedIs ==
    ASSUME NEW h, Numbered(h), Ordered(h), Len(h) > 0
    PROVE  LET g == Popped(h) IN
           /\ Numbered(g) /\ Ordered(g) /\ Len(g) = Len(h) - 1
           /\ \A x : Has(g, x) <=> Has(h, x) /\ x # h[1]
<1>1. PICK n : n = Len(h)
  OBVIOUS
<1>2. /\ h \in Seq(Entries) /\ n \in Nat /\ n > 0
      /\ \A i, j \in 1..n : h[i].seq = h[j].seq => i = j
  BY <1>1 DEF Numbered
<1>3. CASE n = 1
  <2>1. Popped(h) = <<>>
    BY <1>1, <1>3 DEF Popped
  <2>2. Numbered(<<>>) /\ Ordered(<<>>) /\ Len(<<>>) = n - 1 /\ \A x : ~Has(<<>>, x)
    BY <1>3 DEF Numbered, Ordered, Has
  <2>3. \A x : Has(h, x) => x = h[1]
    BY <1>1, <1>3 DEF Has
  <2> QED BY <1>1, <2>1, <2>2, <2>3
<1>4. CASE n # 1
  <2>1. PICK d : d = [Front(h) EXCEPT ![1] = Last(h)]
    OBVIOUS
  <2>2. /\ Front(h) \in Seq(Entries) /\ Len(Front(h)) = n - 1
        /\ \A i \in 1..(n - 1) : Front(h)[i] = h[i]
        /\ Last(h) = h[n] /\ h[n] \in Entries
    BY <1>1, <1>2, <1>4 DEF Front, Last
  <2>3. /\ d \in Seq(Entries) /\ Len(d) = n - 1 /\ 1 \in 1..Len(d)
        /\ d[1] = h[n] /\ \A i \in 2..(n - 1) : d[i] = h[i]
    <3> HIDE DEF Front, Last
    <3> QED BY <1>2, <1>4, <2>1, <2>2
  <2>4. \A i : i \in 1..(n - 1) <=> i = 1 \/ i \in 2..(n - 1)
    BY <1>2, <1>4
  <2>5. Numbered(d)
    <3>1. \A i, j \in 1..n : h[i].seq = h[j].seq => i = j
      BY <1>2 DEF Numbered
    <3>2. ASSUME NEW i \in 1..(n - 1)
          PROVE  \E j \in 1..n : d[i] = h[j] /\ IF i = 1 THEN j = n ELSE j = i
      <4>1. i \in 1..n /\ n \in 1..n
        BY <1>2
      <4> QED BY <2>3, <2>4, <4>1
    <3>3. ASSUME NEW i \in 1..(n - 1), NEW j \in 1..(n - 1), d[i].seq = d[j].seq PROVE i = j
      <4>1. PICK k \in 1..n : d[i] = h[k] /\ IF i = 1 THEN k = n ELSE k = i
        BY <3>2
      <4>2. PICK m \in 1..n : d[j] = h[m] /\ IF j = 1 THEN m = n ELSE m = j
        BY <3>2
      <4>3. k = m
        BY <3>1, <3>3, <4>1, <4>2
      <4>4. i < n /\ j < n
        BY <1>2
      <4> QED BY <4>1, <4>2, <4>3, <4>4
    <3> QED BY <2>3, <3>3 DEF Numbered
  <2>6. Sinking(d, 1)
    <3> SUFFICES ASSUME NEW i \in 2..Len(d), i \div 2 # 1 PROVE ~Above(d[i], d[i \div 2])
      BY DEF Sinking
    <3>1. i \in 2..n /\ i \div 2 \in 2..(n - 1) /\ i \in 2..(n - 1)
      BY <1>2, <2>3, Halves
    <3>2. ~Above(h[i], h[i \div 2])
      BY <1>1, <3>1 DEF Ordered
    <3> QED BY <2>3, <3>1, <3>2
  <2>7. PICK g : g = Popped(h)
    OBVIOUS
  <2>8. Rearranges(g, d) /\ Ordered(g)
    BY <1>1, <1>4, <2>1, <2>3, <2>5, <2>6, <2>7, SinkDownOrders DEF Popped
  <2>9. \A x : Has(d, x) <=> Has(h, x) /\ x # h[1]
    <3>1. ASSUME NEW x, Has(d, x) PROVE Has(h, x) /\ x # h[1]
      <4>1. PICK i \in 1..(n - 1) : d[i] = x
        BY <2>3, <3>1 DEF Has
      <4>2. PICK j \in 2..n : h[j] = x
        BY <1>2, <1>4, <2>3, <2>4, <4>1
      <4> QED BY <1>1, <1>2, <4>2 DEF Has
    <3>2. ASSUME NEW x, Has(h, x), x # h[1] PROVE Has(d, x)
      <4>1. PICK j \in 1..n : h[j] = x
        BY <1>1, <3>2 DEF Has
      <4>2. j = n \/ j \in 2..(n - 1)
        BY <1>2, <3>2, <4>1
      <4> QED BY <2>3, <2>4, <4>1, <4>2 DEF Has
    <3> QED BY <3>1, <3>2
  <2> QED BY <1>1, <2>3, <2>7, <2>8, <2>9 DEF Rearranges
<1> QED BY <1>3, <1>4

\* A restart from a rewritten file: the entries come back with new numbers.
LEMMA EnqueuedIs ==
    ASSUME NEW listed \in Seq(Entries)
    PROVE  LET g == Enqueued(listed) IN
           /\ Numbered(g) /\ Ordered(g) /\ Len(g) = Len(listed)
           /\ \A x : Has(g, x) <=> \E i \in 1..Len(listed) : x = [listed[i] EXCEPT !.seq = i - 1]
<1> DEFINE n == Len(listed)
           loop == [kind |-> "enqueue", listed |-> listed]
           Renewed(i) == [listed[i] EXCEPT !.seq = i - 1]
           Holds(g, m) ==
             /\ Numbered(g) /\ Ordered(g) /\ Len(g) = m
             /\ \A x : Has(g, x) <=> \E i \in 1..m : x = Renewed(i)
<1>1. n \in Nat
  OBVIOUS
<1>2. PICK f : Runs(f, loop, <<>>, n) /\ Enqueued(listed) = f[n]
  BY <1>1, EnqueuedRuns
<1>3. ASSUME NEW i \in 1..n PROVE Renewed(i) \in Entries /\ Renewed(i).seq = i - 1
  <2>1. listed[i] \in Entries /\ i - 1 \in Nat
    OBVIOUS
  <2> QED BY <2>1 DEF Entries
<1> HIDE DEF Renewed
<1> DEFINE S == {m \in 0..n : Holds(f[m], m)}
<1>4. 0 \in S
  <2>1. f[0] = <<>>
    BY <1>2 DEF Runs
  <2>2. Numbered(<<>>) /\ Ordered(<<>>) /\ Len(<<>>) = 0 /\ \A x : ~Has(<<>>, x)
    BY DEF Numbered, Ordered, Has
  <2>3. 1..0 = {} /\ 0 \in 0..n
    BY <1>1
  <2> QED BY <2>1, <2>2, <2>3
<1>5. ASSUME NEW m \in 0..n, m # 0, (m - 1) \in S PROVE m \in S
  <2>1. PICK g, item, k : g = f[m - 1] /\ item = Renewed(m) /\ k = Pushed(g, item)
    OBVIOUS
  <2>2. m \in 1..n /\ m \in Nat /\ m - 1 \in 0..n
    BY <1>5
  <2>3. f[m] = k
    <3>1. f[m] = Round(loop, f[m - 1], m)
      BY <1>2, <2>2 DEF Runs
    <3> QED BY <2>1, <3>1, Zenon DEF Round, Renewed
  <2>4. Holds(g, m - 1)
    BY <1>5, <2>1
  <2>5. item \in Entries /\ item.seq = m - 1
    BY <1>3, <2>1, <2>2
  <2>6. \A i \in 1..Len(g) : g[i].seq # item.seq
    <3> SUFFICES ASSUME NEW i \in 1..Len(g) PROVE g[i].seq # item.seq
      OBVIOUS
    <3>1. Has(g, g[i])
      BY DEF Has
    <3>2. PICK j \in 1..(m - 1) : g[i] = Renewed(j)
      BY <2>4, <3>1
    <3>3. j \in 1..n /\ j - 1 # m - 1
      BY <2>2
    <3> QED BY <1>3, <2>5, <3>2, <3>3
  <2>7. /\ Numbered(k) /\ Ordered(k) /\ Len(k) = Len(g) + 1
        /\ \A x : Has(k, x) <=> Has(g, x) \/ x = item
    BY <2>1, <2>4, <2>5, <2>6, PushedIs
  <2>8. \A i : i \in 1..m <=> i = m \/ i \in 1..(m - 1)
    BY <2>2
  <2>9. Len(k) = m
    BY <2>2, <2>4, <2>7
  <2>10. \A x : Has(k, x) <=> \E i \in 1..m : x = Renewed(i)
    BY <2>1, <2>4, <2>7, <2>8
  <2> QED BY <2>3, <2>7, <2>9, <2>10
<1>6. n \in S
  <2> HIDE DEF S
  <2> QED BY <1>1, <1>4, <1>5, UpTo
<1>7. Holds(f[n], n)
  BY <1>6
<1> QED BY <1>2, <1>7 DEF Renewed

\* What is served comes out in the order of compare().
LEMMA ServedIs ==
    ASSUME NEW h, Numbered(h), Ordered(h)
    PROVE  /\ Served(h) \in Seq(Entries) /\ Len(Served(h)) = Len(h)
           /\ \A i, j \in 1..Len(Served(h)) : i < j => Above(Served(h)[i], Served(h)[j])
           /\ \A x : Has(Served(h), x) <=> Has(h, x)
<1> DEFINE n == Len(h)
           loop == [kind |-> "serve"]
           Left(g, out, m) ==
             /\ Numbered(g) /\ Ordered(g) /\ Len(g) = n - m
             /\ out \in Seq(Entries) /\ Len(out) = m
             /\ \A i, j \in 1..m : i < j => Above(out[i], out[j])
             /\ \A i \in 1..m : \A x : Has(g, x) => Above(out[i], x)
             /\ \A x : Has(h, x) <=> Has(g, x) \/ Has(out, x)
<1>1. n \in Nat /\ h \in Seq(Entries)
  BY DEF Numbered
<1>2. PICK f : Runs(f, loop, [heap |-> h, out |-> <<>>], n) /\ Served(h) = f[n].out
  BY <1>1, ServedRuns
<1> DEFINE S == {m \in 0..n : Left(f[m].heap, f[m].out, m)}
<1>3. 0 \in S
  <2>1. f[0].heap = h /\ f[0].out = <<>>
    BY <1>2 DEF Runs
  <2>2. <<>> \in Seq(Entries) /\ Len(<<>>) = 0 /\ \A x : ~Has(<<>>, x)
    BY DEF Has
  <2>3. 1..0 = {} /\ 0 \in 0..n /\ n - 0 = n
    BY <1>1
  <2> QED BY <2>1, <2>2, <2>3
<1>4. ASSUME NEW m \in 0..n, m # 0, (m - 1) \in S PROVE m \in S
  <2>1. PICK g, out, top : g = f[m - 1].heap /\ out = f[m - 1].out /\ top = g[1]
    OBVIOUS
  <2>2. m \in 1..n /\ m \in Nat
    BY <1>4
  <2>3. PICK k, outs : k = Popped(g) /\ outs = Append(out, top)
    OBVIOUS
  <2>4. f[m].heap = k /\ f[m].out = outs
    <3>1. f[m] = Round(loop, f[m - 1], m)
      BY <1>2, <2>2 DEF Runs
    <3>2. f[m] = [heap |-> Popped(g), out |-> Append(out, top)]
      BY <2>1, <3>1, Zenon DEF Round
    <3> QED BY <2>3, <3>2
  <2>5. Left(g, out, m - 1)
    BY <1>4, <2>1
  <2>6. Len(g) > 0 /\ Len(g) \in Nat /\ top \in Entries /\ Has(g, top)
    <3>1. Len(g) > 0 /\ Len(g) \in Nat /\ 1 \in 1..Len(g)
      BY <1>1, <2>2, <2>5
    <3> QED BY <2>1, <2>5, <3>1 DEF Numbered, Has
  <2>7. /\ Numbered(k) /\ Ordered(k) /\ Len(k) = Len(g) - 1
        /\ \A x : Has(k, x) <=> Has(g, x) /\ x # top
    <3>1. Numbered(g) /\ Ordered(g) /\ Len(g) > 0
      BY <2>5, <2>6
    <3> QED BY <2>1, <2>3, <3>1, PoppedIs
  <2>8. Len(k) = n - m
    BY <1>1, <2>2, <2>5, <2>7
  <2>9. \A x : Has(k, x) => Above(top, x)
    <3> SUFFICES ASSUME NEW x, Has(k, x) PROVE Above(top, x)
      OBVIOUS
    <3>1. Has(g, x) /\ x # top
      BY <2>7
    <3>2. PICK i \in 1..Len(g) : g[i] = x
      BY <3>1 DEF Has
    <3>3. i \in 2..Len(g)
      BY <2>1, <2>6, <3>1, <3>2
    <3> QED BY <2>1, <2>5, <3>2, <3>3, RootIsFirst
  <2>10. /\ outs \in Seq(Entries) /\ Len(outs) = m /\ outs[m] = top
         /\ \A i \in 1..(m - 1) : outs[i] = out[i]
    BY <2>2, <2>3, <2>5, <2>6
  <2>11. \A i \in 1..m : i = m \/ i \in 1..(m - 1)
    BY <2>2
  <2>12. \A i, j \in 1..m : i < j => Above(outs[i], outs[j])
    <3> SUFFICES ASSUME NEW i \in 1..m, NEW j \in 1..m, i < j PROVE Above(outs[i], outs[j])
      OBVIOUS
    <3>1. i \in 1..(m - 1)
      BY <2>2
    <3>2. CASE j = m
      BY <2>5, <2>6, <2>10, <3>1, <3>2
    <3>3. CASE j # m
      <4>1. j \in 1..(m - 1)
        BY <2>11, <3>3
      <4> QED BY <2>5, <2>10, <3>1, <4>1
    <3> QED BY <3>2, <3>3
  <2>13. \A i \in 1..m : \A x : Has(k, x) => Above(outs[i], x)
    BY <2>5, <2>7, <2>9, <2>10, <2>11
  <2>14. \A x : Has(outs, x) <=> Has(out, x) \/ x = top
    <3>1. Len(out) = m - 1 /\ \A i : i \in 1..m <=> i = m \/ i \in 1..(m - 1)
      BY <2>2, <2>5
    <3> QED BY <2>10, <3>1 DEF Has
  <2>15. \A x : Has(h, x) <=> Has(k, x) \/ Has(outs, x)
    BY <2>5, <2>6, <2>7, <2>14
  <2> QED BY <2>4, <2>7, <2>8, <2>10, <2>12, <2>13, <2>15
<1>5. n \in S
  <2> HIDE DEF S
  <2> QED BY <1>1, <1>3, <1>4, UpTo
<1>6. Left(f[n].heap, f[n].out, n)
  BY <1>5
<1>7. \A x : ~Has(f[n].heap, x)
  <2>1. Len(f[n].heap) = 0
    BY <1>1, <1>6
  <2> QED BY <2>1 DEF Has
<1> QED BY <1>2, <1>6, <1>7

(***************************************************************************)
(* The queue and the queue of a replay.  While the replay is faithful,     *)
(* each entry of either heap is one of those that wait, and they are       *)
(* numbered in the order of their arrival unless the file was rewritten.   *)
(* When it is not, the two heaps still match: entry for entry, in some     *)
(* order, they have the same priorities (MatchedHeaps), and the first of   *)
(* one has the priority of the first of the other.                         *)
(***************************************************************************)
Items == [value : Nat, priority : Int]

\* e is the entry that arrived n-th of those that wait.
Waits(w, e, n) ==
    /\ n \in 1..Len(w)
    /\ w[n].value = e.value /\ w[n].priority = e.priority

\* A value names one of those that wait.
Apart(w) == \A m, n \in 1..Len(w) : w[m].value = w[n].value => m = n

\* An ordered heap, in which a value names one entry, and all are numbered below s.
HeapIs(h, s) ==
    /\ Numbered(h) /\ Ordered(h) /\ s \in Nat
    /\ \A e, f : Has(h, e) /\ Has(h, f) /\ e.value = f.value => e = f
    /\ \A e : Has(h, e) => e.seq < s

\* The heap has those that wait, and no others.
HeapWaits(h, w) ==
    /\ \A e : Has(h, e) => \E n : Waits(w, e, n)
    /\ \A n \in 1..Len(w) : \E e : Has(h, e) /\ Waits(w, e, n)

\* An entry of the heap that arrived before another is numbered before it.
InArrival(h, w) ==
    \A e, f, m, n : Has(h, e) /\ Waits(w, e, m) /\ Has(h, f) /\ Waits(w, f, n) /\ e.seq < f.seq
                    => m < n

\* b takes the entries of h to those of k, one to one.
Matching(b, h, k) ==
    /\ \A e : Has(h, e) => Has(k, b[e]) /\ b[e].priority = e.priority
    /\ \A e, f : Has(h, e) /\ Has(h, f) /\ b[e] = b[f] => e = f
    /\ \A f : Has(k, f) => \E e : Has(h, e) /\ b[e] = f

MatchedHeaps(h, k) == Len(h) = Len(k) /\ \E b : Matching(b, h, k)

QueueInv ==
    /\ HeapIs(heap, nextSeq) /\ HeapIs(kept, keptSeq)
    /\ waiting \in Seq(Items) /\ Apart(waiting)
    /\ reordered \in BOOLEAN /\ rewritten \in BOOLEAN /\ strayed \in BOOLEAN
    /\ HeapWaits(heap, waiting)
    /\ ~strayed => HeapWaits(kept, waiting)
    /\ ~rewritten => ~strayed
    /\ ~reordered \/ ~rewritten => InArrival(heap, waiting)
    /\ ~rewritten => InArrival(kept, waiting)
    /\ MatchedHeaps(heap, kept)

\* Nothing waits, in any order.
LEMMA EmptyQueue ==
    ASSUME NEW s \in Nat
    PROVE  /\ HeapIs(<<>>, s) /\ Apart(<<>>) /\ HeapWaits(<<>>, <<>>)
           /\ \A w : InArrival(<<>>, w)
           /\ MatchedHeaps(<<>>, <<>>)
<1>1. \A x : ~Has(<<>>, x)
  BY DEF Has
<1>2. Numbered(<<>>) /\ Ordered(<<>>)
  BY DEF Numbered, Ordered
<1>3. Apart(<<>>) /\ HeapWaits(<<>>, <<>>)
  BY <1>1 DEF Apart, HeapWaits
<1>4. Matching(<<>>, <<>>, <<>>)
  BY <1>1 DEF Matching
<1> QED BY <1>1, <1>2, <1>3, <1>4 DEF HeapIs, InArrival, MatchedHeaps

LEMMA InitQueue == InitQueued => QueueInv
<1> SUFFICES ASSUME InitQueued PROVE QueueInv
  OBVIOUS
<1>1. /\ heap = <<>> /\ nextSeq = 0 /\ kept = <<>> /\ keptSeq = 0 /\ waiting = <<>>
      /\ reordered = FALSE /\ rewritten = FALSE /\ strayed = FALSE
  BY DEF InitQueued
<1>2. waiting \in Seq(Items)
  BY <1>1
<1> QED BY <1>1, <1>2, EmptyQueue DEF QueueInv

LEMMA HasIs ==
    ASSUME NEW h, Numbered(h), NEW e, Has(h, e)
    PROVE  e \in Entries
BY DEF Numbered, Has

\* The values of a heap are no more than its entries.
LEMMA ValuesIs ==
    ASSUME NEW h, Numbered(h), NEW values, values = Values(h)
    PROVE  /\ Len(h) \in Nat /\ IsFiniteSet(values)
           /\ Cardinality(values) \in Nat /\ Cardinality(values) <= Len(h)
           /\ \A e : Has(h, e) => e.value \in values
<1>1. Len(h) \in Nat /\ DOMAIN h = 1..Len(h)
  BY DEF Numbered
<1> DEFINE f == [i \in 1..Len(h) |-> h[i].value]
<1>2. f \in Surjection(1..Len(h), values)
  BY <1>1 DEF Surjection, Values
<1>3. IsFiniteSet(1..Len(h)) /\ Cardinality(1..Len(h)) = Len(h)
  <2>1. 1 \in Int /\ Len(h) \in Int
    BY <1>1
  <2>2. /\ IsFiniteSet(1..Len(h))
        /\ Cardinality(1..Len(h)) = IF 1 > Len(h) THEN 0 ELSE Len(h) - 1 + 1
    BY <2>1, FS_Interval
  <2> QED BY <1>1, <2>2
<1> HIDE DEF f
<1>4. IsFiniteSet(values) /\ Cardinality(values) <= Len(h)
  BY <1>2, <1>3, FS_Surjection
<1>5. Cardinality(values) \in Nat
  BY <1>4, FS_CardinalityType
<1>6. \A e : Has(h, e) => e.value \in values
  BY <1>1 DEF Has, Values
<1> QED BY <1>1, <1>4, <1>5, <1>6

\* As long as there is room there is a name that no entry has.
LEMMA UnnamedIs ==
    ASSUME Numbered(heap), Numbered(kept), Len(heap) < MaxQueued, Len(kept) = Len(heap)
    PROVE  /\ Unnamed \in Nat
           /\ \A e : Has(heap, e) => e.value # Unnamed
           /\ \A e : Has(kept, e) => e.value # Unnamed
<1>1. PICK A, B : A = Values(heap) /\ B = Values(kept)
  OBVIOUS
<1>2. MaxQueued \in Nat
  BY PriorityAssumption
<1>3. /\ Len(heap) \in Nat /\ IsFiniteSet(A) /\ Cardinality(A) \in Nat /\ Cardinality(A) <= Len(heap)
      /\ \A e : Has(heap, e) => e.value \in A
  BY <1>1, ValuesIs
<1>4. /\ IsFiniteSet(B) /\ Cardinality(B) \in Nat /\ Cardinality(B) <= Len(heap)
      /\ \A e : Has(kept, e) => e.value \in B
  BY <1>1, ValuesIs
<1>5. IsFiniteSet(A \cup B) /\ Cardinality(A \cup B) \in Nat /\ Cardinality(A \cup B) < 2 * MaxQueued
  <2>1. /\ IsFiniteSet(A \cup B) /\ IsFiniteSet(A \cap B)
        /\ Cardinality(A \cup B) = Cardinality(A) + Cardinality(B) - Cardinality(A \cap B)
    BY <1>3, <1>4, FS_Union, FS_Intersection
  <2>2. Cardinality(A \cap B) \in Nat
    BY <2>1, FS_CardinalityType
  <2> QED BY <1>2, <1>3, <1>4, <2>1, <2>2, FS_CardinalityType
<1>6. PICK values, m : values = A \cup B /\ m = 2 * MaxQueued
  OBVIOUS
<1>7. m \in Nat
  BY <1>2, <1>6
<1> DEFINE T == {v \in 1..m : v \notin values}
<1>8. T # {}
  <2> SUFFICES ASSUME T = {} PROVE FALSE
    OBVIOUS
  <2>1. 1..m \in SUBSET values
    OBVIOUS
  <2>2. Cardinality(1..m) = m
    BY <1>7, FS_Interval
  <2>3. Cardinality(1..m) <= Cardinality(values)
    BY <1>5, <1>6, <2>1, FS_Subset
  <2> QED BY <1>5, <1>6, <1>7, <2>2, <2>3
<1>9. PICK v \in T : \A w \in T : v <= w
  <2>1. T \subseteq Nat
    OBVIOUS
  <2> HIDE DEF T
  <2> QED BY <1>8, <2>1, SmallestNumber
<1>10. v \in 1..m /\ v \notin values /\ 1..(v - 1) \subseteq values
  BY <1>7, <1>9
<1>11. Unnamed \in 1..m /\ Unnamed \notin values
  BY <1>1, <1>6, <1>10 DEF Unnamed
<1> QED BY <1>3, <1>4, <1>6, <1>7, <1>11

\* A new entry, under a name that none has, in a heap and among those that wait.
Arrives(h, s, w, item, x, g, w2) ==
    /\ HeapIs(h, s) /\ w \in Seq(Items)
    /\ item \in Entries /\ item.seq = s
    /\ x = [value |-> item.value, priority |-> item.priority]
    /\ \A e : Has(h, e) => e.value # item.value
    /\ \A n \in 1..Len(w) : w[n].value # item.value
    /\ g = Pushed(h, item) /\ w2 = Append(w, x)

LEMMA PushedKeeps ==
    ASSUME NEW h, NEW s, NEW w, NEW item, NEW x, NEW g, NEW w2,
           Arrives(h, s, w, item, x, g, w2)
    PROVE  /\ HeapIs(g, s + 1) /\ Len(g) = Len(h) + 1
           /\ \A e : Has(g, e) <=> Has(h, e) \/ e = item
           /\ w2 \in Seq(Items) /\ (Apart(w) => Apart(w2))
           /\ HeapWaits(h, w) => HeapWaits(g, w2)
           /\ InArrival(h, w) => InArrival(g, w2)
<1> PICK v, p : v = item.value /\ p = item.priority
  OBVIOUS
<1>0. /\ HeapIs(h, s) /\ w \in Seq(Items) /\ v \in Nat /\ p \in Int
      /\ item \in Entries /\ item.seq = s /\ item.value = v /\ item.priority = p
      /\ x = [value |-> v, priority |-> p]
      /\ \A e : Has(h, e) => e.value # v
      /\ \A n \in 1..Len(w) : w[n].value # v
      /\ g = Pushed(h, item) /\ w2 = Append(w, x)
  BY DEF Arrives, Entries
<1>1. /\ Numbered(h) /\ Ordered(h) /\ s \in Nat /\ Len(w) \in Nat
      /\ item \in Entries /\ x \in Items
      /\ item.value = v /\ item.priority = p /\ item.seq = s /\ x.value = v /\ x.priority = p
  BY <1>0 DEF HeapIs, Entries, Items
<1>2. \A e : Has(h, e) => e \in Entries /\ e.seq < s
  BY <1>0, <1>1, HasIs DEF HeapIs
<1>3. \A i \in 1..Len(h) : h[i].seq # item.seq
  BY <1>0, <1>1, <1>2 DEF Has, Entries
<1>4. Numbered(g) /\ Ordered(g) /\ Len(g) = Len(h) + 1 /\ \A e : Has(g, e) <=> Has(h, e) \/ e = item
  BY <1>0, <1>1, <1>3, PushedIs
<1>5. PICK last : last = Len(w) + 1
  OBVIOUS
<1>6. /\ w2 \in Seq(Items) /\ Len(w2) = last /\ w2[last] = x
      /\ \A n \in 1..Len(w) : w2[n] = w[n]
      /\ \A n : n \in 1..last <=> n = last \/ n \in 1..Len(w)
      /\ \A n \in 1..Len(w) : n < last
  BY <1>0, <1>1, <1>5
<1>7. \A e, n : Waits(w2, e, n) <=> Waits(w, e, n) \/ (n = last /\ e.value = v /\ e.priority = p)
  BY <1>0, <1>1, <1>6 DEF Waits
<1>8. \A e, n : Waits(w, e, n) => n \in 1..Len(w) /\ e.value # v
  BY <1>0 DEF Waits
<1>9. HeapIs(g, s + 1)
  <2>1. \A e : Has(g, e) => e.seq < s + 1
    BY <1>0, <1>1, <1>2, <1>4 DEF Entries
  <2>2. \A e, f : Has(g, e) /\ Has(g, f) /\ e.value = f.value => e = f
    BY <1>0, <1>1, <1>4 DEF HeapIs
  <2>3. s + 1 \in Nat
    BY <1>0, <1>1
  <2> QED BY <1>0, <1>4, <2>1, <2>2, <2>3 DEF HeapIs
<1>10. ASSUME Apart(w) PROVE Apart(w2)
  <2> SUFFICES ASSUME NEW m \in 1..last, NEW n \in 1..last, w2[m].value = w2[n].value
               PROVE  m = n
    BY <1>0, <1>6 DEF Apart
  <2>1. CASE m = last \/ n = last
    BY <1>0, <1>1, <1>6, <2>1
  <2>2. CASE m \in 1..Len(w) /\ n \in 1..Len(w)
    <3>1. w[m].value = w[n].value
      BY <1>0, <1>6, <2>2
    <3> QED BY <1>0, <1>10, <2>2, <3>1 DEF Apart
  <2> QED BY <1>0, <1>6, <2>1, <2>2
<1>11. ASSUME HeapWaits(h, w) PROVE HeapWaits(g, w2)
  <2>1. \A e : Has(g, e) => \E n : Waits(w2, e, n)
    BY <1>0, <1>1, <1>4, <1>7, <1>11 DEF HeapWaits
  <2>2. \A n \in 1..Len(w2) : \E e : Has(g, e) /\ Waits(w2, e, n)
    BY <1>0, <1>1, <1>4, <1>6, <1>7, <1>11 DEF HeapWaits
  <2> QED BY <1>0, <2>1, <2>2 DEF HeapWaits
<1>12. ASSUME InArrival(h, w), NEW e, NEW f, NEW m, NEW n,
              Has(g, e), Waits(w2, e, m), Has(g, f), Waits(w2, f, n), e.seq < f.seq
       PROVE  m < n
  <2>1. f # item => Has(h, f) /\ Waits(w, f, n) /\ n \in 1..Len(w)
    BY <1>0, <1>4, <1>7, <1>8, <1>12
  <2>2. e # item => Has(h, e) /\ Waits(w, e, m) /\ m \in 1..Len(w)
    BY <1>0, <1>4, <1>7, <1>8, <1>12
  <2>3. e # item
    BY <1>0, <1>1, <1>2, <1>12, <2>1 DEF Entries
  <2>4. CASE f = item
    BY <1>0, <1>1, <1>6, <1>7, <1>8, <1>12, <2>2, <2>3, <2>4
  <2>5. CASE f # item
    BY <1>0, <1>12, <2>1, <2>2, <2>3, <2>5 DEF InArrival
  <2> QED BY <1>0, <2>4, <2>5
<1>13. InArrival(h, w) => InArrival(g, w2)
  BY <1>0, <1>12 DEF InArrival
<1> QED BY <1>0, <1>4, <1>6, <1>9, <1>10, <1>11, <1>13

\* Two heaps that match, with one more entry of the same priority.
LEMMA PushedMatch ==
    ASSUME NEW h, NEW k, MatchedHeaps(h, k), Numbered(h), NEW g, NEW l,
           Len(h) \in Nat, Len(g) = Len(h) + 1, Len(l) = Len(k) + 1,
           NEW i \in Entries, NEW j, i.priority = j.priority, ~Has(h, i), ~Has(k, j),
           \A e : Has(g, e) <=> Has(h, e) \/ e = i,
           \A e : Has(l, e) <=> Has(k, e) \/ e = j
    PROVE  MatchedHeaps(g, l)
<1>1. PICK b : Matching(b, h, k)
  BY DEF MatchedHeaps
<1>2. PICK c : c = [e \in Entries |-> IF e = i THEN j ELSE b[e]]
  OBVIOUS
<1>3. c[i] = j /\ \A e : Has(h, e) => c[e] = b[e] /\ e # i
  BY <1>2, HasIs
<1>4. \A e : Has(g, e) => Has(l, c[e]) /\ c[e].priority = e.priority
  BY <1>1, <1>3 DEF Matching
<1>5. \A e, f : Has(g, e) /\ Has(g, f) /\ c[e] = c[f] => e = f
  BY <1>1, <1>3 DEF Matching
<1>6. \A f : Has(l, f) => \E e : Has(g, e) /\ c[e] = f
  BY <1>1, <1>3 DEF Matching
<1>7. Matching(c, g, l)
  BY <1>4, <1>5, <1>6 DEF Matching
<1> QED BY <1>7 DEF MatchedHeaps

\* The first entry of a heap, and the heap without it.
LEMMA TopIs ==
    ASSUME NEW h, Numbered(h), Ordered(h), Len(h) # 0
    PROVE  /\ Len(h) \in Nat /\ Len(h) > 0 /\ Has(h, h[1]) /\ h[1] \in Entries
           /\ \A e : Has(h, e) => e \in Entries /\ (e = h[1] \/ Above(h[1], e)) /\ e.priority <= h[1].priority
<1>1. h \in Seq(Entries) /\ Len(h) \in Nat /\ Len(h) > 0 /\ 1 \in 1..Len(h)
  BY DEF Numbered
<1>2. Has(h, h[1]) /\ h[1] \in Entries
  BY <1>1 DEF Has
<1>3. ASSUME NEW e, Has(h, e) PROVE e \in Entries /\ (e = h[1] \/ Above(h[1], e)) /\ e.priority <= h[1].priority
  <2>1. PICK i \in 1..Len(h) : h[i] = e
    BY <1>3 DEF Has
  <2>2. e \in Entries
    BY <1>3, HasIs
  <2>3. e = h[1] \/ Above(h[1], e)
    <3>1. i = 1 \/ i \in 2..Len(h)
      BY <1>1
    <3> QED BY <2>1, <3>1, RootIsFirst
  <2> QED BY <1>2, <2>2, <2>3 DEF Above, Entries
<1> QED BY <1>1, <1>2, <1>3

LEMMA PoppedMatch ==
    ASSUME NEW h, NEW k, MatchedHeaps(h, k), Numbered(h), Ordered(h), Numbered(k), Ordered(k), Len(h) # 0
    PROVE  h[1].priority = k[1].priority /\ MatchedHeaps(Popped(h), Popped(k))
<1>1. PICK b : Matching(b, h, k)
  BY DEF MatchedHeaps
<1>2. Len(k) = Len(h) /\ Len(k) # 0
  BY DEF MatchedHeaps
<1>3. PICK t, u : t = h[1] /\ u = k[1]
  OBVIOUS
<1>4. /\ Len(h) \in Nat /\ Len(h) > 0 /\ Has(h, t) /\ t \in Entries
      /\ \A e : Has(h, e) => e \in Entries /\ e.priority <= t.priority
  BY <1>3, TopIs
<1>5. Has(k, u) /\ u \in Entries /\ \A e : Has(k, e) => e \in Entries /\ e.priority <= u.priority
  BY <1>2, <1>3, TopIs
<1>6. t.priority = u.priority
  <2>1. PICK e : Has(h, e) /\ b[e] = u
    BY <1>1, <1>5 DEF Matching
  <2>2. u.priority <= t.priority
    BY <1>1, <1>4, <2>1 DEF Matching
  <2>3. t.priority <= u.priority
    BY <1>1, <1>4, <1>5 DEF Matching
  <2> QED BY <1>4, <1>5, <2>2, <2>3 DEF Entries
<1>7. PICK g, l : g = Popped(h) /\ l = Popped(k)
  OBVIOUS
<1>8. Len(g) = Len(h) - 1 /\ \A e : Has(g, e) <=> Has(h, e) /\ e # t
  BY <1>3, <1>4, <1>7, PoppedIs
<1>9. Len(l) = Len(k) - 1 /\ \A e : Has(l, e) <=> Has(k, e) /\ e # u
  BY <1>2, <1>3, <1>4, <1>7, PoppedIs
<1>10. PICK c : c = [e \in Entries |-> IF b[e] = u THEN b[t] ELSE b[e]]
  OBVIOUS
<1>11. \A e : Has(h, e) => c[e] = IF b[e] = u THEN b[t] ELSE b[e]
  BY <1>4, <1>10
<1>12. /\ \A e : Has(h, e) => Has(k, b[e]) /\ b[e].priority = e.priority
       /\ \A e, f : Has(h, e) /\ Has(h, f) /\ b[e] = b[f] => e = f
       /\ \A f : Has(k, f) => \E e : Has(h, e) /\ b[e] = f
  BY <1>1 DEF Matching
<1>13. ASSUME NEW e, Has(g, e) PROVE Has(l, c[e]) /\ c[e].priority = e.priority
  BY <1>4, <1>6, <1>8, <1>9, <1>11, <1>12, <1>13
<1>14. ASSUME NEW e, NEW f, Has(g, e), Has(g, f), c[e] = c[f] PROVE e = f
  BY <1>4, <1>8, <1>11, <1>12, <1>14
<1>15. ASSUME NEW f, Has(l, f) PROVE \E e : Has(g, e) /\ c[e] = f
  <2>1. Has(k, f) /\ f # u
    BY <1>9, <1>15
  <2>2. PICK e : Has(h, e) /\ b[e] = f
    BY <1>12, <2>1
  <2>3. CASE e = t
    <3>1. PICK d : Has(h, d) /\ b[d] = u
      BY <1>5, <1>12
    <3>2. d # t /\ c[d] = f
      BY <1>11, <2>1, <2>2, <2>3, <3>1
    <3> QED BY <1>8, <3>1, <3>2
  <2>4. CASE e # t
    BY <1>8, <1>11, <2>1, <2>2, <2>4
  <2> QED BY <2>3, <2>4
<1>16. Matching(c, g, l)
  BY <1>13, <1>14, <1>15 DEF Matching
<1>17. MatchedHeaps(g, l)
  BY <1>2, <1>8, <1>9, <1>16 DEF MatchedHeaps
<1> QED BY <1>3, <1>6, <1>7, <1>17

LEMMA MatchesItself == ASSUME NEW h, Numbered(h) PROVE MatchedHeaps(h, h)
<1>1. PICK b : b = [e \in Entries |-> e]
  OBVIOUS
<1>2. \A e : Has(h, e) => b[e] = e
  BY <1>1, HasIs
<1>3. Matching(b, h, h)
  BY <1>2 DEF Matching
<1> QED BY <1>3 DEF MatchedHeaps

LEMMA EnqueueKeeps ==
    ASSUME QueueInv, NEW priority \in Priorities, Enqueue(priority)
    PROVE  QueueInv'
<1>1. PICK v : v = Unnamed
  OBVIOUS
<1>2. PICK i, j, x : /\ i = [value |-> v, priority |-> priority, seq |-> nextSeq]
                     /\ j = [value |-> v, priority |-> priority, seq |-> keptSeq]
                     /\ x = [value |-> v, priority |-> priority]
  OBVIOUS
<1>3. /\ Len(heap) < MaxQueued /\ nextSeq' = nextSeq + 1 /\ keptSeq' = keptSeq + 1
      /\ heap' = Pushed(heap, i) /\ kept' = Pushed(kept, j) /\ waiting' = Append(waiting, x)
      /\ reordered' = reordered /\ rewritten' = rewritten /\ strayed' = strayed
  BY <1>1, <1>2 DEF Enqueue
<1>4. /\ HeapIs(heap, nextSeq) /\ HeapIs(kept, keptSeq) /\ waiting \in Seq(Items)
      /\ Numbered(heap) /\ Numbered(kept) /\ Len(kept) = Len(heap)
      /\ nextSeq \in Nat /\ keptSeq \in Nat
  BY DEF QueueInv, HeapIs, MatchedHeaps
<1>5. v \in Nat /\ (\A e : Has(heap, e) => e.value # v) /\ (\A e : Has(kept, e) => e.value # v)
  BY <1>1, <1>3, <1>4, UnnamedIs
<1>6. \A n \in 1..Len(waiting) : waiting[n].value # v
  BY <1>5 DEF QueueInv, HeapWaits, Waits
<1>7. priority \in Int
  BY PriorityAssumption
<1>8. /\ HeapIs(heap', nextSeq') /\ Len(heap') = Len(heap) + 1
      /\ \A e : Has(heap', e) <=> Has(heap, e) \/ e = i
      /\ waiting' \in Seq(Items) /\ (Apart(waiting) => Apart(waiting'))
      /\ HeapWaits(heap, waiting) => HeapWaits(heap', waiting')
      /\ InArrival(heap, waiting) => InArrival(heap', waiting')
  <2>1. PICK h, s, w, g, w2 : /\ h = heap /\ s = nextSeq /\ w = waiting
                              /\ g = Pushed(h, i) /\ w2 = Append(w, x)
    OBVIOUS
  <2>2. Arrives(h, s, w, i, x, g, w2)
    BY <1>2, <1>4, <1>5, <1>6, <1>7, <2>1 DEF Arrives, Entries
  <2>3. /\ HeapIs(g, s + 1) /\ Len(g) = Len(h) + 1
        /\ \A e : Has(g, e) <=> Has(h, e) \/ e = i
        /\ w2 \in Seq(Items) /\ (Apart(w) => Apart(w2))
        /\ HeapWaits(h, w) => HeapWaits(g, w2)
        /\ InArrival(h, w) => InArrival(g, w2)
    BY <2>2, PushedKeeps
  <2>4. heap' = g /\ waiting' = w2 /\ nextSeq' = s + 1
    BY <1>3, <2>1
  <2> QED BY <2>1, <2>3, <2>4
<1>9. /\ HeapIs(kept', keptSeq') /\ Len(kept') = Len(kept) + 1
      /\ \A e : Has(kept', e) <=> Has(kept, e) \/ e = j
      /\ HeapWaits(kept, waiting) => HeapWaits(kept', waiting')
      /\ InArrival(kept, waiting) => InArrival(kept', waiting')
  <2>1. PICK h, s, w, g, w2 : /\ h = kept /\ s = keptSeq /\ w = waiting
                              /\ g = Pushed(h, j) /\ w2 = Append(w, x)
    OBVIOUS
  <2>2. Arrives(h, s, w, j, x, g, w2)
    BY <1>2, <1>4, <1>5, <1>6, <1>7, <2>1 DEF Arrives, Entries
  <2>3. /\ HeapIs(g, s + 1) /\ Len(g) = Len(h) + 1
        /\ \A e : Has(g, e) <=> Has(h, e) \/ e = j
        /\ HeapWaits(h, w) => HeapWaits(g, w2)
        /\ InArrival(h, w) => InArrival(g, w2)
    BY <2>2, PushedKeeps
  <2>4. kept' = g /\ waiting' = w2 /\ keptSeq' = s + 1
    BY <1>3, <2>1
  <2> QED BY <2>1, <2>3, <2>4
<1>10. MatchedHeaps(heap', kept')
  <2>1. i \in Entries /\ i.priority = j.priority /\ ~Has(heap, i) /\ ~Has(kept, j)
    BY <1>2, <1>4, <1>5, <1>7 DEF Entries
  <2>2. MatchedHeaps(heap, kept) /\ Len(heap) \in Nat
    BY <1>4 DEF QueueInv, Numbered
  <2> QED BY <1>4, <1>8, <1>9, <2>1, <2>2, PushedMatch
<1> QED BY <1>3, <1>8, <1>9, <1>10 DEF QueueInv

LEMMA CatIs ==
    ASSUME NEW S, NEW a \in Seq(S), NEW b \in Seq(S)
    PROVE  /\ a \o b \in Seq(S) /\ Len(a \o b) = Len(a) + Len(b)
           /\ \A i \in 1..(Len(a) + Len(b)) : (a \o b)[i] = IF i <= Len(a) THEN a[i] ELSE b[i - Len(a)]
OBVIOUS

\* A sequence without one of its places: where the others go.
LEMMA RemovedIs ==
    ASSUME NEW S, NEW s \in Seq(S), NEW t \in 1..Len(s)
    PROVE  /\ RemoveAt(s, t) \in Seq(S) /\ Len(RemoveAt(s, t)) = Len(s) - 1
           /\ \A i \in 1..(Len(s) - 1) : RemoveAt(s, t)[i] = IF i < t THEN s[i] ELSE s[i + 1]
<1>1. PICK a, b : a = SubSeq(s, 1, t - 1) /\ b = SubSeq(s, t + 1, Len(s))
  OBVIOUS
<1>2. t \in Nat /\ t > 0 /\ t <= Len(s) /\ Len(s) \in Nat
  OBVIOUS
<1>3. a \in Seq(S) /\ Len(a) = t - 1 /\ \A i \in 1..(t - 1) : a[i] = s[i]
  BY <1>1, <1>2
<1>4. b \in Seq(S) /\ Len(b) = Len(s) - t /\ \A i \in 1..(Len(s) - t) : b[i] = s[t + i]
  BY <1>1, <1>2
<1>5. RemoveAt(s, t) = a \o b
  BY <1>1 DEF RemoveAt
<1>6. /\ a \o b \in Seq(S) /\ Len(a \o b) = Len(a) + Len(b)
      /\ \A i \in 1..(Len(a) + Len(b)) : (a \o b)[i] = IF i <= Len(a) THEN a[i] ELSE b[i - Len(a)]
  BY <1>3, <1>4, CatIs
<1>7. ASSUME NEW i \in 1..(Len(s) - 1) PROVE (a \o b)[i] = IF i < t THEN s[i] ELSE s[i + 1]
  <2>1. (a \o b)[i] = IF i <= t - 1 THEN a[i] ELSE b[i - (t - 1)]
    BY <1>2, <1>3, <1>4, <1>6
  <2>2. CASE i < t
    <3>1. i \in 1..(t - 1) /\ i <= t - 1
      BY <1>2, <2>2
    <3> QED BY <1>3, <2>1, <2>2, <3>1
  <2>3. CASE ~(i < t)
    <3>1. i - (t - 1) \in 1..(Len(s) - t) /\ ~(i <= t - 1) /\ t + (i - (t - 1)) = i + 1
      BY <1>2, <2>3
    <3> QED BY <1>4, <2>1, <2>3, <3>1
  <2> QED BY <2>2, <2>3
<1> QED BY <1>2, <1>3, <1>4, <1>5, <1>6, <1>7

\* The heap without its first entry, and those that wait without it.
LEMMA PoppedKeeps ==
    ASSUME NEW h, NEW s, HeapIs(h, s), Len(h) # 0, NEW w \in Seq(Items), Apart(w),
           NEW g, g = Popped(h), NEW top, top = h[1]
    PROVE  /\ HeapIs(g, s)
           /\ \A t : Waits(w, top, t) =>
                LET w2 == RemoveAt(w, t) IN
                /\ w2 \in Seq(Items) /\ Apart(w2)
                /\ HeapWaits(h, w) => HeapWaits(g, w2)
                /\ InArrival(h, w) => InArrival(g, w2)
<1>1. /\ Numbered(h) /\ Ordered(h) /\ s \in Nat /\ Len(w) \in Nat
      /\ Len(h) \in Nat /\ Len(h) > 0 /\ Has(h, top)
  BY TopIs DEF HeapIs
<1>2. Numbered(g) /\ Ordered(g) /\ \A x : Has(g, x) <=> Has(h, x) /\ x # top
  BY <1>1, PoppedIs
<1>3. HeapIs(g, s)
  BY <1>1, <1>2 DEF HeapIs
<1>4. ASSUME NEW t, Waits(w, top, t), NEW w2, w2 = RemoveAt(w, t)
      PROVE  /\ w2 \in Seq(Items) /\ Apart(w2)
             /\ HeapWaits(h, w) => HeapWaits(g, w2)
             /\ InArrival(h, w) => InArrival(g, w2)
  <2>1. t \in 1..Len(w) /\ w[t].value = top.value
    BY <1>4 DEF Waits
  <2> DEFINE Old(n) == IF n < t THEN n ELSE n + 1
  <2>2. /\ w2 \in Seq(Items) /\ Len(w2) = Len(w) - 1
        /\ \A n \in 1..Len(w2) : w2[n] = w[Old(n)]
    <3>1. \A n : w[Old(n)] = IF n < t THEN w[n] ELSE w[n + 1]
      OBVIOUS
    <3> HIDE DEF Old
    <3>2. /\ w2 \in Seq(Items) /\ Len(w2) = Len(w) - 1
          /\ \A n \in 1..(Len(w) - 1) : w2[n] = IF n < t THEN w[n] ELSE w[n + 1]
      BY <1>4, <2>1, RemovedIs
    <3> QED BY <3>1, <3>2
  <2>3. /\ \A n \in 1..Len(w2) : Old(n) \in 1..Len(w) /\ Old(n) # t
        /\ \A m, n \in 1..Len(w2) : Old(m) < Old(n) => m < n
        /\ \A m, n \in 1..Len(w2) : Old(m) = Old(n) => m = n
    <3>1. /\ t \in Nat /\ t > 0 /\ t <= Len(w) /\ Len(w2) = Len(w) - 1
          /\ Len(w) \in Nat
      BY <1>1, <2>1, <2>2
    <3>2. ASSUME NEW n \in 1..Len(w2) PROVE Old(n) \in 1..Len(w) /\ Old(n) # t
      BY <3>1
    <3>3. ASSUME NEW m \in 1..Len(w2), NEW n \in 1..Len(w2)
          PROVE  /\ Old(m) < Old(n) => m < n
                 /\ Old(m) = Old(n) => m = n
      BY <3>1
    <3> QED BY <3>2, <3>3
  <2>4. ASSUME NEW k \in 1..Len(w), k # t PROVE \E n \in 1..Len(w2) : Old(n) = k
    <3>1. CASE k < t
      <4>1. k \in 1..Len(w2) /\ Old(k) = k
        BY <1>1, <2>1, <2>2, <3>1
      <4> QED BY <4>1
    <3>2. CASE ~(k < t)
      <4>1. k - 1 \in 1..Len(w2) /\ Old(k - 1) = k
        BY <1>1, <2>1, <2>2, <2>4, <3>2
      <4> QED BY <4>1
    <3> QED BY <3>1, <3>2
  <2> HIDE DEF Old
  <2>5. \A e, n : Waits(w2, e, n) <=> n \in 1..Len(w2) /\ Waits(w, e, Old(n))
    BY <2>2, <2>3 DEF Waits
  <2>6. Apart(w2)
    <3> SUFFICES ASSUME NEW m \in 1..Len(w2), NEW n \in 1..Len(w2), w2[m].value = w2[n].value
                 PROVE  m = n
      BY DEF Apart
    <3>1. w[Old(m)].value = w[Old(n)].value
      BY <2>2
    <3>2. Old(m) = Old(n)
      BY <2>3, <3>1 DEF Apart
    <3> QED BY <2>3, <3>2
  <2>7. ASSUME HeapWaits(h, w) PROVE HeapWaits(g, w2)
    <3>1. ASSUME NEW e, Has(g, e) PROVE \E n : Waits(w2, e, n)
      <4>1. Has(h, e) /\ e # top
        BY <1>2, <3>1
      <4>2. PICK k : Waits(w, e, k)
        BY <2>7, <4>1 DEF HeapWaits
      <4>3. k \in 1..Len(w) /\ k # t
        BY <1>1, <2>1, <4>1, <4>2 DEF Waits, HeapIs
      <4>4. PICK n \in 1..Len(w2) : Old(n) = k
        BY <2>4, <4>3
      <4> QED BY <2>5, <4>2, <4>4
    <3>2. ASSUME NEW n \in 1..Len(w2) PROVE \E e : Has(g, e) /\ Waits(w2, e, n)
      <4>1. Old(n) \in 1..Len(w) /\ Old(n) # t
        BY <2>3
      <4>2. PICK e : Has(h, e) /\ Waits(w, e, Old(n))
        BY <2>7, <4>1 DEF HeapWaits
      <4>3. e # top
        BY <2>1, <4>1, <4>2 DEF Waits, Apart
      <4> QED BY <1>2, <2>5, <4>2, <4>3
    <3> QED BY <3>1, <3>2 DEF HeapWaits
  <2>8. ASSUME InArrival(h, w) PROVE InArrival(g, w2)
    <3> SUFFICES ASSUME NEW e, NEW f, NEW m, NEW n, Has(g, e), Waits(w2, e, m),
                        Has(g, f), Waits(w2, f, n), e.seq < f.seq
                 PROVE  m < n
      BY DEF InArrival
    <3>1. Has(h, e) /\ Has(h, f) /\ Waits(w, e, Old(m)) /\ Waits(w, f, Old(n))
      BY <1>2, <2>5
    <3>2. m \in 1..Len(w2) /\ n \in 1..Len(w2)
      BY <2>5
    <3>3. Old(m) < Old(n)
      BY <2>8, <3>1 DEF InArrival
    <3> QED BY <2>3, <3>2, <3>3
  <2> QED BY <2>2, <2>6, <2>7, <2>8
<1> QED BY <1>3, <1>4

\* When both heaps are in the order of arrival, the same entry is the first of both.
LEMMA SameTop ==
    ASSUME NEW h, NEW k, NEW w, Numbered(h), Ordered(h), Numbered(k), Ordered(k), Len(h) # 0, Len(k) # 0,
           w \in Seq(Items), HeapWaits(h, w), HeapWaits(k, w), InArrival(h, w), InArrival(k, w)
    PROVE  k[1].value = h[1].value
<1>1. PICK t, u : t = h[1] /\ u = k[1]
  OBVIOUS
<1>2. /\ Has(h, t) /\ t \in Entries
      /\ \A e : Has(h, e) => e \in Entries /\ (e = t \/ Above(t, e))
  BY <1>1, TopIs
<1>3. /\ Has(k, u) /\ u \in Entries
      /\ \A e : Has(k, e) => e \in Entries /\ (e = u \/ Above(u, e))
  BY <1>1, TopIs
<1>4. PICK m : Waits(w, t, m)
  BY <1>2 DEF HeapWaits
<1>5. PICK n : Waits(w, u, n)
  BY <1>3 DEF HeapWaits
<1>6. m \in 1..Len(w) /\ n \in 1..Len(w) /\ m \in Int /\ n \in Int
  BY <1>4, <1>5 DEF Waits
<1>7. PICK f : Has(h, f) /\ Waits(w, f, n)
  BY <1>6 DEF HeapWaits
<1>8. PICK e : Has(k, e) /\ Waits(w, e, m)
  BY <1>6 DEF HeapWaits
<1>9. /\ e.priority = t.priority /\ e.value = t.value
      /\ f.priority = u.priority /\ f.value = u.value
  BY <1>4, <1>5, <1>7, <1>8 DEF Waits
<1> SUFFICES ASSUME t.value # u.value PROVE FALSE
  BY <1>1
<1>10. Above(t, f) /\ Above(u, e) /\ e \in Entries /\ f \in Entries
  BY <1>2, <1>3, <1>7, <1>8, <1>9
<1>11. t.priority = u.priority /\ t.seq < f.seq /\ u.seq < e.seq
  BY <1>2, <1>3, <1>9, <1>10 DEF Above, Entries
<1>12. m < n
  BY <1>2, <1>4, <1>7, <1>11 DEF InArrival
<1>13. n < m
  BY <1>3, <1>5, <1>8, <1>11 DEF InArrival
<1> QED BY <1>6, <1>12, <1>13

\* Where an entry that waits is found.
LEMMA TurnIs ==
    ASSUME waiting \in Seq(Items), Apart(waiting), NEW e, NEW n, Waits(waiting, e, n)
    PROVE  Turn(e.value) = n
<1>1. DOMAIN waiting = 1..Len(waiting)
  OBVIOUS
<1>2. n \in DOMAIN waiting /\ waiting[n].value = e.value
  BY <1>1 DEF Waits
<1>3. \A m \in DOMAIN waiting : waiting[m].value = e.value => m = n
  BY <1>1, <1>2 DEF Apart
<1> QED BY <1>2, <1>3 DEF Turn

LEMMA DequeueKeeps ==
    ASSUME QueueInv, Dequeue PROVE QueueInv'
<1>1. PICK top, other : top = heap[1] /\ other = kept[1]
  OBVIOUS
<1>2. /\ HeapIs(heap, nextSeq) /\ HeapIs(kept, keptSeq) /\ waiting \in Seq(Items) /\ Apart(waiting)
      /\ Numbered(heap) /\ Numbered(kept) /\ Ordered(heap) /\ Ordered(kept) /\ Len(kept) = Len(heap)
      /\ MatchedHeaps(heap, kept)
  BY DEF QueueInv, HeapIs, MatchedHeaps
<1>3. Len(heap) # 0 /\ Len(kept) # 0
  BY <1>2 DEF Dequeue, Numbered
<1>4. /\ heap' = Popped(heap) /\ kept' = Popped(kept) /\ nextSeq' = nextSeq /\ keptSeq' = keptSeq
      /\ waiting' = RemoveAt(waiting, Turn(top.value))
      /\ strayed' = (strayed \/ other.value # top.value)
      /\ reordered' = reordered /\ rewritten' = rewritten
  BY <1>1 DEF Dequeue
<1>5. Has(heap, top) /\ Has(kept, other)
  BY <1>1, <1>2, <1>3, TopIs
<1>6. PICK t : Waits(waiting, top, t)
  BY <1>5 DEF QueueInv, HeapWaits
<1>7. Turn(top.value) = t
  BY <1>2, <1>6, TurnIs
<1>8. /\ HeapIs(heap', nextSeq')
      /\ waiting' \in Seq(Items) /\ Apart(waiting')
      /\ HeapWaits(heap, waiting) => HeapWaits(heap', waiting')
      /\ InArrival(heap, waiting) => InArrival(heap', waiting')
  BY <1>1, <1>2, <1>3, <1>4, <1>6, <1>7, PoppedKeeps
<1>9. HeapIs(kept', keptSeq')
  BY <1>1, <1>2, <1>3, <1>4, PoppedKeeps
<1>10. ASSUME ~strayed'
       PROVE  /\ ~strayed /\ HeapWaits(kept', waiting')
              /\ InArrival(kept, waiting) => InArrival(kept', waiting')
  <2>1. ~strayed /\ other.value = top.value
    BY <1>4, <1>10
  <2>2. PICK u : Waits(waiting, other, u)
    BY <1>5, <2>1 DEF QueueInv, HeapWaits
  <2>3. u = t
    BY <1>2, <1>6, <2>1, <2>2 DEF Waits, Apart
  <2>4. /\ HeapWaits(kept, waiting) => HeapWaits(kept', waiting')
        /\ InArrival(kept, waiting) => InArrival(kept', waiting')
    BY <1>1, <1>2, <1>3, <1>4, <1>7, <2>2, <2>3, PoppedKeeps
  <2> QED BY <2>1, <2>4 DEF QueueInv
<1>11. ASSUME ~rewritten PROVE ~strayed'
  <2>1. /\ ~strayed /\ HeapWaits(heap, waiting) /\ HeapWaits(kept, waiting)
        /\ InArrival(heap, waiting) /\ InArrival(kept, waiting)
    BY <1>11 DEF QueueInv
  <2>2. other.value = top.value
    BY <1>1, <1>2, <1>3, <2>1, SameTop
  <2> QED BY <1>4, <2>1, <2>2
<1>12. MatchedHeaps(heap', kept')
  BY <1>2, <1>3, <1>4, PoppedMatch
<1>13. strayed' \in BOOLEAN /\ reordered' \in BOOLEAN /\ rewritten' \in BOOLEAN
  BY <1>4 DEF QueueInv
<1>14. /\ HeapWaits(heap', waiting')
       /\ ~reordered' \/ ~rewritten' => InArrival(heap', waiting')
  BY <1>4, <1>8 DEF QueueInv
<1>15. ~rewritten' => ~strayed' /\ InArrival(kept', waiting')
  BY <1>4, <1>10, <1>11 DEF QueueInv
<1> QED BY <1>8, <1>9, <1>10, <1>12, <1>13, <1>14, <1>15 DEF QueueInv

LEMMA ClearKeeps == ASSUME QueueInv, ClearQueue PROVE QueueInv'
<1>1. /\ heap' = <<>> /\ kept' = <<>> /\ waiting' = <<>> /\ strayed' = FALSE
      /\ nextSeq' = nextSeq /\ keptSeq' = keptSeq /\ reordered' = reordered /\ rewritten' = rewritten
  BY DEF ClearQueue
<1>2. nextSeq \in Nat /\ keptSeq \in Nat /\ reordered \in BOOLEAN /\ rewritten \in BOOLEAN
  BY DEF QueueInv, HeapIs
<1>3. waiting' \in Seq(Items)
  BY <1>1
<1> QED BY <1>1, <1>2, <1>3, EmptyQueue DEF QueueInv

\* The rewritten queue: the same entries under new numbers.
LEMMA EnqueuedKeeps ==
    ASSUME NEW h, NEW s, HeapIs(h, s), NEW w, NEW g, g = Enqueued(h)
    PROVE  /\ HeapIs(g, Len(h)) /\ MatchedHeaps(h, g)
           /\ HeapWaits(h, w) => HeapWaits(g, w)
           /\ h = <<>> => \A v : InArrival(g, v)
<1> DEFINE Renewed(i) == [h[i] EXCEPT !.seq = i - 1]
<1>1. Numbered(h) /\ h \in Seq(Entries) /\ Len(h) \in Nat
  BY DEF HeapIs, Numbered
<1>2. /\ Numbered(g) /\ Ordered(g) /\ Len(g) = Len(h)
      /\ \A x : Has(g, x) <=> \E i \in 1..Len(h) : x = Renewed(i)
  BY <1>1, EnqueuedIs
<1>3. ASSUME NEW i \in 1..Len(h)
      PROVE  /\ Renewed(i).value = h[i].value /\ Renewed(i).priority = h[i].priority
             /\ Renewed(i).seq = i - 1 /\ Has(h, h[i]) /\ h[i] \in Entries
  <2>1. h[i] \in Entries
    BY <1>1
  <2> QED BY <2>1 DEF Entries, Has
<1> HIDE DEF Renewed
<1>4. \A i, j \in 1..Len(h) : Renewed(i).value = Renewed(j).value => i = j
  <2> SUFFICES ASSUME NEW i \in 1..Len(h), NEW j \in 1..Len(h), Renewed(i).value = Renewed(j).value
               PROVE  i = j
    OBVIOUS
  <2>1. h[i] = h[j]
    BY <1>3 DEF HeapIs
  <2> QED BY <1>1, <2>1 DEF Numbered
<1>5. HeapIs(g, Len(h))
  <2>1. \A e, f : Has(g, e) /\ Has(g, f) /\ e.value = f.value => e = f
    BY <1>2, <1>4
  <2>2. \A e : Has(g, e) => e.seq < Len(h)
    BY <1>1, <1>2, <1>3
  <2> QED BY <1>1, <1>2, <2>1, <2>2 DEF HeapIs
<1>6. MatchedHeaps(h, g)
  <2> DEFINE Place(e) == CHOOSE i \in 1..Len(h) : h[i] = e
  <2>1. \A e : Has(h, e) => Place(e) \in 1..Len(h) /\ h[Place(e)] = e /\ e \in Entries
    BY <1>1, HasIs DEF Has
  <2> HIDE DEF Place
  <2>2. PICK b : b = [e \in Entries |-> Renewed(Place(e))]
    OBVIOUS
  <2>3. \A e : Has(h, e) => b[e] = Renewed(Place(e))
    BY <2>1, <2>2
  <2>4. \A e : Has(h, e) => Has(g, b[e]) /\ b[e].priority = e.priority
    BY <1>2, <1>3, <2>1, <2>3
  <2>5. \A e, f : Has(h, e) /\ Has(h, f) /\ b[e] = b[f] => e = f
    BY <1>4, <2>1, <2>3
  <2>6. ASSUME NEW f, Has(g, f) PROVE \E e : Has(h, e) /\ b[e] = f
    <3>1. PICK i \in 1..Len(h) : f = Renewed(i)
      BY <1>2, <2>6
    <3>2. Has(h, h[i]) /\ Place(h[i]) = i
      BY <1>1, <1>3, <2>1 DEF Numbered
    <3> QED BY <2>3, <3>1, <3>2
  <2>7. Matching(b, h, g)
    BY <2>4, <2>5, <2>6 DEF Matching
  <2> QED BY <1>2, <2>7 DEF MatchedHeaps
<1>7. ASSUME HeapWaits(h, w) PROVE HeapWaits(g, w)
  <2>1. \A i \in 1..Len(h) : \A n : Waits(w, Renewed(i), n) <=> Waits(w, h[i], n)
    BY <1>3 DEF Waits
  <2>2. ASSUME NEW e, Has(g, e) PROVE \E n : Waits(w, e, n)
    <3>1. PICK i \in 1..Len(h) : e = Renewed(i)
      BY <1>2, <2>2
    <3>2. PICK n : Waits(w, h[i], n)
      BY <1>3, <1>7 DEF HeapWaits
    <3> QED BY <2>1, <3>1, <3>2
  <2>3. ASSUME NEW n \in 1..Len(w) PROVE \E e : Has(g, e) /\ Waits(w, e, n)
    <3>1. PICK e : Has(h, e) /\ Waits(w, e, n)
      BY <1>7 DEF HeapWaits
    <3>2. PICK i \in 1..Len(h) : h[i] = e
      BY <3>1 DEF Has
    <3>3. Has(g, Renewed(i)) /\ Waits(w, Renewed(i), n)
      BY <1>2, <2>1, <3>1, <3>2
    <3> QED BY <3>3
  <2> QED BY <2>2, <2>3 DEF HeapWaits
<1>8. ASSUME h = <<>> PROVE \A v : InArrival(g, v)
  <2>1. \A x : ~Has(g, x)
    BY <1>2, <1>8
  <2> QED BY <2>1 DEF InArrival
<1> QED BY <1>5, <1>6, <1>7, <1>8

LEMMA RewriteKeeps == ASSUME QueueInv, Rewrite PROVE QueueInv'
<1>1. /\ kept' = Enqueued(heap) /\ keptSeq' = Len(heap) /\ strayed' = FALSE
      /\ rewritten' = (heap # <<>>)
      /\ heap' = heap /\ nextSeq' = nextSeq /\ waiting' = waiting /\ reordered' = reordered
  BY DEF Rewrite
<1>2. /\ HeapIs(kept', Len(heap)) /\ MatchedHeaps(heap, kept')
      /\ HeapWaits(heap, waiting) => HeapWaits(kept', waiting)
      /\ heap = <<>> => \A v : InArrival(kept', v)
  BY <1>1, EnqueuedKeeps DEF QueueInv
<1>3. heap = <<>> => InArrival(heap, waiting)
  BY EmptyQueue
<1>4. ~rewritten' => heap = <<>>
  BY <1>1
<1>5. /\ HeapIs(heap', nextSeq') /\ HeapIs(kept', keptSeq')
      /\ waiting' \in Seq(Items) /\ Apart(waiting')
      /\ reordered' \in BOOLEAN /\ rewritten' \in BOOLEAN /\ strayed' \in BOOLEAN
      /\ HeapWaits(heap', waiting') /\ HeapWaits(kept', waiting')
      /\ MatchedHeaps(heap', kept')
  BY <1>1, <1>2 DEF QueueInv
<1>6. ~reordered' \/ ~rewritten' => InArrival(heap', waiting')
  BY <1>1, <1>3, <1>4 DEF QueueInv
<1>7. ~rewritten' => InArrival(kept', waiting')
  BY <1>2, <1>4
<1> QED BY <1>1, <1>5, <1>6, <1>7 DEF QueueInv

LEMMA RestartKeeps == ASSUME QueueInv, Restart PROVE QueueInv'
<1>1. PICK w : w = [n \in 1..Len(kept) |-> [value |-> kept[n].value, priority |-> kept[n].priority]]
  OBVIOUS
<1>2. /\ heap' = kept /\ nextSeq' = keptSeq /\ reordered' = rewritten /\ strayed' = FALSE
      /\ waiting' = IF strayed THEN w ELSE waiting
      /\ kept' = kept /\ keptSeq' = keptSeq /\ rewritten' = rewritten
  BY <1>1 DEF Restart
<1>3. HeapIs(kept, keptSeq) /\ Numbered(kept) /\ kept \in Seq(Entries) /\ Len(kept) \in Nat
  BY DEF QueueInv, HeapIs, Numbered
<1>4. w \in Seq(Items) /\ Len(w) = Len(kept)
      /\ \A n \in 1..Len(kept) : w[n].value = kept[n].value /\ w[n].priority = kept[n].priority
  <2>1. \A n \in 1..Len(kept) : kept[n] \in Entries
    BY <1>3
  <2>2. ASSUME NEW e \in Entries PROVE [value |-> e.value, priority |-> e.priority] \in Items
    BY DEF Entries, Items
  <2>3. \A n \in 1..Len(kept) : [value |-> kept[n].value, priority |-> kept[n].priority] \in Items
    BY <2>1, <2>2
  <2> QED BY <1>1, <1>3, <2>3
<1>5. Apart(w)
  <2> SUFFICES ASSUME NEW m \in 1..Len(kept), NEW n \in 1..Len(kept), w[m].value = w[n].value
               PROVE  m = n
    BY <1>4 DEF Apart
  <2>1. Has(kept, kept[m]) /\ Has(kept, kept[n])
    BY DEF Has
  <2>2. kept[m] = kept[n]
    BY <1>3, <1>4, <2>1 DEF HeapIs
  <2> QED BY <1>3, <2>2 DEF Numbered
<1>6. HeapWaits(kept, w)
  <2>1. \A n \in 1..Len(kept) : Waits(w, kept[n], n)
    BY <1>4 DEF Waits
  <2>2. \A e : Has(kept, e) => \E n : Waits(w, e, n)
    BY <2>1 DEF Has
  <2>3. \A n \in 1..Len(w) : \E e : Has(kept, e) /\ Waits(w, e, n)
    BY <1>4, <2>1 DEF Has
  <2> QED BY <2>2, <2>3 DEF HeapWaits
<1>7. waiting' \in Seq(Items) /\ Apart(waiting') /\ HeapWaits(kept, waiting')
  BY <1>2, <1>4, <1>5, <1>6 DEF QueueInv
<1>8. ~rewritten => InArrival(kept, waiting')
  BY <1>2 DEF QueueInv
<1>9. MatchedHeaps(kept, kept)
  BY <1>3, MatchesItself
<1>10. rewritten \in BOOLEAN
  BY DEF QueueInv
<1> QED BY <1>2, <1>3, <1>7, <1>8, <1>9, <1>10 DEF QueueInv

LEMMA QueueStep ==
    ASSUME QueueInv, [NextQueued]_queueVars PROVE QueueInv'
<1>1. CASE UNCHANGED queueVars
  BY <1>1 DEF queueVars, QueueInv
<1> QED BY <1>1, EnqueueKeeps, DequeueKeeps, ClearKeeps, RewriteKeeps, RestartKeeps DEF NextQueued

\* What a heap serves, if it has those that wait.
LEMMA ServesWaiting ==
    ASSUME waiting \in Seq(Items), Apart(waiting), NEW h, Numbered(h), Ordered(h),
           HeapWaits(h, waiting), NEW s, s = Served(h)
    PROVE  Values(s) = Values(waiting) /\ (InArrival(h, waiting) => InTurn(s))
<1>1. DOMAIN waiting = 1..Len(waiting)
  OBVIOUS
<1>2. /\ s \in Seq(Entries) /\ DOMAIN s = 1..Len(s) /\ Len(s) \in Nat
      /\ \A i, j \in 1..Len(s) : i < j => Above(s[i], s[j])
      /\ \A x : Has(s, x) <=> Has(h, x)
  BY ServedIs
<1>3. ASSUME NEW i \in 1..Len(s) PROVE s[i] \in Entries /\ Has(h, s[i])
  <2>1. Has(s, s[i])
    BY DEF Has
  <2> QED BY <1>2, <2>1
<1>4. Values(s) = Values(waiting)
  <2>1. ASSUME NEW i \in 1..Len(s) PROVE \E n \in 1..Len(waiting) : waiting[n].value = s[i].value
    BY <1>3 DEF HeapWaits, Waits
  <2>2. ASSUME NEW n \in 1..Len(waiting) PROVE \E i \in 1..Len(s) : waiting[n].value = s[i].value
    <3>1. PICK e : Has(h, e) /\ Waits(waiting, e, n)
      BY DEF HeapWaits
    <3>2. PICK i \in 1..Len(s) : s[i] = e
      BY <1>2, <3>1 DEF Has
    <3> QED BY <3>1, <3>2 DEF Waits
  <2> DEFINE A == {s[n].value : n \in 1..Len(s)}
             B == {waiting[n].value : n \in 1..Len(waiting)}
  <2>3. \A v \in A : v \in B
    BY <2>1
  <2>4. \A v \in B : v \in A
    BY <2>2
  <2>5. A = B
    <3> HIDE DEF A, B
    <3> QED BY <2>3, <2>4
  <2> QED BY <1>1, <1>2, <2>5 DEF Values
<1>5. ASSUME InArrival(h, waiting) PROVE InTurn(s)
  <2> SUFFICES ASSUME NEW i \in 1..Len(s), NEW j \in 1..Len(s), i < j
               PROVE  Precedes(Turn(s[i].value), Turn(s[j].value))
    BY <1>2 DEF InTurn
  <2>1. ASSUME NEW e, Has(h, e) PROVE Waits(waiting, e, Turn(e.value))
    <3>1. PICK n : Waits(waiting, e, n)
      BY <2>1 DEF HeapWaits
    <3> QED BY <3>1, TurnIs
  <2>2. PICK m, n : m = Turn(s[i].value) /\ n = Turn(s[j].value)
    OBVIOUS
  <2>3. Waits(waiting, s[i], m) /\ Waits(waiting, s[j], n) /\ Has(h, s[i]) /\ Has(h, s[j])
    BY <1>3, <2>1, <2>2
  <2>4. Above(s[i], s[j]) /\ s[i] \in Entries /\ s[j] \in Entries
    BY <1>2, <1>3
  <2>5. waiting[m].priority = s[i].priority /\ waiting[n].priority = s[j].priority
    BY <2>3 DEF Waits
  <2>6. s[i].seq < s[j].seq => m < n
    BY <1>5, <2>3 DEF InArrival
  <2> QED BY <2>2, <2>4, <2>5, <2>6 DEF Precedes, Above, Entries
<1> QED BY <1>4, <1>5

LEMMA QueueServes == ASSUME QueueInv PROVE HeapServesInTurn
<1>1. /\ Numbered(heap) /\ Ordered(heap) /\ waiting \in Seq(Items) /\ Apart(waiting)
      /\ HeapWaits(heap, waiting) /\ (~reordered => InArrival(heap, waiting))
  BY DEF QueueInv, HeapIs
<1>2. PICK s : s = Served(heap)
  OBVIOUS
<1>3. /\ s \in Seq(Entries) /\ DOMAIN s = 1..Len(s) /\ Len(s) \in Nat
      /\ \A i, j \in 1..Len(s) : i < j => Above(s[i], s[j])
      /\ \A i \in 1..Len(s) : s[i] \in Entries
  BY <1>1, <1>2, ServedIs
<1>4. IsInjective(s)
  <2>1. ASSUME NEW i \in 1..Len(s), NEW j \in 1..Len(s), i < j PROVE s[i] # s[j]
    BY <1>3, <2>1, AboveOrders
  <2> QED BY <1>3, <2>1 DEF IsInjective
<1>5. Values(s) = Values(waiting) /\ (InArrival(heap, waiting) => InTurn(s))
  BY <1>1, <1>2, ServesWaiting
<1>6. \A n \in 2..Len(s) : s[n].priority <= s[n - 1].priority
  <2> SUFFICES ASSUME NEW n \in 2..Len(s) PROVE s[n].priority <= s[n - 1].priority
    OBVIOUS
  <2>1. n \in 1..Len(s) /\ n - 1 \in 1..Len(s) /\ n - 1 < n
    BY <1>3
  <2>2. Above(s[n - 1], s[n]) /\ s[n] \in Entries /\ s[n - 1] \in Entries
    BY <1>3, <2>1
  <2> QED BY <2>2 DEF Above, Entries
<1> QED BY <1>1, <1>2, <1>4, <1>5, <1>6 DEF HeapServesInTurn

\* Heaps that match serve the same priorities in the same order.
LEMMA MatchedServe ==
    ASSUME NEW h, NEW k, Numbered(h), Ordered(h), Numbered(k), Ordered(k), MatchedHeaps(h, k),
           NEW s, s = Served(h), NEW r, r = Served(k)
    PROVE  Len(r) = Len(s) /\ \A i \in 1..Len(s) : r[i].priority = s[i].priority
<1> DEFINE n == Len(h)
           loop == [kind |-> "serve"]
           Both(x, y, m) ==
             /\ Numbered(x.heap) /\ Ordered(x.heap) /\ Numbered(y.heap) /\ Ordered(y.heap)
             /\ MatchedHeaps(x.heap, y.heap) /\ Len(x.heap) = n - m
             /\ Len(x.out) = m /\ Len(y.out) = m
             /\ x.out \in Seq(Entries) /\ y.out \in Seq(Entries)
             /\ \A i \in 1..m : y.out[i].priority = x.out[i].priority
<1>1. n \in Nat /\ Len(k) = n
  BY DEF Numbered, MatchedHeaps
<1>2. PICK f : Runs(f, loop, [heap |-> h, out |-> <<>>], n) /\ s = f[n].out
  BY <1>1, ServedRuns
<1>3. PICK g : Runs(g, loop, [heap |-> k, out |-> <<>>], n) /\ r = g[n].out
  BY <1>1, ServedRuns
<1> DEFINE S == {m \in 0..n : Both(f[m], g[m], m)}
<1>4. 0 \in S
  <2>1. f[0].heap = h /\ f[0].out = <<>> /\ g[0].heap = k /\ g[0].out = <<>>
    BY <1>2, <1>3 DEF Runs
  <2>2. <<>> \in Seq(Entries) /\ Len(<<>>) = 0 /\ 1..0 = {} /\ 0 \in 0..n /\ n - 0 = n
    BY <1>1
  <2> QED BY <2>1, <2>2
<1>5. ASSUME NEW m \in 0..n, m # 0, (m - 1) \in S PROVE m \in S
  <2>1. PICK a, b, outA, outB : /\ a = f[m - 1].heap /\ outA = f[m - 1].out
                                /\ b = g[m - 1].heap /\ outB = g[m - 1].out
    OBVIOUS
  <2>2. m \in 1..n /\ m \in Nat
    BY <1>5
  <2>3. /\ f[m] = [heap |-> Popped(a), out |-> Append(outA, a[1])]
        /\ g[m] = [heap |-> Popped(b), out |-> Append(outB, b[1])]
    <3>1. f[m] = Round(loop, f[m - 1], m) /\ g[m] = Round(loop, g[m - 1], m)
      BY <1>2, <1>3, <2>2 DEF Runs
    <3> QED BY <2>1, <3>1, Zenon DEF Round
  <2>4. /\ Numbered(a) /\ Ordered(a) /\ Numbered(b) /\ Ordered(b) /\ MatchedHeaps(a, b)
        /\ Len(a) = n - (m - 1) /\ Len(outA) = m - 1 /\ Len(outB) = m - 1
        /\ outA \in Seq(Entries) /\ outB \in Seq(Entries)
        /\ \A i \in 1..(m - 1) : outB[i].priority = outA[i].priority
    BY <1>5, <2>1
  <2>5. PICK c, d, outC, outD : /\ c = Popped(a) /\ outC = Append(outA, a[1])
                                /\ d = Popped(b) /\ outD = Append(outB, b[1])
    OBVIOUS
  <2>6. Len(a) # 0 /\ Len(a) \in Nat /\ Len(a) > 0 /\ Len(b) = Len(a)
    BY <1>1, <2>2, <2>4 DEF MatchedHeaps
  <2>7. a[1] \in Entries /\ b[1] \in Entries
    BY <2>4, <2>6, TopIs
  <2>8. Numbered(c) /\ Ordered(c) /\ Len(c) = Len(a) - 1
    BY <2>4, <2>5, <2>6, PoppedIs
  <2>9. Numbered(d) /\ Ordered(d)
    BY <2>4, <2>5, <2>6, PoppedIs
  <2>10. a[1].priority = b[1].priority /\ MatchedHeaps(c, d)
    BY <2>4, <2>5, <2>6, PoppedMatch
  <2>11. /\ outC \in Seq(Entries) /\ Len(outC) = m /\ outC[m] = a[1]
         /\ \A i \in 1..(m - 1) : outC[i] = outA[i]
    BY <2>2, <2>4, <2>5, <2>7
  <2>12. /\ outD \in Seq(Entries) /\ Len(outD) = m /\ outD[m] = b[1]
         /\ \A i \in 1..(m - 1) : outD[i] = outB[i]
    BY <2>2, <2>4, <2>5, <2>7
  <2>13. \A i \in 1..m : i = m \/ i \in 1..(m - 1)
    BY <2>2
  <2>14. \A i \in 1..m : outD[i].priority = outC[i].priority
    BY <2>4, <2>10, <2>11, <2>12, <2>13
  <2>15. Len(c) = n - m
    BY <1>1, <2>2, <2>4, <2>8
  <2>16. f[m].heap = c /\ f[m].out = outC /\ g[m].heap = d /\ g[m].out = outD
    BY <2>3, <2>5
  <2> QED BY <2>8, <2>9, <2>10, <2>11, <2>12, <2>14, <2>15, <2>16
<1>6. n \in S
  <2> HIDE DEF S
  <2> QED BY <1>1, <1>4, <1>5, UpTo
<1> QED BY <1>2, <1>3, <1>6

LEMMA ReplayServes == ASSUME QueueInv PROVE ReplayServesAlike
<1>1. /\ Numbered(heap) /\ Ordered(heap) /\ Numbered(kept) /\ Ordered(kept)
      /\ waiting \in Seq(Items) /\ Apart(waiting) /\ MatchedHeaps(heap, kept)
      /\ ~strayed => HeapWaits(kept, waiting)
      /\ ~rewritten => ~strayed /\ InArrival(kept, waiting)
  BY DEF QueueInv, HeapIs
<1>2. PICK s, r : s = Served(heap) /\ r = Served(kept)
  OBVIOUS
<1>3. DOMAIN s = 1..Len(s)
  BY <1>1, <1>2, ServedIs
<1>4. Len(r) = Len(s) /\ \A i \in 1..Len(s) : r[i].priority = s[i].priority
  BY <1>1, <1>2, MatchedServe
<1>5. ~strayed => Values(r) = Values(waiting) /\ (InArrival(kept, waiting) => InTurn(r))
  BY <1>1, <1>2, ServesWaiting
<1> QED BY <1>1, <1>2, <1>3, <1>4, <1>5 DEF ReplayServesAlike

(* Whatever was pushed, popped, cleared, rewritten and replayed, what the  *)
(* queue serves from here on is what waits, by priority and, unless it     *)
(* comes from a rewritten file, by arrival.  A restart would serve as many *)
(* entries with the same priorities in the same order, and the same        *)
(* entries unless a DEQUEUE in the rewritten file takes another one than   *)
(* was served.                                                             *)
THEOREM ServedInOrderHolds == PrioritySpec => []ServedInOrder
<1>1. QueueInv /\ [NextQueued]_queueVars => QueueInv'
  BY QueueStep
<1>2. QueueInv => ServedInOrder
  BY QueueServes, ReplayServes DEF ServedInOrder
<1> QED BY <1>1, <1>2, InitQueue, PTL DEF PrioritySpec

-----------------------------------------------------------------------------
(***************************************************************************)
(* SortedSet.  S is the set of the nodes of a list l, At(l, i) those whose *)
(* towers reach the level i.                                               *)
(***************************************************************************)
\* y comes after n, which may be the sentinel.
After(n, y) == n = Sentinel \/ Before(n, y)

\* What follows n among T, and which of T is the last before key.
IsNext(x, n, T) ==
    \/ x = Null /\ \A y \in T : ~After(n, y)
    \/ x \in T /\ After(n, x) /\ \A y \in T : After(n, y) => y = x \/ Before(x, y)

IsLast(p, key, T) ==
    /\ p \in T \cup {Sentinel} /\ After(p, key)
    /\ \A y \in T : Before(y, key) => ~After(p, y)

At(l, i) == {n \in Nodes : i \in DOMAIN l.forward[n]}

IsList(l, S) ==
    /\ S \subseteq Nodes
    /\ DOMAIN l.forward = Nodes \cup {Sentinel}
    /\ l.level \in Heights /\ l.size = Cardinality(S)
    /\ DOMAIN l.forward[Sentinel] = 0..MaxLevel
    /\ \A n \in Nodes \ S : DOMAIN l.forward[n] = {}
    /\ \A n \in S : \E h \in 0..l.level : DOMAIN l.forward[n] = 0..h
    /\ \A n \in Nodes \cup {Sentinel} : \A i \in DOMAIN l.forward[n] :
         IsNext(l.forward[n][i], n, At(l, i))

\* compareCompositeKeys() is a strict total order.
LEMMA BeforeOrders ==
    ASSUME NEW a \in Nodes, NEW b \in Nodes, NEW c \in Nodes
    PROVE  /\ ~Before(a, a)
           /\ Before(a, b) => ~Before(b, a)
           /\ Before(a, b) /\ Before(b, c) => Before(a, c)
           /\ a = b \/ Before(a, b) \/ Before(b, a)
<1>1. Scores \subseteq Int /\ Members \subseteq Int
  BY SortedSetAssumption
<1>2. ASSUME NEW x \in Nodes PROVE x = <<x[1], x[2]>> /\ x[1] \in Int /\ x[2] \in Int
  <2>1. x \in Scores \X Members
    BY <1>2 DEF Nodes
  <2>2. PICK s \in Scores, m \in Members : x = <<s, m>>
    BY <2>1
  <2> QED BY <1>1, <2>2
<1> QED BY <1>2 DEF Before

LEMMA NamesDiffer == Null \notin Nodes /\ Sentinel \notin Nodes /\ Null # Sentinel
<1>1. \A x \in Nodes : Len(x) = 2
  BY DEF Nodes
<1>2. Len(<<"null">>) = 1 /\ Len(<<"sentinel">>) = 1
  OBVIOUS
<1>3. <<"null">>[1] # <<"sentinel">>[1]
  OBVIOUS
<1> QED BY <1>1, <1>2, <1>3 DEF Null, Sentinel

LEMMA AfterOrders ==
    ASSUME NEW n \in Nodes \cup {Sentinel}, NEW a \in Nodes, NEW b \in Nodes
    PROVE  /\ After(n, a) /\ Before(a, b) => After(n, b)
           /\ ~After(n, b) /\ Before(a, b) => ~After(n, a)
           /\ After(n, a) => n # a
           /\ n # Sentinel => (After(n, a) <=> Before(n, a))
BY BeforeOrders, NamesDiffer DEF After

LEMMA NodesFinite == IsFiniteSet(Nodes)
BY SortedSetAssumption, FS_Product DEF Nodes

\* What follows the last one before a key is the key, if that is there at all.
LEMMA LastMeets ==
    ASSUME NEW T, T \subseteq Nodes, NEW key \in Nodes, NEW p, IsLast(p, key, T),
           NEW x, IsNext(x, p, T)
    PROVE  x = key <=> key \in T
<1>1. ASSUME key \in T PROVE x = key
  <2>1. After(p, key) /\ p \in Nodes \cup {Sentinel}
    BY DEF IsLast
  <2>2. x \in T /\ After(p, x) /\ (key = x \/ Before(x, key))
    BY <1>1, <2>1 DEF IsNext
  <2>3. ~Before(x, key)
    BY <2>2 DEF IsLast
  <2> QED BY <2>2, <2>3
<1>2. ASSUME x = key PROVE key \in T
  BY <1>2, NamesDiffer DEF IsNext
<1> QED BY <1>1, <1>2

\* The pointers of a level when a node enters it behind p ...
LEMMA LevelEntered ==
    ASSUME NEW T, T \subseteq Nodes, NEW key \in Nodes, key \notin T,
           NEW p, IsLast(p, key, T), NEW n \in T \cup {Sentinel}, NEW x, IsNext(x, n, T)
    PROVE  /\ n # p => IsNext(x, n, T \cup {key})
           /\ n = p => IsNext(key, n, T \cup {key}) /\ IsNext(x, key, T \cup {key})
<1>1. /\ p \in T \cup {Sentinel} /\ p \in Nodes \cup {Sentinel} /\ After(p, key)
      /\ n \in Nodes \cup {Sentinel} /\ key # Sentinel
  BY NamesDiffer DEF IsLast
<1>2. CASE n # p
  <2>1. CASE ~After(n, key)
    BY <1>1, <2>1, <1>2 DEF IsNext
  <2>2. CASE After(n, key)
    <3>1. ~After(p, n) \/ n = Sentinel
      BY <1>1, <2>2, NamesDiffer DEF IsLast, After
    <3>2. p # Sentinel
      BY <1>2, <3>1 DEF After
    <3>3. p \in T /\ p \in Nodes /\ Before(p, key)
      BY <1>1, <3>2 DEF After
    <3>4. After(n, p)
      BY <1>1, <1>2, <3>1, <3>3, BeforeOrders DEF After
    <3>5. x \in T /\ After(n, x) /\ (p = x \/ Before(x, p)) /\ x \in Nodes
      BY <3>3, <3>4 DEF IsNext
    <3>6. Before(x, key)
      BY <3>3, <3>5, BeforeOrders
    <3> QED BY <1>2, <3>5, <3>6 DEF IsNext
  <2> QED BY <2>1, <2>2
<1>3. CASE n = p
  <2>1. ASSUME NEW y \in T, After(p, y) PROVE Before(key, y)
    <3>1. ~Before(y, key) /\ y # key /\ y \in Nodes
      BY <2>1 DEF IsLast
    <3> QED BY <3>1, BeforeOrders
  <2>2. IsNext(key, n, T \cup {key})
    BY <1>1, <1>3, <2>1 DEF IsNext
  <2>3. ~After(key, key)
    BY <1>1, BeforeOrders DEF After
  <2>4. \A y \in T : After(key, y) => After(p, y)
    BY <1>1, AfterOrders DEF After
  <2>5. CASE x = Null /\ \A y \in T : ~After(n, y)
    <3>1. \A y \in T \cup {key} : ~After(key, y)
      BY <1>3, <2>3, <2>4, <2>5
    <3>2. IsNext(x, key, T \cup {key})
      BY <2>5, <3>1 DEF IsNext
    <3> QED BY <1>3, <2>2, <3>2
  <2>6. CASE x \in T /\ After(n, x) /\ \A y \in T : After(n, y) => y = x \/ Before(x, y)
    <3>1. After(key, x)
      BY <1>3, <2>1, <2>6 DEF After
    <3> QED BY <1>3, <2>2, <2>3, <2>4, <2>6, <3>1 DEF IsNext
  <2> QED BY <1>3, <2>2, <2>5, <2>6 DEF IsNext
<1> QED BY <1>2, <1>3

\* ... and when a node leaves it.
LEMMA LevelLeft ==
    ASSUME NEW T, T \subseteq Nodes, NEW key \in T, NEW p, IsLast(p, key, T),
           NEW n \in T \cup {Sentinel}, NEW x, IsNext(x, n, T), NEW z, IsNext(z, key, T)
    PROVE  /\ n # p /\ n # key => IsNext(x, n, T \ {key})
           /\ n = p => IsNext(z, n, T \ {key})
<1>1. /\ p \in T \cup {Sentinel} /\ p \in Nodes \cup {Sentinel} /\ After(p, key)
      /\ n \in Nodes \cup {Sentinel} /\ key # Sentinel /\ key \in Nodes
  BY NamesDiffer DEF IsLast
<1>2. ASSUME n # p, n # key PROVE IsNext(x, n, T \ {key})
  <2>1. x # key
    <3> SUFFICES ASSUME x = key PROVE FALSE
      OBVIOUS
    <3>1. After(n, key) /\ \A y \in T : After(n, y) => y = key \/ Before(key, y)
      BY <1>1, NamesDiffer DEF IsNext
    <3>2. ~After(p, n) \/ n = Sentinel
      BY <1>1, <3>1, NamesDiffer DEF IsLast, After
    <3>3. p # Sentinel
      BY <1>2, <3>2 DEF After
    <3>4. p \in T /\ p \in Nodes /\ Before(p, key)
      BY <1>1, <3>3 DEF After
    <3>5. After(n, p)
      BY <1>1, <1>2, <3>2, <3>4, BeforeOrders DEF After
    <3>6. p = key \/ Before(key, p)
      BY <3>1, <3>4, <3>5
    <3> QED BY <1>1, <3>4, <3>6, BeforeOrders
  <2> QED BY <2>1 DEF IsNext
<1>3. ASSUME n = p PROVE IsNext(z, n, T \ {key})
  <2>1. ~After(key, key)
    BY <1>1, BeforeOrders DEF After
  <2>2. ASSUME NEW y \in T, y # key PROVE After(p, y) <=> After(key, y)
    <3>1. y \in Nodes
      BY <2>2
    <3>2. After(key, y) => After(p, y)
      BY <1>1, <3>1, AfterOrders DEF After
    <3>3. After(p, y) => After(key, y)
      BY <1>1, <2>2, <3>1, BeforeOrders DEF IsLast, After
    <3> QED BY <3>2, <3>3
  <2>3. CASE z = Null /\ \A y \in T : ~After(key, y)
    BY <1>3, <2>2, <2>3 DEF IsNext
  <2>4. CASE z \in T /\ After(key, z) /\ \A y \in T : After(key, y) => y = z \/ Before(z, y)
    <3>1. z # key
      BY <2>1, <2>4
    <3> QED BY <1>3, <2>2, <2>4, <3>1 DEF IsNext
  <2> QED BY <2>3, <2>4 DEF IsNext
<1> QED BY <1>2, <1>3

\* The levels of a list.
LEMMA LevelsAre ==
    ASSUME NEW l, NEW S, IsList(l, S), NEW i \in 0..MaxLevel
    PROVE  /\ At(l, i) \subseteq S /\ S \subseteq Nodes /\ At(l, 0) = S
           /\ IsFiniteSet(S) /\ IsFiniteSet(At(l, i)) /\ l.size \in Nat
           /\ Cardinality(At(l, i)) \in Nat /\ Cardinality(At(l, i)) <= l.size
           /\ l.level \in 0..MaxLevel /\ (i > l.level => At(l, i) = {})
           /\ \A j \in 0..i : At(l, i) \subseteq At(l, j)
           /\ \A n \in At(l, i) \cup {Sentinel} : IsNext(l.forward[n][i], n, At(l, i))
<1>1. MaxLevel \in Nat /\ l.level \in 0..MaxLevel
  BY SortedSetAssumption DEF IsList, Heights
<1>2. ASSUME NEW n \in Nodes, NEW j \in DOMAIN l.forward[n] PROVE n \in S /\ j \in 0..l.level
  <2>2. n \in S
    BY DEF IsList
  <2>3. PICK h \in 0..l.level : DOMAIN l.forward[n] = 0..h
    BY <2>2 DEF IsList
  <2> QED BY <1>1, <2>2, <2>3
<1>3. ASSUME NEW n \in S PROVE n \in Nodes /\ 0 \in DOMAIN l.forward[n]
  <2>1. PICK h \in 0..l.level : DOMAIN l.forward[n] = 0..h
    BY DEF IsList
  <2> QED BY <1>1, <2>1 DEF IsList
<1>4. At(l, i) \subseteq S /\ At(l, 0) = S /\ S \subseteq Nodes
  BY <1>2, <1>3 DEF At, IsList
<1>5. i > l.level => At(l, i) = {}
  BY <1>1, <1>2 DEF At
<1>6. IsFiniteSet(S) /\ l.size = Cardinality(S)
  BY NodesFinite, FS_Subset DEF IsList
<1>7. /\ l.size \in Nat /\ IsFiniteSet(At(l, i))
      /\ Cardinality(At(l, i)) \in Nat /\ Cardinality(At(l, i)) <= l.size
  BY <1>4, <1>6, FS_Subset, FS_CardinalityType
<1>8. ASSUME NEW n \in At(l, i) \cup {Sentinel} PROVE IsNext(l.forward[n][i], n, At(l, i))
  <2>1. n \in Nodes \cup {Sentinel} /\ i \in DOMAIN l.forward[n]
    BY DEF At, IsList
  <2> QED BY <2>1 DEF IsList
<1>9. ASSUME NEW j \in 0..i, NEW n \in At(l, i) PROVE n \in At(l, j)
  <2>1. n \in S /\ n \in Nodes /\ i \in DOMAIN l.forward[n]
    BY <1>4 DEF At
  <2>2. PICK h \in 0..l.level : DOMAIN l.forward[n] = 0..h
    BY <2>1 DEF IsList
  <2> QED BY <1>1, <2>1, <2>2 DEF At
<1> QED BY <1>1, <1>4, <1>5, <1>6, <1>7, <1>8, <1>9

LEMMA WalkRuns ==
    ASSUME NEW l, NEW i, NEW from, NEW key, l.size \in Nat
    PROVE  \E f : /\ Runs(f, [kind |-> "walk", list |-> l, level |-> i, key |-> key], from, l.size)
                  /\ Walk(l, i, from, key) = f[l.size]
<1> DEFINE n == l.size
           loop == [kind |-> "walk", list |-> l, level |-> i, key |-> key]
           Is(at) == at = [m \in 0..n |->
                 IF m = 0 THEN from
                 ELSE LET here == at[m - 1]
                          next == l.forward[here][i]
                      IN  IF next # Null /\ Before(next, key) THEN next ELSE here]
           f == CHOOSE at : Is(at)
<1>1. \A at : Is(at) <=> Rounds(at, loop, from, n)
  BY DEF Round, ListRound, Rounds
<1>2. Is(f)
  BY <1>1, RoundsExist
<1>3. Walk(l, i, from, key) = f[n]
  BY DEF Walk
<1> QED BY <1>1, <1>2, <1>3, RoundsRun

\* The walk along a level ends at the last node before the key: each step but those
\* at the end leaves one more node behind.
LEMMA WalkIs ==
    ASSUME NEW l, NEW S, IsList(l, S), NEW i \in 0..MaxLevel,
           NEW from \in At(l, i) \cup {Sentinel}, NEW key \in Nodes, After(from, key)
    PROVE  IsLast(Walk(l, i, from, key), key, At(l, i))
<1> DEFINE loop == [kind |-> "walk", list |-> l, level |-> i, key |-> key]
           Behind(x, T) == {y \in T : y = x \/ ~After(x, y)}
<1>1. PICK T, n : T = At(l, i) /\ n = l.size
  OBVIOUS
<1>2. /\ T \subseteq Nodes /\ IsFiniteSet(T) /\ n \in Nat
      /\ Cardinality(T) \in Nat /\ Cardinality(T) <= n
      /\ \A x \in T \cup {Sentinel} : IsNext(l.forward[x][i], x, T)
  BY <1>1, LevelsAre
<1>3. PICK f : Runs(f, loop, from, n) /\ Walk(l, i, from, key) = f[n]
  BY <1>1, <1>2, WalkRuns
<1> DEFINE Reached(x, m) ==
             /\ x \in T \cup {Sentinel} /\ After(x, key)
             /\ IsLast(x, key, T) \/ Cardinality(Behind(x, T)) >= m
           R == {m \in 0..n : Reached(f[m], m)}
<1>4. ASSUME NEW x \in T \cup {Sentinel}
      PROVE  /\ IsFiniteSet(Behind(x, T)) /\ Cardinality(Behind(x, T)) \in Nat
             /\ Behind(x, T) \subseteq T /\ Cardinality(Behind(x, T)) <= Cardinality(T)
             /\ Cardinality(Behind(x, T)) = Cardinality(T) => Behind(x, T) = T
  <2> DEFINE B == Behind(x, T)
  <2>1. B \subseteq T
    OBVIOUS
  <2> HIDE DEF B
  <2> QED BY <1>2, <2>1, FS_Subset, FS_CardinalityType
<1>5. 0 \in R
  <2>1. f[0] = from /\ from \in T \cup {Sentinel}
    BY <1>1, <1>3 DEF Runs
  <2>2. Cardinality(Behind(from, T)) >= 0
    <3>1. PICK c : c = Cardinality(Behind(from, T))
      OBVIOUS
    <3>2. c \in Nat
      <4> HIDE DEF Behind
      <4> QED BY <1>4, <2>1, <3>1
    <3>3. c >= 0
      BY <3>2
    <3> QED BY <3>1, <3>3
  <2>3. Reached(from, 0)
    BY <2>1, <2>2
  <2> HIDE DEF Reached
  <2>4. Reached(f[0], 0)
    BY <2>1, <2>3
  <2> QED BY <1>2, <2>4
<1>6. ASSUME NEW m \in 0..n, m # 0, (m - 1) \in R PROVE m \in R
  <2>1. PICK x, next : x = f[m - 1] /\ next = l.forward[x][i]
    OBVIOUS
  <2>2. m \in 1..n /\ m - 1 \in Nat
    BY <1>2, <1>6
  <2>3. f[m] = IF next # Null /\ Before(next, key) THEN next ELSE x
    <3>1. f[m] = Round(loop, f[m - 1], m)
      BY <1>3, <2>2 DEF Runs
    <3> QED BY <2>1, <3>1 DEF Round, ListRound
  <2>4. Reached(x, m - 1) /\ IsNext(next, x, T)
    BY <1>2, <1>6, <2>1
  <2>5. CASE IsLast(x, key, T)
    <3>1. next = Null \/ ~Before(next, key)
      BY <2>4, <2>5 DEF IsLast, IsNext
    <3> QED BY <2>3, <2>4, <2>5, <3>1
  <2>6. CASE ~IsLast(x, key, T)
    <3>1. PICK y \in T : Before(y, key) /\ After(x, y)
      BY <2>4, <2>6 DEF IsLast
    <3>2. next \in T /\ After(x, next) /\ (y = next \/ Before(next, y))
      BY <3>1, <2>4 DEF IsNext
    <3>3. next \in Nodes /\ y \in Nodes /\ x \in Nodes \cup {Sentinel}
      BY <1>2, <2>4, <3>2
    <3>4. Before(next, key) /\ next # Null
      BY <3>1, <3>2, <3>3, BeforeOrders, NamesDiffer
    <3>5. Behind(x, T) \cup {next} \subseteq Behind(next, T) /\ next \notin Behind(x, T)
      <4>1. next \notin Behind(x, T)
        BY <3>2, <3>3, AfterOrders
      <4>2. ASSUME NEW z \in Behind(x, T) PROVE z = next \/ ~After(next, z)
        <5>1. z \in Nodes
          BY <1>2
        <5>2. CASE z = x
          <6>1. Before(z, next) /\ next # Sentinel
            BY <3>2, <3>3, <5>1, <5>2, NamesDiffer DEF After
          <6> QED BY <3>3, <5>1, <6>1, BeforeOrders DEF After
        <5>3. CASE ~After(x, z)
          <6>1. next # Sentinel
            BY <3>3, NamesDiffer
          <6>2. Before(next, z) => After(x, z)
            BY <3>2, <3>3, <5>1, AfterOrders
          <6> QED BY <5>3, <6>1, <6>2 DEF After
        <5> QED BY <5>2, <5>3
      <4>3. next \in Behind(next, T)
        BY <3>2
      <4> QED BY <4>1, <4>2, <4>3
    <3>6. Cardinality(Behind(next, T)) >= m
      <4> DEFINE A == Behind(x, T)
                 B == Behind(next, T)
      <4>1. IsFiniteSet(A) /\ IsFiniteSet(B) /\ Cardinality(A) \in Nat /\ Cardinality(B) \in Nat
        BY <1>4, <2>4, <3>2
      <4>2. Cardinality(A) >= m - 1
        BY <2>4, <2>6
      <4>3. A \cup {next} \subseteq B /\ next \notin A
        BY <3>5
      <4> HIDE DEF A, B
      <4>4. Cardinality(A \cup {next}) = Cardinality(A) + 1
        BY <4>1, <4>3, FS_AddElement
      <4>5. Cardinality(A \cup {next}) <= Cardinality(B)
        BY <4>1, <4>3, FS_Subset
      <4>6. Cardinality(B) >= m
        BY <1>2, <2>2, <4>1, <4>2, <4>4, <4>5
      <4> QED BY <4>6 DEF B
    <3>7. f[m] = next /\ After(next, key)
      BY <2>3, <3>4 DEF After
    <3> QED BY <1>6, <3>2, <3>6, <3>7
  <2> QED BY <2>5, <2>6
<1>7. n \in R
  <2> HIDE DEF R
  <2> QED BY <1>2, <1>5, <1>6, UpTo
<1>8. IsLast(f[n], key, T)
  <2> SUFFICES ASSUME ~IsLast(f[n], key, T) PROVE FALSE
    OBVIOUS
  <2>1. PICK x : x = f[n]
    OBVIOUS
  <2>2. x \in T \cup {Sentinel} /\ After(x, key) /\ Cardinality(Behind(x, T)) >= n
    BY <1>7, <2>1
  <2>3. Behind(x, T) = T
    BY <1>2, <1>4, <2>2
  <2>4. ASSUME NEW y \in T PROVE ~After(x, y)
    BY <1>2, <2>2, <2>3, AfterOrders
  <2> QED BY <2>1, <2>2, <2>4 DEF IsLast
<1> QED BY <1>1, <1>3, <1>8

LEMMA DescentRuns ==
    ASSUME NEW l, NEW key, l.level \in Nat
    PROVE  \E f : /\ Runs(f, [kind |-> "descend", list |-> l, key |-> key],
                          Walk(l, l.level, Sentinel, key), l.level)
                  /\ Descent(l, key) = [i \in 0..l.level |-> f[l.level - i]]
<1> DEFINE n == l.level
           x == Walk(l, l.level, Sentinel, key)
           loop == [kind |-> "descend", list |-> l, key |-> key]
           Is(at) == at = [m \in 0..n |->
                 Walk(l, l.level - m, IF m = 0 THEN Sentinel ELSE at[m - 1], key)]
           f == CHOOSE at : Is(at)
<1>1. n - 0 = l.level
  OBVIOUS
<1>2. ASSUME NEW at PROVE Is(at) <=> Rounds(at, loop, x, n)
  <2> DEFINE F == [m \in 0..n |-> Walk(l, l.level - m, IF m = 0 THEN Sentinel ELSE at[m - 1], key)]
             G == [m \in 0..n |-> IF m = 0 THEN x ELSE Round(loop, at[m - 1], m)]
  <2>1. ASSUME NEW m \in 0..n PROVE F[m] = G[m]
    <3>1. CASE m = 0
      BY <1>1, <3>1
    <3>2. CASE m # 0
      BY <3>2 DEF Round, ListRound
    <3> QED BY <3>1, <3>2
  <2>2. F = G
    BY <2>1
  <2> QED BY <2>2 DEF Rounds
<1>3. Is(f)
  BY <1>2, RoundsExist
<1>4. Descent(l, key) = [i \in 0..l.level |-> f[l.level - i]]
  BY DEF Descent
<1> QED BY <1>2, <1>3, <1>4, RoundsRun

\* The descent leaves each level at its last node before the key, which the levels
\* below have too.
LEMMA DescentIs ==
    ASSUME NEW l, NEW S, IsList(l, S), NEW key \in Nodes, NEW i \in 0..l.level
    PROVE  IsLast(Descent(l, key)[i], key, At(l, i))
<1> DEFINE loop == [kind |-> "descend", list |-> l, key |-> key]
<1>1. MaxLevel \in Nat /\ l.level \in 0..MaxLevel /\ l.level \in Nat
  BY SortedSetAssumption DEF IsList, Heights
<1>2. PICK n : n = l.level
  OBVIOUS
<1>3. PICK f : Runs(f, loop, Walk(l, n, Sentinel, key), n) /\ Descent(l, key) = [j \in 0..n |-> f[n - j]]
  BY <1>1, <1>2, DescentRuns
<1> DEFINE R == {m \in 0..n : IsLast(f[m], key, At(l, n - m))}
<1>4. 0 \in R
  <2>1. IsLast(Walk(l, n, Sentinel, key), key, At(l, n))
    BY <1>1, <1>2, WalkIs DEF After
  <2>2. n - 0 = n /\ 0 \in 0..n
    BY <1>1, <1>2
  <2> QED BY <1>3, <2>1, <2>2 DEF Runs
<1>5. ASSUME NEW m \in 0..n, m # 0, (m - 1) \in R PROVE m \in R
  <2>1. PICK x, j : x = f[m - 1] /\ j = n - m
    OBVIOUS
  <2>2. m \in 1..n /\ j \in 0..MaxLevel /\ n - (m - 1) = j + 1 /\ j + 1 \in 0..MaxLevel
    BY <1>1, <1>2, <1>5, <2>1
  <2>3. IsLast(x, key, At(l, j + 1))
    BY <1>5, <2>1, <2>2
  <2>4. At(l, j + 1) \subseteq At(l, j)
    <3>1. j \in 0..(j + 1)
      BY <2>2
    <3> QED BY <2>2, <3>1, LevelsAre
  <2>5. x \in At(l, j) \cup {Sentinel} /\ After(x, key)
    BY <2>3, <2>4 DEF IsLast
  <2>6. f[m] = Walk(l, j, x, key)
    <3>1. f[m] = Round(loop, f[m - 1], m)
      BY <1>3, <2>2 DEF Runs
    <3> QED BY <1>2, <2>1, <3>1 DEF Round, ListRound
  <2>7. IsLast(f[m], key, At(l, j))
    BY <2>2, <2>5, <2>6, WalkIs
  <2> QED BY <2>1, <2>7
<1>6. ASSUME NEW m \in 0..n PROVE m \in R
  <2>1. m \in Nat /\ \A k \in 0..m : k \in 0..n
    BY <1>1, <1>2
  <2> HIDE DEF R
  <2> QED BY <1>4, <1>5, <2>1, UpTo
<1>7. n - i \in 0..n /\ n - (n - i) = i /\ i \in 0..n
  BY <1>1, <1>2
<1>8. Descent(l, key)[i] = f[n - i]
  BY <1>3, <1>7
<1> QED BY <1>6, <1>7, <1>8

\* So a level holds the key where the pointer that the descent leaves it by refers to it.
LEMMA PathMeets ==
    ASSUME NEW l, NEW S, IsList(l, S), NEW key \in Nodes, NEW i \in 0..l.level
    PROVE  l.forward[Descent(l, key)[i]][i] = key <=> key \in At(l, i)
<1>1. i \in 0..MaxLevel
  BY SortedSetAssumption DEF IsList, Heights
<1>2. PICK p : p = Descent(l, key)[i] /\ IsLast(p, key, At(l, i))
  BY DescentIs
<1>3. IsNext(l.forward[p][i], p, At(l, i))
  BY <1>1, <1>2, LevelsAre DEF IsLast
<1>4. At(l, i) \subseteq Nodes
  BY <1>1, LevelsAre
<1> QED BY <1>2, <1>3, <1>4, LastMeets

LEMMA FoundIs ==
    ASSUME NEW l, NEW S, IsList(l, S), NEW key \in Nodes
    PROVE  Found(l, key) <=> key \in S
<1>1. 0 \in 0..l.level /\ 0 \in 0..MaxLevel
  BY SortedSetAssumption DEF IsList, Heights
<1>2. At(l, 0) = S
  BY <1>1, LevelsAre
<1> QED BY <1>1, <1>2, PathMeets DEF Found, Candidate

(***************************************************************************)
(* set(): a tower enters each of its levels behind the node where the      *)
(* descent leaves the level, or behind the sentinel above them.            *)
(***************************************************************************)
LEMMA InsertedIs ==
    ASSUME NEW l, NEW S, IsList(l, S), NEW key \in Nodes, key \notin S, NEW height \in Heights
    PROVE  IsList(Inserted(l, key, height), S \cup {key})
<1>1. /\ MaxLevel \in Nat /\ height \in Nat /\ height \in 0..MaxLevel
      /\ l.level \in Heights /\ l.level \in Nat /\ l.level \in 0..MaxLevel
  BY SortedSetAssumption DEF IsList, Heights
<1>2. /\ key # Sentinel /\ key \in DOMAIN l.forward /\ DOMAIN l.forward = Nodes \cup {Sentinel}
      /\ DOMAIN l.forward[key] = {}
  BY NamesDiffer DEF IsList
<1> DEFINE path == Descent(l, key)
           update == [i \in 0..height |-> IF i <= l.level THEN path[i] ELSE Sentinel]
           fwd == [n \in DOMAIN l.forward |->
                     IF n = key THEN [i \in 0..height |-> l.forward[update[i]][i]]
                     ELSE [i \in DOMAIN l.forward[n] |->
                             IF i <= height /\ update[i] = n THEN key ELSE l.forward[n][i]]]
<1>3. ASSUME NEW i \in 0..height PROVE IsLast(update[i], key, At(l, i)) /\ i \in 0..MaxLevel
  <2>1. i \in 0..MaxLevel
    BY <1>1
  <2>2. CASE i <= l.level
    <3>1. i \in 0..l.level
      BY <1>1, <2>2
    <3> QED BY <2>1, <2>2, <3>1, DescentIs
  <2>3. CASE ~(i <= l.level)
    <3>1. At(l, i) = {}
      BY <1>1, <2>1, <2>3, LevelsAre
    <3> QED BY <2>1, <2>3, <3>1 DEF IsLast, After
  <2> QED BY <2>2, <2>3
<1>4. PICK l2, u : l2 = Inserted(l, key, height) /\ u = update
  OBVIOUS
<1>5. /\ l2.forward = fwd /\ l2.size = l.size + 1
      /\ l2.level = IF height > l.level THEN height ELSE l.level
  BY <1>4 DEF Inserted
<1>6. /\ DOMAIN l2.forward = Nodes \cup {Sentinel}
      /\ DOMAIN l2.forward[key] = 0..height
      /\ \A i \in 0..height : l2.forward[key][i] = l.forward[u[i]][i]
  BY <1>2, <1>4, <1>5
<1>7. ASSUME NEW n \in Nodes \cup {Sentinel}, n # key
      PROVE  /\ DOMAIN l2.forward[n] = DOMAIN l.forward[n]
             /\ \A i \in DOMAIN l.forward[n] :
                  l2.forward[n][i] = IF i <= height /\ u[i] = n THEN key ELSE l.forward[n][i]
  BY <1>2, <1>4, <1>5, <1>7
<1>8. ASSUME NEW i \in 0..MaxLevel
      PROVE  At(l2, i) = IF i <= height THEN At(l, i) \cup {key} ELSE At(l, i)
  <2>1. i <= height <=> i \in 0..height
    BY <1>1
  <2>2. ASSUME NEW n \in Nodes
        PROVE  i \in DOMAIN l2.forward[n] <=>
                 i \in DOMAIN l.forward[n] \/ (n = key /\ i <= height)
    BY <1>2, <1>6, <1>7, <2>1
  <2> QED BY <2>2 DEF At
<1>9. ASSUME NEW n \in Nodes \cup {Sentinel}, NEW i \in DOMAIN l2.forward[n]
      PROVE  IsNext(l2.forward[n][i], n, At(l2, i))
  <2>1. i \in 0..MaxLevel
    <3>1. CASE n = key
      BY <1>1, <1>6, <3>1
    <3>2. CASE n # key /\ n = Sentinel
      BY <1>7, <1>9, <3>2 DEF IsList
    <3>3. CASE n # key /\ n # Sentinel
      <4>1. i \in DOMAIN l.forward[n] /\ n \in Nodes
        BY <1>7, <1>9, <3>3
      <4>2. n \in S
        BY <4>1 DEF IsList
      <4>3. PICK h \in 0..l.level : DOMAIN l.forward[n] = 0..h
        BY <4>2 DEF IsList
      <4> QED BY <1>1, <4>1, <4>3
    <3> QED BY <3>1, <3>2, <3>3
  <2> DEFINE T == At(l, i)
  <2>2. /\ T \subseteq Nodes /\ T \subseteq S
        /\ \A m \in T \cup {Sentinel} : IsNext(l.forward[m][i], m, T)
    BY <2>1, LevelsAre
  <2>3. key \notin T
    BY <2>2
  <2>4. i <= height => i \in 0..height
    BY <1>1, <2>1
  <2>5. CASE n = key
    <3>1. i \in 0..height /\ i <= height
      BY <1>1, <1>6, <1>9, <2>5
    <3>2. PICK p : p = u[i] /\ IsLast(p, key, T)
      BY <1>3, <1>4, <3>1
    <3>3. p \in T \cup {Sentinel}
      BY <3>2 DEF IsLast
    <3>4. IsNext(l.forward[p][i], p, T)
      BY <2>2, <3>3
    <3>5. IsNext(l.forward[p][i], key, T \cup {key})
      BY <2>2, <2>3, <3>2, <3>3, <3>4, LevelEntered
    <3> QED BY <1>6, <1>8, <2>1, <2>5, <3>1, <3>2, <3>5
  <2>6. CASE n # key
    <3>1. i \in DOMAIN l.forward[n] /\ n \in T \cup {Sentinel}
      BY <1>7, <1>9, <2>6 DEF At
    <3>2. PICK x : x = l.forward[n][i] /\ IsNext(x, n, T)
      BY <2>2, <3>1
    <3>3. CASE i <= height
      <4>1. PICK p : p = u[i] /\ IsLast(p, key, T)
        BY <1>3, <1>4, <2>4, <3>3
      <4>2. n # p => IsNext(x, n, T \cup {key})
        BY <2>2, <2>3, <3>1, <3>2, <4>1, LevelEntered
      <4>3. n = p => IsNext(key, n, T \cup {key})
        BY <2>2, <2>3, <3>1, <3>2, <4>1, LevelEntered
      <4> QED BY <1>7, <1>8, <2>1, <2>6, <3>1, <3>2, <3>3, <4>1, <4>2, <4>3
    <3>4. CASE ~(i <= height)
      BY <1>7, <1>8, <2>1, <2>6, <3>1, <3>2, <3>4
    <3> QED BY <3>3, <3>4
  <2> QED BY <2>5, <2>6
<1>10. l2.level \in Heights /\ l2.level \in Nat /\ l.level <= l2.level /\ height <= l2.level
  BY <1>1, <1>5
<1>11. l2.size = Cardinality(S \cup {key})
  <2>1. IsFiniteSet(S) /\ l.size = Cardinality(S)
    BY <1>1, LevelsAre DEF IsList
  <2>2. Cardinality(S \cup {key}) = Cardinality(S) + 1
    BY <2>1, FS_AddElement
  <2>3. l2.size = l.size + 1
    BY <1>5
  <2> QED BY <2>1, <2>2, <2>3
<1>12. S \cup {key} \subseteq Nodes /\ DOMAIN l2.forward[Sentinel] = 0..MaxLevel
  BY <1>2, <1>7 DEF IsList
<1>13. \A n \in Nodes \ (S \cup {key}) : DOMAIN l2.forward[n] = {}
  BY <1>7 DEF IsList
<1>14. ASSUME NEW n \in S \cup {key} PROVE \E h \in 0..l2.level : DOMAIN l2.forward[n] = 0..h
  <2>1. CASE n = key
    BY <1>1, <1>6, <1>10, <2>1
  <2>2. CASE n # key
    <3>1. PICK h \in 0..l.level : DOMAIN l.forward[n] = 0..h
      BY <2>2 DEF IsList
    <3>2. h \in 0..l2.level
      BY <1>1, <1>10
    <3> QED BY <1>7, <1>12, <2>2, <3>1, <3>2
  <2> QED BY <2>1, <2>2
<1>15. IsList(l2, S \cup {key})
  BY <1>6, <1>9, <1>10, <1>11, <1>12, <1>13, <1>14 DEF IsList
<1> QED BY <1>4, <1>15

LEMMA ListSetIs ==
    ASSUME NEW l, NEW S, IsList(l, S), NEW key \in Nodes, NEW height \in Heights
    PROVE  IsList(ListSet(l, key, height), S \cup {key})
<1>1. CASE key \in S
  <2>1. S \cup {key} = S
    BY <1>1
  <2> QED BY <1>1, <2>1, FoundIs DEF ListSet
<1>2. CASE key \notin S
  BY <1>2, FoundIs, InsertedIs DEF ListSet
<1> QED BY <1>1, <1>2

\* An empty list.
LEMMA EmptyIsList ==
    ASSUME NEW l, l.level = 0, l.size = 0,
           l.forward = [n \in Nodes \cup {Sentinel} |->
                          IF n = Sentinel THEN [i \in 0..MaxLevel |-> Null] ELSE <<>>]
    PROVE  IsList(l, {})
<1>1. \A n \in Nodes : l.forward[n] = <<>> /\ DOMAIN l.forward[n] = {}
  BY NamesDiffer
<1>2. l.forward[Sentinel] = [i \in 0..MaxLevel |-> Null]
  OBVIOUS
<1>3. \A i : At(l, i) = {}
  BY <1>1 DEF At
<1>4. 0 \in Heights /\ Cardinality({}) = 0
  BY SortedSetAssumption, FS_EmptySet DEF Heights
<1> QED BY <1>1, <1>2, <1>3, <1>4 DEF IsList, IsNext

(***************************************************************************)
(* delete(): the node leaves the levels of its tower, which are those      *)
(* where the path meets it, and then nothing refers to it any more.        *)
(***************************************************************************)
LEMMA UnlinkedIs ==
    ASSUME NEW l, NEW S, IsList(l, S), NEW key \in S, NEW h \in 0..l.level,
           DOMAIN l.forward[key] = 0..h
    PROVE  Unlinked(l, Descent(l, key), key) = 0..h
<1>1. l.level \in Nat /\ key \in Nodes /\ h \in Nat /\ h <= l.level
  BY DEF IsList, Heights
<1>2. \A i \in 0..l.level : l.forward[Descent(l, key)[i]][i] = key <=> i \in 0..h
  BY <1>1, PathMeets DEF At
<1>3. ASSUME NEW i \in 0..l.level
      PROVE  (\A j \in 0..i : l.forward[Descent(l, key)[j]][j] = key) <=> i \in 0..h
  <2>1. \A j \in 0..i : j \in 0..l.level /\ (i \in 0..h => j \in 0..h)
    BY <1>1
  <2>2. i \in 0..i
    BY <1>1
  <2> QED BY <1>2, <2>1, <2>2
<1>4. 0..h \subseteq 0..l.level
  BY <1>1
<1> QED BY <1>3, <1>4 DEF Unlinked

LEMMA ListDeleteIs ==
    ASSUME NEW l, NEW S, IsList(l, S), NEW key \in S
    PROVE  IsList(ListDelete(l, key), S \ {key})
<1>1. /\ MaxLevel \in Nat /\ l.level \in Heights /\ l.level \in Nat /\ l.level \in 0..MaxLevel
      /\ key \in Nodes /\ DOMAIN l.forward = Nodes \cup {Sentinel}
  BY SortedSetAssumption DEF IsList, Heights
<1>2. PICK h \in 0..l.level : DOMAIN l.forward[key] = 0..h
  BY DEF IsList
<1> DEFINE path == Descent(l, key)
           levels == Unlinked(l, path, key)
           fwd == [n \in DOMAIN l.forward |->
                     [i \in DOMAIN l.forward[n] |->
                        IF i \in levels /\ path[i] = n THEN l.forward[key][i] ELSE l.forward[n][i]]]
           used == {0} \cup {i \in 0..l.level : fwd[Sentinel][i] # Null}
<1>3. path = Descent(l, key)
  OBVIOUS
<1>4. levels = 0..h /\ h \in Nat /\ h \in 0..MaxLevel
  BY <1>1, <1>2, UnlinkedIs
<1>5. fwd = [n \in DOMAIN l.forward |->
               [i \in DOMAIN l.forward[n] |->
                  IF i \in levels /\ path[i] = n THEN l.forward[key][i] ELSE l.forward[n][i]]]
  OBVIOUS
<1>6. PICK l2 : l2 = ListDelete(l, key)
  OBVIOUS
<1>7. /\ l2.forward = Collected(fwd, key) /\ l2.size = l.size - 1
      /\ l2.level = CHOOSE i \in used : \A j \in used : j <= i
  <2>1. ListDelete(l, key) = [forward |-> Collected(fwd, key),
                              level |-> CHOOSE i \in used : \A j \in used : j <= i,
                              size |-> l.size - 1]
    BY <1>1, FoundIs DEF ListDelete
  <2> HIDE DEF fwd, used
  <2> QED BY <1>6, <2>1
<1> HIDE DEF path, levels, fwd
<1>8. key # Sentinel /\ Null # key /\ Sentinel \notin Nodes
  BY <1>1, NamesDiffer
<1>9. ASSUME NEW n \in Nodes \cup {Sentinel}
      PROVE  /\ DOMAIN fwd[n] = DOMAIN l.forward[n]
             /\ \A i \in DOMAIN l.forward[n] :
                  fwd[n][i] = IF i \in 0..h /\ path[i] = n THEN l.forward[key][i]
                                                           ELSE l.forward[n][i]
  BY <1>1, <1>4, <1>5
<1>10. ASSUME NEW n \in Nodes \cup {Sentinel}, n # key, NEW i \in DOMAIN l.forward[n]
       PROVE  IsNext(fwd[n][i], n, At(l, i) \ {key}) /\ i \in 0..MaxLevel
  <2>1. i \in 0..MaxLevel
    <3>1. CASE n = Sentinel
      BY <1>10, <3>1 DEF IsList
    <3>2. CASE n # Sentinel
      <4>1. n \in S
        BY <1>10, <3>2 DEF IsList
      <4>2. PICK g \in 0..l.level : DOMAIN l.forward[n] = 0..g
        BY <4>1 DEF IsList
      <4> QED BY <1>1, <1>10, <4>2
    <3> QED BY <3>1, <3>2
  <2> DEFINE T == At(l, i)
  <2>2. T \subseteq Nodes /\ \A m \in T \cup {Sentinel} : IsNext(l.forward[m][i], m, T)
    BY <2>1, LevelsAre
  <2>3. n \in T \cup {Sentinel} /\ (key \in T <=> i \in 0..h)
    BY <1>1, <1>2, <1>10 DEF At
  <2>4. PICK x : x = l.forward[n][i] /\ IsNext(x, n, T)
    BY <2>2, <2>3
  <2>5. CASE i \in 0..h
    <3>1. i \in 0..l.level
      BY <1>1, <2>5
    <3>2. PICK p : p = path[i] /\ IsLast(p, key, T)
      BY <1>1, <1>3, <3>1, DescentIs
    <3>3. PICK z : z = l.forward[key][i] /\ IsNext(z, key, T)
      BY <2>2, <2>3, <2>5
    <3>4. n # p => IsNext(x, n, T \ {key})
      BY <1>10, <2>2, <2>3, <2>4, <2>5, <3>2, <3>3, LevelLeft
    <3>5. n = p => IsNext(z, n, T \ {key})
      BY <1>10, <2>2, <2>3, <2>4, <2>5, <3>2, <3>3, LevelLeft
    <3> QED BY <1>9, <1>10, <2>1, <2>4, <2>5, <3>2, <3>3, <3>4, <3>5
  <2>6. CASE i \notin 0..h
    <3>1. T \ {key} = T
      BY <2>3, <2>6
    <3> QED BY <1>9, <1>10, <2>1, <2>4, <2>6, <3>1
  <2> QED BY <2>5, <2>6
<1>11. DOMAIN fwd = Nodes \cup {Sentinel}
  BY <1>1, <1>5
<1>12. Collected(fwd, key) = [fwd EXCEPT ![key] = <<>>]
  <2>1. ASSUME NEW n \in DOMAIN fwd \ {key}, NEW i \in DOMAIN fwd[n] PROVE fwd[n][i] # key
    <3>1. n \in Nodes \cup {Sentinel} /\ n # key /\ i \in DOMAIN l.forward[n]
      BY <1>9, <1>11, <2>1
    <3>2. IsNext(fwd[n][i], n, At(l, i) \ {key})
      BY <1>10, <3>1
    <3> QED BY <1>8, <3>2 DEF IsNext
  <2> QED BY <2>1 DEF Collected
<1>13. /\ DOMAIN l2.forward = Nodes \cup {Sentinel} /\ DOMAIN l2.forward[key] = {}
       /\ \A n \in Nodes \cup {Sentinel} : n # key => l2.forward[n] = fwd[n]
  BY <1>1, <1>7, <1>11, <1>12
<1>14. ASSUME NEW i PROVE At(l2, i) = At(l, i) \ {key}
  <2>1. \A n \in Nodes : i \in DOMAIN l2.forward[n] <=> i \in DOMAIN l.forward[n] /\ n # key
    BY <1>9, <1>13
  <2> QED BY <2>1 DEF At
<1>15. ASSUME NEW n \in Nodes \cup {Sentinel}, NEW i \in DOMAIN l2.forward[n]
       PROVE  IsNext(l2.forward[n][i], n, At(l2, i))
  <2>1. n # key /\ i \in DOMAIN l.forward[n] /\ l2.forward[n] = fwd[n]
    BY <1>9, <1>13, <1>15
  <2> QED BY <1>10, <1>14, <2>1
<1>16. /\ l2.level \in 0..l.level
       /\ \A i \in 0..l.level : fwd[Sentinel][i] # Null => i <= l2.level
  <2> DEFINE rest == {l.level - i : i \in used}
  <2>1. used \subseteq 0..l.level /\ 0 \in used
    BY <1>1
  <2>2. \E i \in used : \A j \in used : j <= i
    <3>1. rest \subseteq Nat /\ rest # {}
      BY <1>1, <2>1
    <3>2. PICK r \in rest : \A q \in rest : r <= q
      <4> HIDE DEF rest
      <4> QED BY <3>1, SmallestNumber
    <3>3. PICK i \in used : r = l.level - i
      OBVIOUS
    <3>4. ASSUME NEW j \in used PROVE j <= i
      <4>1. l.level - i <= l.level - j
        BY <3>2, <3>3
      <4>2. i \in Nat /\ j \in Nat
        BY <1>1, <2>1
      <4> QED BY <1>1, <4>1, <4>2
    <3> QED BY <3>4
  <2>3. l2.level \in used /\ \A j \in used : j <= l2.level
    BY <1>7, <2>2
  <2> QED BY <2>1, <2>3
<1>17. l2.level \in Heights /\ l2.level \in Nat
  BY <1>1, <1>16 DEF Heights
<1>18. l2.size = Cardinality(S \ {key})
  <2>1. IsFiniteSet(S) /\ l.size = Cardinality(S) /\ l2.size = l.size - 1
    BY <1>1, <1>7, LevelsAre DEF IsList
  <2> QED BY <2>1, FS_RemoveElement
<1>19. S \ {key} \subseteq Nodes /\ DOMAIN l2.forward[Sentinel] = 0..MaxLevel
  BY <1>8, <1>9, <1>13 DEF IsList
<1>20. ASSUME NEW n \in Nodes \ (S \ {key}) PROVE DOMAIN l2.forward[n] = {}
  BY <1>9, <1>13 DEF IsList
<1>21. ASSUME NEW n \in S \ {key} PROVE \E g \in 0..l2.level : DOMAIN l2.forward[n] = 0..g
  <2>1. PICK g \in 0..l.level : DOMAIN l.forward[n] = 0..g
    BY DEF IsList
  <2>2. n \in Nodes /\ n \in At(l2, g) /\ g \in 0..MaxLevel
    BY <1>1, <1>9, <1>13, <1>19, <2>1 DEF At
  <2>3. g \in DOMAIN l2.forward[Sentinel]
    BY <1>19, <2>2
  <2>4. fwd[Sentinel][g] # Null
    <3>1. IsNext(fwd[Sentinel][g], Sentinel, At(l2, g))
      BY <1>8, <1>13, <1>15, <2>3
    <3>2. After(Sentinel, n)
      BY DEF After
    <3>3. Null \notin At(l2, g)
      BY NamesDiffer DEF At
    <3> QED BY <2>2, <3>1, <3>2, <3>3 DEF IsNext
  <2>5. g \in 0..l2.level
    BY <1>1, <1>16, <1>17, <2>4
  <2> QED BY <1>9, <1>13, <1>19, <2>1, <2>5
<1>22. IsList(l2, S \ {key})
  BY <1>13, <1>15, <1>17, <1>18, <1>19, <1>20, <1>21 DEF IsList
<1> QED BY <1>6, <1>22

(***************************************************************************)
(* A set of nodes has one enumeration in the order of its elements.        *)
(***************************************************************************)
Sorted(r, n, S) ==
    /\ r \in [1..n -> S]
    /\ \A i, j \in 1..n : i < j => Before(r[i], r[j])

LEMMA SortedOnto ==
    ASSUME NEW S, S \subseteq Nodes, NEW r, Sorted(r, Cardinality(S), S), NEW y \in S
    PROVE  \E i \in 1..Cardinality(S) : r[i] = y
<1>1. IsFiniteSet(S)
  BY NodesFinite, FS_Subset
<1>2. PICK n : n = Cardinality(S)
  OBVIOUS
<1>3. n \in Nat
  BY <1>1, <1>2, FS_CardinalityType
<1>4. ASSUME NEW i \in 1..n, NEW j \in 1..n, r[i] = r[j] PROVE i = j
  <2>1. i < j \/ j < i \/ i = j
    BY <1>3
  <2>2. r[i] \in Nodes
    BY <1>2 DEF Sorted
  <2> QED BY <1>2, <1>4, <2>1, <2>2, BeforeOrders DEF Sorted
<1>5. r \in Injection(1..n, S)
  BY <1>2, <1>4 DEF Injection, IsInjective, Sorted
<1>6. Cardinality(1..n) = Cardinality(S)
  BY <1>2, <1>3, FS_Interval
<1>7. r \in Surjection(1..n, S)
  BY <1>1, <1>5, <1>6, FS_Injection
<1> QED BY <1>2, <1>7 DEF Surjection

LEMMA SortedOnce ==
    ASSUME NEW S, S \subseteq Nodes, NEW n, n = Cardinality(S),
           NEW r, Sorted(r, n, S), NEW q, Sorted(q, n, S)
    PROVE  r = q
<1>1. n \in Nat
  BY NodesFinite, FS_Subset, FS_CardinalityType
<1> DEFINE T == {i \in 1..n : r[i] # q[i]}
<1>2. SUFFICES ASSUME T # {} PROVE FALSE
  <2>1. ASSUME T = {} PROVE r = q
    <3>1. r \in [1..n -> S] /\ q \in [1..n -> S]
      BY DEF Sorted
    <3>2. \A i \in 1..n : r[i] = q[i]
      BY <2>1
    <3>3. r = [i \in 1..n |-> r[i]] /\ q = [i \in 1..n |-> q[i]]
      BY <3>1
    <3>4. [i \in 1..n |-> r[i]] = [i \in 1..n |-> q[i]]
      BY <3>2
    <3> QED BY <3>3, <3>4
  <2> QED BY <2>1
<1>3. T \subseteq Nat
  BY <1>1
<1>4. PICK i \in T : \A k \in T : i <= k
  <2> HIDE DEF T
  <2> QED BY <1>2, <1>3, SmallestNumber
<1>5. i \in 1..n /\ r[i] # q[i] /\ r[i] \in S /\ q[i] \in S
  BY <1>4 DEF Sorted
<1>6. \A k \in 1..n : k < i => r[k] = q[k]
  BY <1>1, <1>4
<1>7. ASSUME NEW u, NEW v, Sorted(u, n, S), Sorted(v, n, S), Before(u[i], v[i]),
             \A k \in 1..n : k < i => u[k] = v[k]
      PROVE  FALSE
  <2>1. u[i] \in S /\ u[i] \in Nodes /\ v[i] \in Nodes
    BY <1>5, <1>7 DEF Sorted
  <2>2. PICK j \in 1..n : v[j] = u[i]
    BY <1>7, <2>1, SortedOnto
  <2>3. j < i \/ j = i \/ i < j
    BY <1>1, <1>5
  <2>4. CASE j < i
    <3>1. u[j] = u[i] /\ Before(u[j], u[i])
      BY <1>5, <1>7, <2>2, <2>4 DEF Sorted
    <3> QED BY <2>1, <3>1, BeforeOrders
  <2>5. CASE j = i
    BY <1>7, <2>1, <2>2, <2>5, BeforeOrders
  <2>6. CASE i < j
    <3>1. Before(v[i], u[i])
      BY <1>5, <1>7, <2>2, <2>6 DEF Sorted
    <3> QED BY <1>7, <2>1, <3>1, BeforeOrders
  <2> QED BY <2>3, <2>4, <2>5, <2>6
<1>8. Before(r[i], q[i]) \/ Before(q[i], r[i])
  BY <1>5, BeforeOrders
<1> QED BY <1>6, <1>7, <1>8

LEMMA ToArrayRuns ==
    ASSUME NEW l, l.size \in Nat
    PROVE  \E f : /\ Runs(f, [kind |-> "toArray", list |-> l],
                          [next |-> l.forward[Sentinel][0], result |-> <<>>], l.size)
                  /\ ToArray(l) = f[l.size].result
<1> DEFINE n == l.size
           x == [next |-> l.forward[Sentinel][0], result |-> <<>>]
           loop == [kind |-> "toArray", list |-> l]
           Is(at) == at = [m \in 0..n |->
                 IF m = 0 THEN x
                 ELSE LET from == at[m - 1] IN
                      IF from.next = Null THEN from
                      ELSE [next |-> l.forward[from.next][0],
                            result |-> Append(from.result, from.next)]]
           f == CHOOSE at : Is(at)
<1>1. \A at : Is(at) <=> Rounds(at, loop, x, n)
  BY DEF Round, ListRound, Rounds
<1>2. Is(f)
  BY <1>1, RoundsExist
<1>3. ToArray(l) = f[n].result
  BY DEF ToArray
<1> QED BY <1>1, <1>2, <1>3, RoundsRun

\* toArray() follows the pointers of the lowest level, which pass all nodes in their
\* order: what was passed is what does not come after the last of it.
Ending(r) == IF Len(r) = 0 THEN Sentinel ELSE r[Len(r)]

Passed(S, r) == {y \in S : ~After(Ending(r), y)}

Collects(l, S, next, r) ==
    /\ r \in Seq(S) /\ Sorted(r, Len(r), S)
    /\ next = l.forward[Ending(r)][0]
    /\ Len(r) = Cardinality(Passed(S, r))

LEMMA ToArrayIs ==
    ASSUME NEW l, NEW S, IsList(l, S)
    PROVE  /\ Sorted(ToArray(l), Cardinality(S), S) /\ ToArray(l) \in Seq(S)
           /\ Len(ToArray(l)) = Cardinality(S) /\ l.size = Cardinality(S)
<1> DEFINE loop == [kind |-> "toArray", list |-> l]
           x == [next |-> l.forward[Sentinel][0], result |-> <<>>]
<1>1. PICK n : n = l.size
  OBVIOUS
<1>2. 0 \in 0..MaxLevel
  BY SortedSetAssumption
<1>3. /\ n \in Nat /\ n = Cardinality(S) /\ IsFiniteSet(S) /\ S \subseteq Nodes
      /\ \A y \in S \cup {Sentinel} : IsNext(l.forward[y][0], y, S)
  <2>1. At(l, 0) = S /\ IsFiniteSet(S) /\ S \subseteq Nodes /\ l.size \in Nat
    BY <1>2, LevelsAre
  <2>2. \A y \in At(l, 0) \cup {Sentinel} : IsNext(l.forward[y][0], y, At(l, 0))
    BY <1>2, LevelsAre
  <2>3. l.size = Cardinality(S)
    BY DEF IsList
  <2> QED BY <1>1, <2>1, <2>2, <2>3
<1>4. PICK f : Runs(f, loop, x, n) /\ ToArray(l) = f[n].result
  BY <1>1, <1>3, ToArrayRuns
<1> DEFINE R == {m \in 0..n : Collects(l, S, f[m].next, f[m].result)
                              /\ (f[m].next = Null \/ Len(f[m].result) = m)}
<1>5. 0 \in R
  <2>1. f[0].next = l.forward[Sentinel][0] /\ f[0].result = <<>>
    BY <1>4 DEF Runs
  <2>2. <<>> \in Seq(S) /\ Len(<<>>) = 0 /\ Sorted(<<>>, 0, S)
    BY DEF Sorted
  <2>3. Ending(<<>>) = Sentinel
    BY <2>2 DEF Ending
  <2>4. Passed(S, <<>>) = {} /\ Cardinality({}) = 0
    BY <2>3, FS_EmptySet DEF Passed, After
  <2>5. Collects(l, S, l.forward[Sentinel][0], <<>>)
    BY <2>2, <2>3, <2>4 DEF Collects
  <2> QED BY <1>3, <2>1, <2>2, <2>5
<1>6. ASSUME NEW m \in 0..n, m # 0, (m - 1) \in R PROVE m \in R
  <2>1. PICK next, r : next = f[m - 1].next /\ r = f[m - 1].result
    OBVIOUS
  <2>2. m \in 1..n /\ m - 1 \in Nat
    BY <1>3, <1>6
  <2>3. f[m] = IF next = Null THEN f[m - 1]
               ELSE [next |-> l.forward[next][0], result |-> Append(r, next)]
    <3>1. f[m] = Round(loop, f[m - 1], m)
      BY <1>4, <2>2 DEF Runs
    <3> QED BY <2>1, <3>1 DEF Round, ListRound
  <2>4. Collects(l, S, next, r) /\ (next = Null \/ Len(r) = m - 1)
    BY <1>6, <2>1
  <2>5. CASE next = Null
    BY <1>6, <2>1, <2>3, <2>4, <2>5
  <2>6. CASE next # Null
    <3>1. PICK k, s, e : k = Len(r) /\ s = Append(r, next) /\ e = Ending(r)
      OBVIOUS
    <3>2. k \in Nat /\ k = m - 1 /\ r \in Seq(S) /\ \A i \in 1..k : r[i] \in S
      BY <2>4, <2>6, <3>1 DEF Collects
    <3>3. e \in S \cup {Sentinel} /\ (k # 0 => e = r[k]) /\ (k = 0 => e = Sentinel)
      BY <3>1, <3>2 DEF Ending
    <3>4. IsNext(next, e, S)
      BY <1>3, <2>4, <3>1, <3>3 DEF Collects
    <3>5. next \in S /\ After(e, next) /\ \A y \in S : After(e, y) => y = next \/ Before(next, y)
      BY <2>6, <3>4 DEF IsNext
    <3>6. /\ s \in Seq(S) /\ Len(s) = k + 1 /\ s[k + 1] = next
          /\ \A i \in 1..k : s[i] = r[i]
      <4>1. next \in S /\ r \in Seq(S) /\ Len(r) = k /\ s = Append(r, next)
        BY <3>1, <3>2, <3>5
      <4>2. s \in Seq(S) /\ Len(s) = k + 1
        BY ONLY <4>1
      <4>3. s[k + 1] = next /\ \A i \in 1..k : s[i] = r[i]
        BY ONLY <4>1
      <4> QED BY <4>2, <4>3
    <3>7. Ending(s) = next
      BY <3>2, <3>6 DEF Ending
    <3>8. Sorted(s, k + 1, S)
      <4>1. ASSUME NEW i \in 1..k PROVE Before(r[i], next)
        <5>1. k # 0 /\ e = r[k] /\ e \in Nodes /\ r[i] \in Nodes /\ next \in Nodes
          BY <1>3, <3>2, <3>3, <3>5
        <5>2. Before(e, next)
          BY <3>5, <5>1, AfterOrders, NamesDiffer
        <5>3. i = k \/ Before(r[i], r[k])
          BY <2>4, <3>1, <3>2 DEF Sorted, Collects
        <5> QED BY <5>1, <5>2, <5>3, BeforeOrders
      <4>2. \A i, j \in 1..k : i < j => Before(r[i], r[j])
        BY <2>4, <3>1 DEF Sorted, Collects
      <4>3. ASSUME NEW i \in 1..(k + 1), NEW j \in 1..(k + 1), i < j PROVE Before(s[i], s[j])
        <5>1. i \in 1..k /\ (j = k + 1 \/ j \in 1..k)
          BY <3>2, <4>3
        <5> QED BY <3>6, <4>1, <4>2, <4>3, <5>1
      <4>4. s \in [1..(k + 1) -> S]
        BY <3>2, <3>6
      <4> QED BY <4>3, <4>4 DEF Sorted
    <3>9. Passed(S, s) = Passed(S, r) \cup {next} /\ next \notin Passed(S, r)
      <4>1. ASSUME NEW y \in S PROVE ~After(next, y) <=> ~After(e, y) \/ y = next
        <5>1. y \in Nodes /\ next \in Nodes /\ next # Sentinel /\ e \in Nodes \cup {Sentinel}
          BY <1>3, <3>3, <3>5, NamesDiffer
        <5>2. After(next, y) => After(e, y)
          BY <3>5, <5>1, AfterOrders
        <5>3. After(e, y) => y = next \/ After(next, y)
          BY <3>5 DEF After
        <5>4. ~After(next, next)
          BY <5>1, AfterOrders
        <5> QED BY <5>2, <5>3, <5>4
      <4>2. Passed(S, s) = {y \in S : ~After(next, y)} /\ Passed(S, r) = {y \in S : ~After(e, y)}
        BY <3>1, <3>7 DEF Passed
      <4> QED BY <3>5, <4>1, <4>2
    <3>10. Len(s) = Cardinality(Passed(S, s))
      <4> DEFINE P == Passed(S, r)
      <4>1. P \subseteq S
        BY DEF Passed
      <4>2. Passed(S, s) = P \cup {next} /\ next \notin P /\ Cardinality(P) = k
        BY <2>4, <3>1, <3>9 DEF Collects
      <4> HIDE DEF P
      <4>3. IsFiniteSet(P)
        BY <1>3, <4>1, FS_Subset
      <4>4. Cardinality(P \cup {next}) = k + 1
        BY <4>2, <4>3, FS_AddElement
      <4> QED BY <3>6, <4>2, <4>4
    <3>11. f[m].next = l.forward[next][0] /\ f[m].result = s
      BY <2>3, <2>6, <3>1
    <3>12. Collects(l, S, l.forward[next][0], s)
      BY <3>6, <3>7, <3>8, <3>10 DEF Collects
    <3> QED BY <1>6, <3>2, <3>6, <3>11, <3>12
  <2> QED BY <2>5, <2>6
<1>7. n \in R
  <2> HIDE DEF R
  <2> QED BY <1>3, <1>5, <1>6, UpTo
<1>8. PICK next, r : next = f[n].next /\ r = f[n].result
  OBVIOUS
<1>9. Collects(l, S, next, r) /\ (next = Null \/ Len(r) = n)
  BY <1>7, <1>8
<1>10. Len(r) = n
  <2> SUFFICES ASSUME next = Null PROVE Len(r) = n
    BY <1>9
  <2>1. Ending(r) \in S \cup {Sentinel}
    BY <1>9 DEF Collects, Ending
  <2>2. IsNext(next, Ending(r), S) /\ Null \notin S
    BY <1>3, <1>9, <2>1, NamesDiffer DEF Collects
  <2>3. Passed(S, r) = S
    BY <2>2 DEF IsNext, Passed
  <2> QED BY <1>3, <1>9, <2>3 DEF Collects
<1> QED BY <1>1, <1>3, <1>4, <1>8, <1>9, <1>10 DEF Collects

(***************************************************************************)
(* The list holds the pairs of the map of scores, through every operation. *)
(***************************************************************************)
NodesOf(f) == {<<f[m], m>> : m \in DOMAIN f}

LEMMA NodesOfIn ==
    ASSUME NEW f, NEW s, NEW m
    PROVE  <<s, m>> \in NodesOf(f) <=> m \in DOMAIN f /\ f[m] = s
<1>1. ASSUME <<s, m>> \in NodesOf(f) PROVE m \in DOMAIN f /\ f[m] = s
  <2>1. PICK n \in DOMAIN f : <<s, m>> = <<f[n], n>>
    BY <1>1 DEF NodesOf
  <2> QED BY <2>1
<1>2. ASSUME m \in DOMAIN f, f[m] = s PROVE <<s, m>> \in NodesOf(f)
  BY <1>2 DEF NodesOf
<1> QED BY <1>1, <1>2

\* g is f with the score s for m, and these are the nodes that m has in f.
Scored(g, f, m, s) ==
    /\ DOMAIN g = DOMAIN f \cup {m}
    /\ \A n \in DOMAIN g : g[n] = IF n = m THEN s ELSE f[n]

Replaced(f, m) == IF m \in DOMAIN f THEN {<<f[m], m>>} ELSE {}

LEMMA NodesOfAdded ==
    ASSUME NEW f, NEW m, NEW s, NEW g, Scored(g, f, m, s)
    PROVE  NodesOf(g) = (NodesOf(f) \ Replaced(f, m)) \cup {<<s, m>>}
<1> DEFINE old == Replaced(f, m)
<1> USE DEF Scored, Replaced
<1>1. ASSUME NEW y \in NodesOf(g) PROVE y \in (NodesOf(f) \ old) \cup {<<s, m>>}
  <2>1. PICK n \in DOMAIN g : y = <<g[n], n>>
    BY DEF NodesOf
  <2>2. CASE n = m
    BY <2>1, <2>2
  <2>3. CASE n # m
    <3>1. n \in DOMAIN f /\ y = <<f[n], n>>
      BY <2>1, <2>3
    <3>2. y \in NodesOf(f) /\ y # <<f[m], m>>
      BY <2>3, <3>1 DEF NodesOf
    <3> QED BY <3>2
  <2> QED BY <2>2, <2>3
<1>2. ASSUME NEW y \in (NodesOf(f) \ old) \cup {<<s, m>>} PROVE y \in NodesOf(g)
  <2>1. CASE y = <<s, m>>
    <3>1. m \in DOMAIN g /\ g[m] = s
      OBVIOUS
    <3> QED BY <2>1, <3>1, NodesOfIn
  <2>2. CASE y # <<s, m>>
    <3>1. PICK n \in DOMAIN f : y = <<f[n], n>>
      BY <1>2, <2>2 DEF NodesOf
    <3>2. n # m
      BY <1>2, <2>2, <3>1
    <3>3. n \in DOMAIN g /\ g[n] = f[n]
      BY <3>2
    <3> QED BY <3>1, <3>3, NodesOfIn
  <2> QED BY <2>1, <2>2
<1> QED BY <1>1, <1>2

LEMMA NodesOfRemoved ==
    ASSUME NEW f, NEW m \in DOMAIN f, NEW g, DOMAIN g = DOMAIN f \ {m},
           \A n \in DOMAIN g : g[n] = f[n]
    PROVE  NodesOf(g) = NodesOf(f) \ {<<f[m], m>>}
<1>1. ASSUME NEW y \in NodesOf(g) PROVE y \in NodesOf(f) \ {<<f[m], m>>}
  <2>1. PICK n \in DOMAIN g : y = <<g[n], n>>
    BY DEF NodesOf
  <2>2. n \in DOMAIN f /\ n # m /\ y = <<f[n], n>>
    BY <2>1
  <2> QED BY <2>2, NodesOfIn
<1>2. ASSUME NEW y \in NodesOf(f) \ {<<f[m], m>>} PROVE y \in NodesOf(g)
  <2>1. PICK n \in DOMAIN f : y = <<f[n], n>>
    BY DEF NodesOf
  <2>2. n \in DOMAIN g /\ y = <<g[n], n>>
    BY <1>2, <2>1
  <2> QED BY <2>2, NodesOfIn
<1> QED BY <1>1, <1>2

\* A list is what its three fields are.
LEMMA FieldsOfList ==
    ASSUME NEW l, NEW S, IsList(l, S),
           NEW k, k.forward = l.forward, k.level = l.level, k.size = l.size
    PROVE  IsList(k, S)
<1>1. \A i : At(k, i) = At(l, i)
  BY DEF At
<1> QED BY <1>1 DEF IsList

LEMMA BecomesList ==
    ASSUME NEW l, NEW S, IsList(l, S), Becomes(l)
    PROVE  IsList(List', S)
<1>1. PICK k : k = List'
  OBVIOUS
<1>2. k.forward = l.forward /\ k.level = l.level /\ k.size = l.size
  BY <1>1 DEF List, Becomes
<1>3. IsList(k, S)
  BY <1>2, FieldsOfList
<1> QED BY <1>1, <1>3

ScoresTyped ==
    DOMAIN scoreMap \subseteq Members /\ \A m \in DOMAIN scoreMap : scoreMap[m] \in Scores

ZsetInv == ScoresTyped /\ IsList(List, NodesOf(scoreMap))

LEMMA InitZsetHolds == InitZset => ZsetInv
<1> SUFFICES ASSUME InitZset PROVE ZsetInv
  OBVIOUS
<1>1. DOMAIN scoreMap = {}
  BY DEF InitZset
<1>2. NodesOf(scoreMap) = {}
  BY <1>1 DEF NodesOf
<1>3. PICK l : l = List
  OBVIOUS
<1>4. /\ l.level = 0 /\ l.size = 0
      /\ l.forward = [n \in Nodes \cup {Sentinel} |->
                        IF n = Sentinel THEN [i \in 0..MaxLevel |-> Null] ELSE <<>>]
  BY <1>3 DEF InitZset, List
<1>5. IsList(l, {})
  BY <1>4, EmptyIsList
<1> QED BY <1>1, <1>2, <1>3, <1>5 DEF ZsetInv, ScoresTyped

LEMMA ZAddHolds ==
    ASSUME ZsetInv, NEW m \in Members, NEW score \in Scores, ZAdd(m, score)
    PROVE  ZsetInv'
<1>1. PICK f, g, l, old : /\ f = scoreMap /\ g = scoreMap' /\ l = List
                          /\ old = Replaced(f, m)
  OBVIOUS
<1>2. IsList(l, NodesOf(f)) /\ DOMAIN f \subseteq Members /\ \A n \in DOMAIN f : f[n] \in Scores
  BY <1>1 DEF ZsetInv, ScoresTyped
<1>3. PICK without : without = IF m \in DOMAIN f THEN ListDelete(l, <<f[m], m>>) ELSE l
  OBVIOUS
<1>4. IsList(without, NodesOf(f) \ old)
  <2>1. CASE m \in DOMAIN f
    <3>1. <<f[m], m>> \in NodesOf(f)
      BY <2>1, NodesOfIn
    <3>2. IsList(ListDelete(l, <<f[m], m>>), NodesOf(f) \ {<<f[m], m>>})
      BY <1>2, <3>1, ListDeleteIs
    <3> QED BY <1>1, <1>3, <2>1, <3>2 DEF Replaced
  <2>2. CASE m \notin DOMAIN f
    <3>1. old = {} /\ NodesOf(f) \ old = NodesOf(f)
      BY <1>1, <2>2 DEF Replaced
    <3> QED BY <1>2, <1>3, <2>2, <3>1
  <2> QED BY <2>1, <2>2
<1>5. PICK height \in Heights : Becomes(ListSet(without, <<score, m>>, height))
  BY <1>1, <1>3 DEF ZAdd
<1>6. <<score, m>> \in Nodes
  BY DEF Nodes
<1>7. IsList(ListSet(without, <<score, m>>, height), (NodesOf(f) \ old) \cup {<<score, m>>})
  BY <1>4, <1>6, ListSetIs
<1>8. IsList(List', (NodesOf(f) \ old) \cup {<<score, m>>})
  BY <1>5, <1>7, BecomesList
<1>9. DOMAIN g = DOMAIN f \cup {m} /\ \A n \in DOMAIN g : g[n] = IF n = m THEN score ELSE f[n]
  <2>1. g = [n \in DOMAIN f \cup {m} |-> IF n = m THEN score ELSE f[n]]
    BY <1>1 DEF ZAdd
  <2> QED BY <2>1
<1>10. NodesOf(g) = (NodesOf(f) \ old) \cup {<<score, m>>}
  <2>1. Scored(g, f, m, score)
    BY <1>9 DEF Scored
  <2> QED BY <1>1, <2>1, NodesOfAdded
<1>11. ASSUME NEW n \in DOMAIN g PROVE n \in Members /\ g[n] \in Scores
  <2>1. CASE n = m
    BY <1>9, <2>1
  <2>2. CASE n # m
    <3>1. n \in DOMAIN f /\ g[n] = f[n]
      BY <1>9, <2>2
    <3> QED BY <1>2, <3>1
  <2> QED BY <2>1, <2>2
<1> QED BY <1>1, <1>8, <1>10, <1>11 DEF ZsetInv, ScoresTyped

LEMMA ZRemHolds ==
    ASSUME ZsetInv, NEW m \in Members, ZRem(m)
    PROVE  ZsetInv'
<1>1. PICK f, g, l : f = scoreMap /\ g = scoreMap' /\ l = List
  OBVIOUS
<1>2. IsList(l, NodesOf(f)) /\ DOMAIN f \subseteq Members /\ \A n \in DOMAIN f : f[n] \in Scores
  BY <1>1 DEF ZsetInv, ScoresTyped
<1>3. m \in DOMAIN f /\ Becomes(ListDelete(l, <<f[m], m>>))
  BY <1>1 DEF ZRem
<1>4. <<f[m], m>> \in NodesOf(f)
  BY <1>3, NodesOfIn
<1>5. IsList(List', NodesOf(f) \ {<<f[m], m>>})
  BY <1>2, <1>3, <1>4, ListDeleteIs, BecomesList
<1>6. DOMAIN g = DOMAIN f \ {m} /\ \A n \in DOMAIN g : g[n] = f[n]
  BY <1>1 DEF ZRem, Restrict
<1>7. NodesOf(g) = NodesOf(f) \ {<<f[m], m>>}
  BY <1>3, <1>6, NodesOfRemoved
<1> QED BY <1>1, <1>2, <1>5, <1>6, <1>7 DEF ZsetInv, ScoresTyped

LEMMA ImportedRuns ==
    ASSUME NEW exported, NEW heights, Len(exported) \in Nat
    PROVE  \E f : /\ Runs(f, [kind |-> "import", exported |-> exported, heights |-> heights],
                          EmptyList, Len(exported))
                  /\ Imported(exported, heights) = f[Len(exported)]
<1> DEFINE n == Len(exported)
           loop == [kind |-> "import", exported |-> exported, heights |-> heights]
           Is(l) == l = [m \in 0..n |->
                 IF m = 0 THEN EmptyList ELSE ListSet(l[m - 1], exported[m], heights[m])]
           f == CHOOSE l : Is(l)
<1>1. \A l : Is(l) <=> Rounds(l, loop, EmptyList, n)
  BY DEF Round, ListRound, Rounds
<1>2. Is(f)
  BY <1>1, RoundsExist
<1>3. Imported(exported, heights) = f[n]
  BY DEF Imported
<1> QED BY <1>1, <1>2, <1>3, RoundsRun

\* import() sets what the array has, one by one.
LEMMA ImportedIs ==
    ASSUME DOMAIN forward = Nodes \cup {Sentinel},
           NEW exported \in Seq(Nodes), NEW heights \in [1..Len(exported) -> Heights]
    PROVE  IsList(Imported(exported, heights), {exported[i] : i \in 1..Len(exported)})
<1> DEFINE loop == [kind |-> "import", exported |-> exported, heights |-> heights]
           Of(m) == {exported[i] : i \in 1..m}
<1>1. PICK n, empty : n = Len(exported) /\ empty = EmptyList
  OBVIOUS
<1>2. n \in Nat
  BY <1>1
<1>3. PICK f : Runs(f, loop, empty, n) /\ Imported(exported, heights) = f[n]
  BY <1>1, <1>2, ImportedRuns
<1> DEFINE R == {m \in 0..n : IsList(f[m], Of(m))}
<1>4. 0 \in R
  <2>1. empty.level = 0 /\ empty.size = 0
    BY <1>1 DEF EmptyList
  <2>2. empty.forward = [x \in Nodes \cup {Sentinel} |->
                          IF x = Sentinel THEN [i \in 0..MaxLevel |-> Null] ELSE <<>>]
    BY <1>1 DEF EmptyList
  <2>3. IsList(empty, {})
    BY <2>1, <2>2, EmptyIsList
  <2>4. Of(0) = {}
    OBVIOUS
  <2>5. f[0] = empty
    BY <1>3 DEF Runs
  <2>6. IsList(f[0], Of(0))
    BY <2>3, <2>4, <2>5
  <2> QED BY <1>2, <2>6
<1>5. ASSUME NEW m \in 0..n, m # 0, (m - 1) \in R PROVE m \in R
  <2>1. PICK l : l = f[m - 1] /\ IsList(l, Of(m - 1))
    BY <1>5
  <2>2. m \in 1..n /\ m \in 1..m
    BY <1>2, <1>5
  <2>3. f[m] = ListSet(l, exported[m], heights[m])
    <3>1. f[m] = Round(loop, f[m - 1], m)
      BY <1>3, <2>2 DEF Runs
    <3> QED BY <2>1, <3>1 DEF Round, ListRound
  <2>4. exported[m] \in Nodes /\ heights[m] \in Heights
    BY <1>1, <2>2
  <2>5. IsList(f[m], Of(m - 1) \cup {exported[m]})
    BY <2>1, <2>3, <2>4, ListSetIs
  <2>6. Of(m) = Of(m - 1) \cup {exported[m]}
    <3>1. \A i : i \in 1..m <=> i \in 1..(m - 1) \/ i = m
      BY <2>2
    <3> QED BY <3>1
  <2> QED BY <1>5, <2>5, <2>6
<1>6. n \in R
  <2> HIDE DEF R
  <2> QED BY <1>2, <1>4, <1>5, UpTo
<1> QED BY <1>1, <1>3, <1>6

\* The greatest of a non-empty set of numbers up to n.
LEMMA MaxIs ==
    ASSUME NEW n \in Nat, NEW T, T \subseteq 0..n, T # {}
    PROVE  Max(T) \in T /\ \A x \in T : x <= Max(T)
<1> DEFINE rest == {n - x : x \in T}
<1>1. rest \subseteq Nat /\ rest # {}
  <2>1. ASSUME NEW x \in T PROVE n - x \in Nat
    <3>1. x \in 0..n
      OBVIOUS
    <3> QED BY <3>1
  <2>2. PICK x \in T : TRUE
    OBVIOUS
  <2> QED BY <2>1, <2>2
<1>2. PICK r \in rest : \A q \in rest : r <= q
  <2> HIDE DEF rest
  <2> QED BY <1>1, SmallestNumber
<1>3. PICK x \in T : r = n - x
  OBVIOUS
<1>4. ASSUME NEW y \in T PROVE x >= y
  <2>1. n - x <= n - y
    BY <1>2, <1>3
  <2> QED BY <2>1
<1>5. Max(T) \in T /\ \A y \in T : Max(T) >= y
  BY <1>4 DEF Max
<1> QED BY <1>5

LEMMA MinIs ==
    ASSUME NEW T, T \subseteq Nat, T # {}
    PROVE  Min(T) \in T /\ \A x \in T : Min(T) <= x
BY SmallestNumber DEF Min

\* A sorted set in order: its one enumeration is what toArray() answers.
LEMMA NodesOfAre == ScoresTyped => NodesOf(scoreMap) \subseteq Nodes
BY DEF ScoresTyped, NodesOf, Nodes

LEMMA ReloadHolds ==
    ASSUME ZsetInv, Reload
    PROVE  ZsetInv'
<1>1. PICK f, g, S, a, n : /\ f = scoreMap /\ g = scoreMap' /\ S = NodesOf(f)
                           /\ a = ToArray(List) /\ n = Cardinality(S)
  OBVIOUS
<1>2. IsList(List, S) /\ S \subseteq Nodes /\ DOMAIN forward = Nodes \cup {Sentinel}
  BY <1>1, NodesOfAre DEF ZsetInv, IsList, List
<1>3. Sorted(a, n, S) /\ a \in Seq(S) /\ Len(a) = n /\ n \in Nat
  BY <1>1, <1>2, ToArrayIs
<1>4. a \in Seq(Nodes)
  BY <1>2, <1>3
<1>5. PICK heights \in [1..n -> Heights] : Becomes(Imported(a, heights))
  BY <1>1, <1>3 DEF Reload
<1>6. {a[i] : i \in 1..n} = S
  <2>1. \A i \in 1..n : a[i] \in S
    BY <1>3
  <2>2. \A y \in S : \E i \in 1..n : a[i] = y
    BY <1>1, <1>2, <1>3, SortedOnto
  <2> QED BY <2>1, <2>2
<1>7. IsList(List', S)
  <2>1. IsList(Imported(a, heights), S)
    BY <1>2, <1>3, <1>4, <1>5, <1>6, ImportedIs
  <2> QED BY <1>5, <2>1, BecomesList
<1>8. ASSUME NEW i \in 1..n PROVE a[i][2] \in DOMAIN f /\ a[i] = <<f[a[i][2]], a[i][2]>>
  <2>1. a[i] \in NodesOf(f)
    BY <1>1, <1>3
  <2>2. PICK m \in DOMAIN f : a[i] = <<f[m], m>>
    BY <2>1 DEF NodesOf
  <2> QED BY <2>2
<1>9. ASSUME NEW m \in DOMAIN f PROVE \E i \in 1..n : a[i][2] = m
  <2>1. <<f[m], m>> \in S
    BY <1>1, NodesOfIn
  <2>2. PICK i \in 1..n : a[i] = <<f[m], m>>
    BY <1>6, <2>1
  <2> QED BY <2>2
<1>10. DOMAIN a = 1..n
  BY <1>3
<1>11. g = [m \in {a[i][2] : i \in 1..n} |-> a[Max({i \in 1..n : a[i][2] = m})][1]]
  BY <1>1, <1>10 DEF Reload
<1>12. DOMAIN g = DOMAIN f
  <2>1. {a[i][2] : i \in 1..n} = DOMAIN f
    BY <1>8, <1>9
  <2> QED BY <1>11, <2>1
<1>13. ASSUME NEW m \in DOMAIN f PROVE g[m] = f[m]
  <2> DEFINE T == {i \in 1..n : a[i][2] = m}
  <2>1. T \subseteq 0..n /\ T # {}
    BY <1>3, <1>9
  <2>2. Max(T) \in T
    <3> HIDE DEF T
    <3> QED BY <1>3, <2>1, MaxIs
  <2>3. PICK i : i = Max(T)
    OBVIOUS
  <2>4. i \in 1..n /\ a[i][2] = m
    BY <2>2, <2>3
  <2>5. g[m] = a[i][1]
    BY <1>11, <1>12, <2>3
  <2> QED BY <1>8, <2>4, <2>5
<1>14. NodesOf(g) = NodesOf(f)
  BY <1>12, <1>13 DEF NodesOf
<1>15. DOMAIN f \subseteq Members /\ \A m \in DOMAIN f : f[m] \in Scores
  BY <1>1 DEF ZsetInv, ScoresTyped
<1> QED BY <1>1, <1>7, <1>12, <1>13, <1>14, <1>15 DEF ZsetInv, ScoresTyped

LEMMA NextZsetHolds ==
    ASSUME ZsetInv, [NextZset]_zsetVars
    PROVE  ZsetInv'
<1>1. ASSUME NEW m \in Members, ZRem(m) PROVE ZsetInv'
  BY <1>1, ZRemHolds
<1>2. ASSUME NEW m \in Members, NEW score \in Scores, ZAdd(m, score) PROVE ZsetInv'
  BY <1>2, ZAddHolds
<1>3. ASSUME NEW m \in Members, NEW delta \in Deltas, ZIncrBy(m, delta) PROVE ZsetInv'
  BY <1>3, ZAddHolds DEF ZIncrBy
<1>4. CASE Reload
  BY <1>4, ReloadHolds
<1>5. CASE UNCHANGED zsetVars
  BY <1>5 DEF zsetVars, ZsetInv, ScoresTyped, List
<1> QED BY <1>1, <1>2, <1>3, <1>4, <1>5 DEF NextZset

(***************************************************************************)
(* The answers.                                                            *)
(***************************************************************************)
LEMMA RankedIs ==
    ASSUME ZsetInv
    PROVE  /\ Sorted(Ranked, Cardinality(Present), Present) /\ Present \subseteq Nodes
           /\ Ranked \in Seq(Nodes) /\ Ranked = ToArray(List)
           /\ Len(Ranked) = Cardinality(Present) /\ size = Cardinality(Present)
           /\ Present = NodesOf(scoreMap)
<1>1. PICK S, n, a : S = Present /\ n = Cardinality(S) /\ a = ToArray(List)
  OBVIOUS
<1>2. S = NodesOf(scoreMap) /\ S \subseteq Nodes /\ IsList(List, S)
  BY <1>1, NodesOfAre DEF ZsetInv, Present, NodesOf
<1>3. Sorted(a, n, S) /\ a \in Seq(S) /\ Len(a) = n /\ size = n
  <2>1. List.size = size
    BY DEF List
  <2> QED BY <1>1, <1>2, <2>1, ToArrayIs
<1>4. Ranked = CHOOSE r \in [1..n -> S] : \A i, j \in 1..n : i < j => Before(r[i], r[j])
  BY <1>1 DEF Ranked
<1>5. Sorted(Ranked, n, S)
  BY <1>3, <1>4 DEF Sorted
<1>6. Ranked = a
  BY <1>1, <1>2, <1>3, <1>5, SortedOnce
<1>7. Ranked \in Seq(Nodes) /\ Len(Ranked) = n
  BY <1>2, <1>3, <1>6
<1> QED BY <1>1, <1>2, <1>3, <1>5, <1>6, <1>7, Zenon

LEMMA OfTwo ==
    ASSUME NEW a \in Int, NEW b \in Int
    PROVE  /\ Max({a, b}) = IF a >= b THEN a ELSE b
           /\ Min({a, b}) = IF a <= b THEN a ELSE b
<1>1. Max({a, b}) \in {a, b} /\ Max({a, b}) >= a /\ Max({a, b}) >= b
  <2>1. \E x \in {a, b} : \A y \in {a, b} : x >= y
    OBVIOUS
  <2> QED BY <2>1 DEF Max
<1>2. Min({a, b}) \in {a, b} /\ Min({a, b}) <= a /\ Min({a, b}) <= b
  <2>1. \E x \in {a, b} : \A y \in {a, b} : x <= y
    OBVIOUS
  <2> QED BY <2>1 DEF Min
<1> QED BY <1>1, <1>2

LEMMA NothingOf ==
    ASSUME NEW r \in Seq(Nodes), NEW a \in Int, NEW b \in Int, b < a
    PROVE  SubSeq(r, a, b) = <<>>
OBVIOUS

\* The bounds of Slice, for a sequence of length n.
FirstRank(start, n) == IF start < 0 THEN (IF n + start < 0 THEN 0 ELSE n + start) ELSE start
LastRank(stop, n) == IF stop < 0 THEN n + stop ELSE IF stop <= n - 1 THEN stop ELSE n - 1

LEMMA SliceIs ==
    ASSUME NEW r \in Seq(Nodes), NEW start \in Int, NEW stop \in Int,
           NEW n, n = Len(r),
           NEW a, a = FirstRank(start, n), NEW b, b = LastRank(stop, n)
    PROVE  Slice(r, start, stop) = SubSeq(r, a + 1, b + 1) /\ a \in Nat /\ b \in Int
<1>1. /\ n \in Nat
      /\ a = IF start < 0 THEN (IF n + start < 0 THEN 0 ELSE n + start) ELSE start
      /\ b = IF stop < 0 THEN n + stop ELSE IF stop <= n - 1 THEN stop ELSE n - 1
  BY DEF FirstRank, LastRank
<1>2. Max({0, IF start < 0 THEN n + start ELSE start}) = a
  <2> DEFINE x == IF start < 0 THEN n + start ELSE start
  <2>1. x \in Int
    BY <1>1
  <2>2. Max({0, x}) = IF 0 >= x THEN 0 ELSE x
    <3> HIDE DEF x
    <3> QED BY <2>1, OfTwo
  <2> QED BY <1>1, <2>2
<1>3. Min({n - 1, IF stop < 0 THEN n + stop ELSE stop}) = b
  <2> DEFINE x == IF stop < 0 THEN n + stop ELSE stop
  <2>1. x \in Int /\ n - 1 \in Int
    BY <1>1
  <2>2. Min({n - 1, x}) = IF n - 1 <= x THEN n - 1 ELSE x
    <3> HIDE DEF x
    <3> QED BY <2>1, OfTwo
  <2> QED BY <1>1, <2>2
<1>4. Slice(r, start, stop) = SubSeq(r, a + 1, b + 1)
  BY <1>2, <1>3 DEF Slice
<1> QED BY <1>1, <1>4

LEMMA ZRangeIs ==
    ASSUME NEW r \in Seq(Nodes), ToArray(List) = r, size = Len(r),
           NEW start \in Int, NEW stop \in Int
    PROVE  ZRange(start, stop) = Slice(r, start, stop)
<1>1. PICK n : n = Len(r) /\ n \in Nat
  OBVIOUS
<1>2. PICK a, b : a = FirstRank(start, n) /\ b = LastRank(stop, n)
  OBVIOUS
<1>3. /\ Slice(r, start, stop) = SubSeq(r, a + 1, b + 1) /\ a \in Nat /\ b \in Int
      /\ a = IF start < 0 THEN (IF n + start < 0 THEN 0 ELSE n + start) ELSE start
      /\ b = IF stop < 0 THEN n + stop ELSE IF stop <= n - 1 THEN stop ELSE n - 1
  <2>1. Slice(r, start, stop) = SubSeq(r, a + 1, b + 1) /\ a \in Nat /\ b \in Int
    BY <1>1, <1>2, SliceIs
  <2> QED BY <1>2, <2>1 DEF FirstRank, LastRank
<1>4. PICK s, e : /\ s = IF start >= 0 THEN start ELSE IF n + start < 0 THEN 0 ELSE n + start
                  /\ e = IF stop < 0 THEN n + stop ELSE stop
  OBVIOUS
<1>5. ZRange(start, stop) = IF n = 0 \/ s > e \/ s >= n THEN <<>>
                            ELSE SubSeq(r, s + 1, (IF e < n - 1 THEN e ELSE n - 1) + 1)
  BY <1>1, <1>4 DEF ZRange
<1>6. CASE n = 0 \/ s > e \/ s >= n
  <2>1. b + 1 < a + 1 /\ a + 1 \in Int /\ b + 1 \in Int
    BY <1>1, <1>3, <1>4, <1>6
  <2>2. SubSeq(r, a + 1, b + 1) = <<>>
    BY <2>1, NothingOf
  <2>3. ZRange(start, stop) = <<>>
    BY <1>5, <1>6
  <2> QED BY <1>3, <2>2, <2>3
<1>7. CASE ~(n = 0 \/ s > e \/ s >= n)
  <2>1. a = s /\ b = IF e < n - 1 THEN e ELSE n - 1
    BY <1>1, <1>3, <1>4, <1>7
  <2> QED BY <1>3, <1>5, <1>7, <2>1
<1> QED BY <1>6, <1>7

LEMMA ZRevRangeIs ==
    ASSUME NEW r \in Seq(Nodes), ToArray(List) = r,
           NEW start \in Int, NEW stop \in Int
    PROVE  ZRevRange(start, stop) = Slice(Reverse(r), start, stop)
<1>1. PICK n, q : n = Len(r) /\ n \in Nat /\ q = Reverse(r)
  OBVIOUS
<1>2. q \in Seq(Nodes) /\ Len(q) = n
  <2>1. \A i \in 1..n : (n - i) + 1 \in 1..n
    BY <1>1
  <2>2. q = [i \in 1..n |-> r[(n - i) + 1]]
    BY <1>1 DEF Reverse
  <2>3. \A i \in 1..n : r[(n - i) + 1] \in Nodes
    BY <1>1, <2>1
  <2> QED BY <1>1, <2>2, <2>3
<1>3. PICK a, b : a = FirstRank(start, n) /\ b = LastRank(stop, n)
  OBVIOUS
<1>4. /\ Slice(q, start, stop) = SubSeq(q, a + 1, b + 1) /\ a \in Nat /\ b \in Int
      /\ a = IF start < 0 THEN (IF n + start < 0 THEN 0 ELSE n + start) ELSE start
      /\ b = IF stop < 0 THEN n + stop ELSE IF stop <= n - 1 THEN stop ELSE n - 1
  <2>1. q \in Seq(Nodes) /\ n = Len(q)
    BY <1>2
  <2>2. Slice(q, start, stop) = SubSeq(q, a + 1, b + 1) /\ a \in Nat /\ b \in Int
    BY <1>3, <2>1, SliceIs
  <2> QED BY <1>3, <2>2 DEF FirstRank, LastRank
<1>5. PICK s, e : /\ s = IF start >= 0 THEN (IF start < n THEN start ELSE n)
                         ELSE IF n + start < 0 THEN 0 ELSE n + start
                  /\ e = IF stop < 0 THEN n + stop ELSE IF stop < n - 1 THEN stop ELSE n - 1
  OBVIOUS
<1>6. ZRevRange(start, stop) = IF s > e \/ n = 0 THEN <<>> ELSE SubSeq(q, s + 1, e + 1)
  BY <1>1, <1>2, <1>5 DEF ZRevRange
<1>7. b = e /\ (a = s \/ (s = n /\ a > n))
  BY <1>1, <1>4, <1>5
<1>8. CASE s > e \/ n = 0
  <2>1. b + 1 < a + 1 /\ a + 1 \in Int /\ b + 1 \in Int
    BY <1>1, <1>4, <1>5, <1>7, <1>8
  <2>2. SubSeq(q, a + 1, b + 1) = <<>>
    BY <1>2, <2>1, NothingOf
  <2>3. ZRevRange(start, stop) = <<>>
    BY <1>6, <1>8
  <2> QED BY <1>1, <1>4, <2>2, <2>3
<1>9. CASE ~(s > e \/ n = 0)
  <2>1. a = s
    BY <1>1, <1>4, <1>5, <1>7, <1>9
  <2> QED BY <1>1, <1>4, <1>6, <1>7, <1>9, <2>1
<1> QED BY <1>8, <1>9

LEMMA ZRankIs ==
    ASSUME ZsetInv, NEW m \in DOMAIN scoreMap
    PROVE  ZRank(m) \in 0..(Len(Ranked) - 1) /\ Ranked[ZRank(m) + 1][2] = m
<1>1. PICK r, n, y : r = Ranked /\ n = Len(r) /\ y = <<scoreMap[m], m>>
  OBVIOUS
<1>2. r \in Seq(Nodes) /\ n \in Nat /\ r = ToArray(List) /\ DOMAIN r = 1..n
  BY <1>1, RankedIs
<1>3. \E i \in 1..n : r[i] = y
  <2>1. y \in NodesOf(scoreMap)
    BY <1>1, NodesOfIn
  <2> QED BY <1>1, <2>1, RankedIs, SortedOnto
<1> DEFINE places == {i \in 1..n : r[i] = y}
<1>4. Min(places) \in places
  <2>1. places \subseteq Nat /\ places # {}
    BY <1>2, <1>3
  <2> HIDE DEF places
  <2> QED BY <2>1, MinIs
<1>5. PICK i : i = Min(places)
  OBVIOUS
<1>6. i \in 1..n /\ r[i] = y
  BY <1>4, <1>5
<1>7. ZRank(m) = i - 1
  BY <1>1, <1>2, <1>3, <1>5 DEF ZRank
<1> QED BY <1>1, <1>2, <1>6, <1>7

LEMMA ChosenRuns ==
    ASSUME NEW r, NEW P, Len(r) \in Nat
    PROVE  \E f : /\ Runs(f, [kind |-> "choose", seq |-> r, set |-> P], <<>>, Len(r))
                  /\ Chosen(r, P) = f[Len(r)]
<1> DEFINE n == Len(r)
           loop == [kind |-> "choose", seq |-> r, set |-> P]
           Is(c) == c = [m \in 0..n |->
                 IF m = 0 THEN <<>>
                 ELSE IF r[m] \in P THEN Append(c[m - 1], r[m]) ELSE c[m - 1]]
           f == CHOOSE c : Is(c)
<1>1. \A c : Is(c) <=> Rounds(c, loop, <<>>, n)
  BY DEF Round, ListRound, Rounds
<1>2. Is(f)
  BY <1>1, RoundsExist
<1>3. Chosen(r, P) = f[n]
  BY DEF Chosen
<1> QED BY <1>1, <1>2, <1>3, RoundsRun

LEMMA ChoosesNext ==
    ASSUME NEW r, NEW P, NEW n \in Nat, NEW m \in 1..n, NEW f,
           Runs(f, [kind |-> "choose", seq |-> r, set |-> P], <<>>, n)
    PROVE  /\ f[0] = <<>>
           /\ f[m] = IF r[m] \in P THEN Append(f[m - 1], r[m]) ELSE f[m - 1]
<1> DEFINE loop == [kind |-> "choose", seq |-> r, set |-> P]
<1>1. f[m] = Round(loop, f[m - 1], m)
  BY DEF Runs
<1> QED BY <1>1 DEF Runs, Round, ListRound

\* What is chosen of a prefix, if nothing is behind it.
LEMMA ChosenOfPrefix ==
    ASSUME NEW r \in Seq(Nodes), NEW n, n = Len(r), NEW k \in 0..n, NEW P, NEW Q,
           \A i \in 1..k : r[i] \in P <=> r[i] \in Q,
           \A i \in 1..n : i > k => r[i] \notin Q
    PROVE  Chosen(SubSeq(r, 1, k), P) = Chosen(r, Q)
<1>1. n \in Nat /\ k \in Nat
  OBVIOUS
<1>2. PICK q : q = SubSeq(r, 1, k)
  OBVIOUS
<1>3. Len(q) = k /\ \A i \in 1..k : q[i] = r[i]
  BY <1>1, <1>2
<1>4. PICK f : Runs(f, [kind |-> "choose", seq |-> q, set |-> P], <<>>, k) /\ Chosen(q, P) = f[k]
  BY <1>1, <1>3, ChosenRuns
<1>5. PICK g : Runs(g, [kind |-> "choose", seq |-> r, set |-> Q], <<>>, n) /\ Chosen(r, Q) = g[n]
  BY <1>1, ChosenRuns
<1> DEFINE R == {m \in 0..n : g[m] = IF m <= k THEN f[m] ELSE f[k]}
<1>6. 0 \in R
  BY <1>1, <1>4, <1>5 DEF Runs
<1>7. ASSUME NEW m \in 0..n, m # 0, (m - 1) \in R PROVE m \in R
  <2>1. m \in 1..n
    BY <1>1, <1>7
  <2>2. g[m] = IF r[m] \in Q THEN Append(g[m - 1], r[m]) ELSE g[m - 1]
    BY <1>1, <1>5, <2>1, ChoosesNext
  <2>3. CASE m <= k
    <3>1. m \in 1..k /\ m - 1 <= k
      BY <1>1, <2>1, <2>3
    <3>2. f[m] = IF q[m] \in P THEN Append(f[m - 1], q[m]) ELSE f[m - 1]
      BY <1>1, <1>4, <3>1, ChoosesNext
    <3>3. g[m - 1] = f[m - 1]
      BY <1>7, <3>1
    <3>4. g[m] = f[m]
      BY <1>3, <2>2, <3>1, <3>2, <3>3
    <3> QED BY <2>3, <3>4
  <2>4. CASE m > k
    <3>1. r[m] \notin Q
      BY <2>1, <2>4
    <3>2. g[m - 1] = f[k]
      <4>1. m - 1 <= k => m - 1 = k
        BY <1>1, <2>1, <2>4
      <4> QED BY <1>7, <4>1
    <3> QED BY <1>1, <2>1, <2>2, <2>4, <3>1, <3>2
  <2> QED BY <1>1, <2>1, <2>3, <2>4
<1>8. n \in R
  <2> HIDE DEF R
  <2> QED BY <1>1, <1>6, <1>7, UpTo
<1>9. g[n] = f[k]
  BY <1>1, <1>8
<1> QED BY <1>2, <1>4, <1>5, <1>9

\* As many are chosen as there are places of them.
LEMMA ChosenCounts ==
    ASSUME NEW r \in Seq(Nodes), NEW P, NEW T, T = {i \in 1..Len(r) : r[i] \in P}
    PROVE  Len(Chosen(r, P)) = Cardinality(T)
<1>1. PICK n : n = Len(r) /\ n \in Nat
  OBVIOUS
<1>2. PICK f : Runs(f, [kind |-> "choose", seq |-> r, set |-> P], <<>>, n) /\ Chosen(r, P) = f[n]
  BY <1>1, ChosenRuns
<1> DEFINE Places(m) == {i \in 1..m : r[i] \in P}
           R == {m \in 0..n : f[m] \in Seq(Nodes) /\ Len(f[m]) = Cardinality(Places(m))}
<1>3. 0 \in R
  <2>1. f[0] = <<>>
    BY <1>2 DEF Runs
  <2>2. Places(0) = {} /\ Cardinality({}) = 0
    BY FS_EmptySet
  <2>3. <<>> \in Seq(Nodes) /\ Len(<<>>) = 0
    OBVIOUS
  <2>4. f[0] \in Seq(Nodes) /\ Len(f[0]) = Cardinality(Places(0))
    <3>1. Cardinality(Places(0)) = 0
      BY <2>2
    <3> HIDE DEF Places
    <3> QED BY <2>1, <2>3, <3>1
  <2> QED BY <1>1, <2>4
<1>4. ASSUME NEW m \in 0..n, m # 0, (m - 1) \in R PROVE m \in R
  <2>1. m \in 1..n /\ m \in Nat
    BY <1>1, <1>4
  <2>2. f[m] = IF r[m] \in P THEN Append(f[m - 1], r[m]) ELSE f[m - 1]
    BY <1>1, <1>2, <2>1, ChoosesNext
  <2>3. PICK c, A : /\ c = f[m - 1] /\ A = Places(m - 1)
                    /\ c \in Seq(Nodes) /\ Len(c) = Cardinality(A)
    BY <1>4
  <2>4. \A i : i \in 1..m <=> i \in 1..(m - 1) \/ i = m
    BY <2>1
  <2>5. CASE r[m] \in P
    <3>1. Places(m) = A \cup {m} /\ m \notin A
      BY <2>1, <2>3, <2>4, <2>5
    <3>2. IsFiniteSet(A)
      <4>1. IsFiniteSet(1..n) /\ A \subseteq 1..n
        <5>1. IsFiniteSet(1..n)
          BY <1>1, FS_Interval
        <5>2. \A i \in 1..(m - 1) : i \in 1..n
          BY <1>1, <2>1
        <5> QED BY <2>3, <5>1, <5>2
      <4> QED BY <4>1, FS_Subset
    <3>3. Cardinality(A \cup {m}) = Cardinality(A) + 1
      BY <3>1, <3>2, FS_AddElement
    <3>4. r[m] \in Nodes
      BY <1>1, <2>1
    <3>5. Append(c, r[m]) \in Seq(Nodes) /\ Len(Append(c, r[m])) = Len(c) + 1
      BY <2>3, <3>4
    <3>6. f[m] \in Seq(Nodes) /\ Len(f[m]) = Cardinality(Places(m))
      BY <2>2, <2>3, <2>5, <3>1, <3>3, <3>5
    <3> QED BY <3>6
  <2>6. CASE r[m] \notin P
    <3>1. Places(m) = A
      BY <2>3, <2>4, <2>6
    <3> QED BY <2>2, <2>3, <2>6, <3>1
  <2> QED BY <2>5, <2>6
<1>5. n \in R
  <2> HIDE DEF R
  <2> QED BY <1>1, <1>3, <1>4, UpTo
<1>6. T = Places(n)
  BY <1>1
<1> QED BY <1>2, <1>5, <1>6

LEMMA ZRangeByScoreIs ==
    ASSUME ZsetInv, NEW min \in Scores, NEW max \in Scores,
           NEW Q, Q = {n \in Nodes : n[1] \in min..max}
    PROVE  ZRangeByScore(min, max) = Chosen(Ranked, Q)
<1>1. PICK r, n : r = Ranked /\ n = Len(r)
  OBVIOUS
<1>2. /\ r \in Seq(Nodes) /\ n \in Nat /\ r = ToArray(List) /\ DOMAIN r = 1..n
      /\ \A i, j \in 1..n : i < j => Before(r[i], r[j])
  BY <1>1, RankedIs DEF Sorted
<1>3. /\ \A i \in 1..n : r[i] \in Nodes /\ r[i][1] \in Int
      /\ min \in Int /\ max \in Int
  <2>1. Scores \subseteq Int
    BY SortedSetAssumption
  <2>2. \A i \in 1..n : r[i] \in Nodes
    BY <1>1, <1>2
  <2>3. \A y \in Nodes : y[1] \in Scores
    BY DEF Nodes
  <2> QED BY <2>1, <2>2, <2>3
<1> DEFINE beyond == {i \in 1..n : r[i][1] > max} \cup {n + 1}
           P == {y \in Nodes : y[1] >= min}
<1>4. Min(beyond) \in beyond /\ \A i \in beyond : Min(beyond) <= i
  <2>1. beyond \subseteq Nat /\ beyond # {}
    BY <1>2
  <2> HIDE DEF beyond
  <2> QED BY <2>1, MinIs
<1>5. PICK k : k = Min(beyond) - 1
  OBVIOUS
<1>6. k \in 0..n /\ (k < n => r[k + 1][1] > max) /\ \A i \in 1..n : r[i][1] > max => k < i
  <2>1. PICK b : b = Min(beyond)
    OBVIOUS
  <2>2. /\ (b \in 1..n /\ r[b][1] > max) \/ b = n + 1
        /\ \A i \in 1..n : r[i][1] > max => b <= i
    BY <1>4, <2>1
  <2>3. k = b - 1 /\ k + 1 = b
    BY <1>2, <1>5, <2>1, <2>2
  <2> QED BY <1>2, <2>2, <2>3
<1>7. ZRangeByScore(min, max) = Chosen(SubSeq(r, 1, k), P)
  BY <1>1, <1>2, <1>5 DEF ZRangeByScore
<1>8. ASSUME NEW i \in 1..k PROVE r[i] \in P <=> r[i] \in Q
  <2>1. i \in 1..n /\ ~(k < i)
    BY <1>2, <1>6
  <2>2. r[i][1] <= max
    BY <1>3, <1>6, <2>1
  <2> QED BY <1>3, <2>1, <2>2
<1>9. ASSUME NEW i \in 1..n, i > k PROVE r[i] \notin Q
  <2>1. k + 1 \in 1..n /\ k < n /\ (i = k + 1 \/ k + 1 < i)
    BY <1>2, <1>6, <1>9
  <2>2. r[k + 1][1] > max
    BY <1>6, <2>1
  <2>3. r[k + 1][1] <= r[i][1]
    <3>1. i = k + 1 \/ Before(r[k + 1], r[i])
      BY <1>2, <2>1
    <3> QED BY <1>3, <2>1, <3>1 DEF Before
  <2>4. r[i][1] > max
    BY <1>3, <2>1, <2>2, <2>3
  <2> QED BY <1>3, <2>4
<1>10. Chosen(SubSeq(r, 1, k), P) = Chosen(r, Q)
  <2> HIDE DEF P
  <2> QED BY <1>1, <1>2, <1>6, <1>8, <1>9, ChosenOfPrefix
<1> QED BY <1>1, <1>7, <1>10

LEMMA ZCountIs ==
    ASSUME ZsetInv, NEW min \in Scores, NEW max \in Scores,
           NEW Q, Q = {n \in Nodes : n[1] \in min..max}
    PROVE  ZCount(min, max) = Len(Chosen(Ranked, Q))
<1>1. PICK r, n, f, S : r = Ranked /\ n = Len(r) /\ f = scoreMap /\ S = Present
  OBVIOUS
<1>2. /\ r \in Seq(Nodes) /\ n \in Nat /\ n = Cardinality(S) /\ Sorted(r, n, S)
      /\ S = NodesOf(f) /\ S \subseteq Nodes
  BY <1>1, RankedIs
<1> DEFINE T == {i \in 1..n : r[i] \in Q}
           C == {m \in DOMAIN f : f[m] \in min..max}
           rank == [i \in T |-> r[i][2]]
<1>3. Len(Chosen(r, Q)) = Cardinality(T)
  <2>1. PICK U : U = T
    OBVIOUS
  <2>2. U = {i \in 1..Len(r) : r[i] \in Q}
    BY <1>1, <2>1
  <2> HIDE DEF T
  <2> QED BY <1>2, <2>1, <2>2, ChosenCounts
<1>4. ASSUME NEW i \in 1..n PROVE r[i][2] \in DOMAIN f /\ r[i] = <<f[r[i][2]], r[i][2]>>
  <2>1. r[i] \in NodesOf(f)
    BY <1>2 DEF Sorted
  <2>2. PICK m \in DOMAIN f : r[i] = <<f[m], m>>
    BY <2>1 DEF NodesOf
  <2> QED BY <2>2
<1>5. ASSUME NEW i \in T PROVE r[i][2] \in C
  <2>1. r[i][1] \in min..max
    OBVIOUS
  <2>2. r[i][1] = f[r[i][2]]
    BY <1>4
  <2> QED BY <1>4, <2>1, <2>2
<1>6. ASSUME NEW i \in T, NEW j \in T, r[i][2] = r[j][2] PROVE i = j
  <2>1. r[i] = r[j] /\ r[i] \in Nodes
    BY <1>1, <1>2, <1>4, <1>6
  <2>2. i < j \/ j < i \/ i = j
    BY <1>2
  <2> QED BY <1>2, <2>1, <2>2, BeforeOrders DEF Sorted
<1>7. ASSUME NEW m \in C PROVE \E i \in T : r[i][2] = m
  <2>1. <<f[m], m>> \in S /\ <<f[m], m>> \in Nodes
    BY <1>2, NodesOfIn
  <2>2. PICK i \in 1..n : r[i] = <<f[m], m>>
    BY <1>2, <2>1, SortedOnto
  <2>3. r[i] \in Q
    BY <2>1, <2>2
  <2> QED BY <2>2, <2>3
<1>8. rank \in Bijection(T, C)
  <2>1. rank \in [T -> C]
    BY <1>5
  <2>2. \A i, j \in T : rank[i] = rank[j] => i = j
    BY <1>6
  <2>3. \A m \in C : \E i \in T : rank[i] = m
    BY <1>7
  <2> HIDE DEF T, C, rank
  <2> QED BY <2>1, <2>2, <2>3 DEF Bijection, Injection, Surjection, IsInjective
<1>9. IsFiniteSet(T)
  <2>1. IsFiniteSet(1..n) /\ T \subseteq 1..n
    BY <1>2, FS_Interval
  <2> HIDE DEF T
  <2> QED BY <2>1, FS_Subset
<1>10. Cardinality(C) = Cardinality(T)
  <2> HIDE DEF T, C, rank
  <2> QED BY <1>8, <1>9, FS_Bijection DEF ExistsBijection
<1>11. ZCount(min, max) = Cardinality(C)
  BY <1>1 DEF ZCount
<1> QED BY <1>1, <1>3, <1>10, <1>11

\* RangesExact.
LEMMA RangesAre == ZsetInv => RangesExact
<1> SUFFICES ASSUME ZsetInv PROVE RangesExact
  OBVIOUS
<1>1. PICK r, q : r = Ranked /\ q = Reverse(Ranked)
  OBVIOUS
<1>2. r \in Seq(Nodes) /\ r = ToArray(List) /\ size = Len(r)
  BY <1>1, RankedIs
<1>3. ASSUME NEW start \in Bounds, NEW stop \in Bounds
      PROVE  /\ ZRange(start, stop) = Slice(r, start, stop)
             /\ ZRevRange(start, stop) = Slice(q, start, stop)
  <2>1. start \in Int /\ stop \in Int
    BY <1>2 DEF Bounds
  <2> QED BY <1>1, <1>2, <2>1, ZRangeIs, ZRevRangeIs
<1>4. ASSUME NEW m \in DOMAIN scoreMap
      PROVE  ZRank(m) \in 0..(Len(r) - 1) /\ r[ZRank(m) + 1][2] = m
  BY <1>1, ZRankIs
<1>5. ASSUME NEW min \in Scores, NEW max \in Scores
      PROVE  /\ ZRangeByScore(min, max) = Chosen(r, {n \in Nodes : n[1] \in min..max})
             /\ ZCount(min, max) = Len(ZRangeByScore(min, max))
  <2>1. PICK Q : Q = {n \in Nodes : n[1] \in min..max}
    OBVIOUS
  <2>2. ZRangeByScore(min, max) = Chosen(r, Q) /\ ZCount(min, max) = Len(Chosen(r, Q))
    BY <1>1, <2>1, ZRangeByScoreIs, ZCountIs
  <2> QED BY <2>1, <2>2
<1> QED BY <1>1, <1>3, <1>4, <1>5 DEF RangesExact

(* After any changes, with towers of any heights, the ranges by rank and   *)
(* by score, from either end, and the ranks and counts are those of the    *)
(* members in the order of their scores and names.                         *)
THEOREM RangesExactHolds == ZsetSpec => []RangesExact
<1>1. ZsetInv /\ [NextZset]_zsetVars => ZsetInv'
  BY NextZsetHolds
<1> QED BY InitZsetHolds, RangesAre, <1>1, PTL DEF ZsetSpec

-----------------------------------------------------------------------------
(* What holds of a part holds of the process: a step of the process is a   *)
(* step of the part or leaves the part's state alone.                      *)
LEMMA StepsOfParts == [Next]_vars => /\ [NextKeys]_keyVars
                                     /\ [NextMeter]_meterVars
                                     /\ [NextLimits]_limitVars
                                     /\ [NextQueued]_queueVars
                                     /\ [NextZset]_zsetVars
<1> SUFFICES ASSUME [Next]_vars
             PROVE  /\ [NextKeys]_keyVars /\ [NextMeter]_meterVars
                    /\ [NextLimits]_limitVars /\ [NextQueued]_queueVars /\ [NextZset]_zsetVars
  OBVIOUS
<1>1. CASE Next
  BY <1>1 DEF Next
<1>2. CASE UNCHANGED vars
  BY <1>2 DEF vars
<1> QED
  BY <1>1, <1>2

(* Any behaviour of the server process grants keys to their tenants only   *)
(* and no longer than the cache lasts, bills an event once, keeps the      *)
(* calls of a window under twice the limit and once more for a restart,    *)
(* serves a priority queue in its order, also after a restart up to        *)
(* entries of the same priority, and answers the ranges of a sorted set by *)
(* score and name.                                                         *)
THEOREM ServicesCorrect ==
    Spec => /\ []TenantMatches /\ []RevocationTakesEffect /\ []CountedOnce /\ []WindowBounded
            /\ []ServedInOrder /\ []RangesExact
<1>1. Init => InitKeys /\ InitMeter /\ InitLimits /\ InitQueued /\ InitZset
  BY DEF Init
<1>2. Spec => KeySpec /\ MeterSpec /\ LimitSpec /\ PrioritySpec /\ ZsetSpec
  BY <1>1, StepsOfParts, PTL
     DEF Spec, KeySpec, MeterSpec, LimitSpec, PrioritySpec, ZsetSpec
<1> QED
  BY <1>2, TenantMatchesHolds, RevocationTakesEffectHolds, CountedOnceHolds,
     WindowBoundedHolds, ServedInOrderHolds, RangesExactHolds, PTL
=============================================================================
