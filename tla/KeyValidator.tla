---------------------------- MODULE KeyValidator ----------------------------
(***************************************************************************)
(* Authentication of requests: the KeyValidator class                      *)
(* (src/src/server/middleware/keyValidator.ts) and the middleware that     *)
(* awaits it (auth.ts).                                                    *)
(*                                                                         *)
(* Positive verdicts are cached per key and tenant.  A verdict on an       *)
(* external key awaits a query: the row is read at one moment, the answer  *)
(* is looked at and cached later, and meanwhile other requests, changes of *)
(* the row, and invalidations run.  The rows belong to another service.    *)
(***************************************************************************)
EXTENDS Naturals

CONSTANTS
    ApiKeys,       \* keys presented; "" stands for a missing one
    Tenants,       \* tenant ids presented; "" stands for a missing one
    Lane,          \* [ApiKeys -> prefix of the key]
    InternalKeys,  \* ERIX_INTERNAL_KEY
    Owner,         \* [external keys -> the client_code of the key's org]
    Requests,      \* requests that may be under way
    CacheTtl,      \* cacheTtlMs
    MaxTime        \* bound: the clock

External == {k \in ApiKeys : Lane[k] = "external"}
Pairs == {k \in ApiKeys : Lane[k] # "missing"} \X (Tenants \ {""})

ASSUME KeyAssumption ==
    /\ Lane \in [ApiKeys -> {"internal", "external", "unknown", "missing"}]
    /\ InternalKeys \subseteq {k \in ApiKeys : Lane[k] = "internal"}
    /\ Owner \in [External -> Tenants]
    /\ CacheTtl \in Nat \ {0}
    /\ MaxTime \in Nat

VARIABLES
    row,      \* [External -> what the row of the key and of its org say]
    cache,    \* [cache keys -> expiresAt], 0: no entry
    lookup,   \* [Requests -> a validate() under way]
    granted,  \* history: the pairs of key and tenant that were let through
    now,
    backed    \* history: when a grant was last justified, 0: not since invalidate()

keyVars == <<row, cache, lookup, granted, now, backed>>

(* "gone": no such key, or inactive, revoked, expired; "unscoped": the key *)
(* does not grant the store; "suspended": its org is not active.           *)
Standings == {"good", "gone", "unscoped", "suspended"}

\* Variant: one entry per key, whoever asks.
CacheKeyOfKey(k, t) == <<k, CHOOSE x \in Tenants \ {""} : TRUE>>

CacheKey(k, t) == <<k, t>>

NoLookup == [key |-> CHOOSE k \in ApiKeys : TRUE, tenant |-> CHOOSE t \in Tenants : TRUE,
             state |-> "none"]

InitKeys ==
    /\ row = [k \in External |-> "good"]
    /\ cache = [c \in Pairs |-> 0]
    /\ lookup = [r \in Requests |-> NoLookup]
    /\ granted = {}
    /\ now = 1
    /\ backed = [c \in Pairs |-> 0]

-----------------------------------------------------------------------------
(* validateExternal()'s verdict on the row it was given, in the order of   *)
(* its checks.                                                             *)
Judged(k, t, standing) ==
    CASE standing = "gone" -> "INVALID_EXTERNAL_KEY"
      [] standing = "unscoped" -> "INSUFFICIENT_SCOPE"
      [] standing \in {"good", "suspended"} /\ Owner[k] # t -> "TENANT_MISMATCH"
      [] standing = "suspended" /\ Owner[k] = t -> "ORG_SUSPENDED"
      [] OTHER -> "ok"

\* A key that needs no lookup.
JudgedAtOnce(k) ==
    CASE Lane[k] = "internal" -> IF k \in InternalKeys THEN "ok" ELSE "INVALID_INTERNAL_KEY"
      [] OTHER -> "UNKNOWN_KEY_PREFIX"

\* The middleware lets the request through as k acting for t, or refuses it.
Answers(k, t, code) == granted' = IF code = "ok" THEN granted \cup {<<k, t>>} ELSE granted

\* A lookup that will end in a grant of k for t.
Granting(look, c) ==
    \E r \in Requests : /\ CacheKey(look[r].key, look[r].tenant) = c
                        /\ look[r].state = "good"

\* What justifies a grant: the row as it is, or a lookup that read it so.
Justified(c, rows, look) ==
    \/ c[1] \in InternalKeys
    \/ c[1] \in External /\ Judged(c[1], c[2], rows[c[1]]) = "ok"
    \/ Granting(look, c)

\* The history variable is brought up to date by every step but invalidations.
Backs == backed' = [c \in Pairs |->
                      IF Justified(c, row, lookup) \/ Justified(c, row', lookup')
                      THEN now' ELSE backed[c]]

\* Variant: a hit extends the entry's life.
HitExtends(k, t) == cache' = [cache EXCEPT ![CacheKey(k, t)] = now + CacheTtl]

\* A hit leaves the entry as it is.
Hit(k, t) == UNCHANGED cache

CachesGrant(k, t, code) ==
    cache' = [cache EXCEPT ![CacheKey(k, t)] = IF code = "ok" THEN now + CacheTtl ELSE @]

Fresh(c) == cache[c] > now

\* validate() of a request with a key or a tenant missing.
RefusesIncomplete(k, t) ==
    /\ Lane[k] = "missing" \/ t = ""
    /\ Answers(k, t, IF Lane[k] = "missing" THEN "MISSING_KEY" ELSE "MISSING_TENANT")
    /\ UNCHANGED <<row, cache, lookup, now>>
    /\ Backs

Presented(k, t) == Lane[k] # "missing" /\ t # ""

\* validate() answered from the cache.
AnswersFromCache(k, t) ==
    /\ Presented(k, t)
    /\ Fresh(CacheKey(k, t))
    /\ Answers(k, t, "ok")
    /\ Hit(k, t)
    /\ UNCHANGED <<row, lookup, now>>
    /\ Backs

\* validate() of an internal key, or of one with an unknown prefix.
AnswersAtOnce(k, t) ==
    /\ Presented(k, t)
    /\ ~Fresh(CacheKey(k, t))
    /\ Lane[k] # "external"
    /\ Answers(k, t, JudgedAtOnce(k))
    /\ CachesGrant(k, t, JudgedAtOnce(k))
    /\ UNCHANGED <<row, lookup, now>>
    /\ Backs

\* validate() of an external key: a stale entry is deleted, the query sent.
Asks(r, k, t) ==
    /\ Presented(k, t)
    /\ ~Fresh(CacheKey(k, t))
    /\ Lane[k] = "external"
    /\ lookup[r].state = "none"
    /\ lookup' = [lookup EXCEPT ![r] = [key |-> k, tenant |-> t, state |-> "sent"]]
    /\ cache' = [cache EXCEPT ![CacheKey(k, t)] = 0]
    /\ UNCHANGED <<row, granted, now>>
    /\ Backs

\* The database runs the query.
ReadsRow(r) ==
    LET look == lookup[r] IN
    /\ look.state = "sent"
    /\ lookup' = [lookup EXCEPT ![r].state =
                    IF Judged(look.key, look.tenant, row[look.key]) = "ok"
                    THEN "good" ELSE Judged(look.key, look.tenant, row[look.key])]
    /\ UNCHANGED <<row, cache, granted, now>>
    /\ Backs

\* The answer of the query is taken up: the rest of validate().
Settles(r) ==
    LET look == lookup[r]
        code == IF look.state = "good" THEN "ok" ELSE look.state
    IN  /\ look.state \notin {"none", "sent"}
        /\ Answers(look.key, look.tenant, code)
        /\ CachesGrant(look.key, look.tenant, code)
        /\ lookup' = [lookup EXCEPT ![r] = NoLookup]
        /\ UNCHANGED <<row, now>>
        /\ Backs

\* The query fails.
LookupFails(r) ==
    /\ lookup[r].state # "none"
    /\ Answers(lookup[r].key, lookup[r].tenant, "DB_ERROR")
    /\ lookup' = [lookup EXCEPT ![r] = NoLookup]
    /\ UNCHANGED <<row, cache, now>>
    /\ Backs

-----------------------------------------------------------------------------
\* backed after an invalidation of the entries C.
Unbacked(C) == backed' = [c \in Pairs |->
                            IF Justified(c, row, lookup) THEN now
                            ELSE IF c \in C THEN 0 ELSE backed[c]]

\* invalidate() and clearCache().
Invalidate(k, t) ==
    /\ cache' = [cache EXCEPT ![CacheKey(k, t)] = 0]
    /\ Unbacked({<<k, t>>})
    /\ UNCHANGED <<row, lookup, granted, now>>

ClearCache ==
    /\ cache' = [c \in Pairs |-> 0]
    /\ Unbacked(Pairs)
    /\ UNCHANGED <<row, lookup, granted, now>>

\* The other service revokes, suspends, restores.
RowChanges(k) ==
    /\ \E s \in Standings : row' = [row EXCEPT ![k] = s]
    /\ UNCHANGED <<cache, lookup, granted, now>>
    /\ Backs

TimePasses ==
    /\ now < MaxTime
    /\ now' = now + 1
    /\ UNCHANGED <<row, cache, lookup, granted>>
    /\ Backs

NextKeys ==
    \/ \E k \in ApiKeys, t \in Tenants :
         \/ RefusesIncomplete(k, t) \/ AnswersFromCache(k, t) \/ AnswersAtOnce(k, t)
         \/ \E r \in Requests : Asks(r, k, t)
         \/ Presented(k, t) /\ Invalidate(k, t)
    \/ \E r \in Requests : ReadsRow(r) \/ Settles(r) \/ LookupFails(r)
    \/ \E k \in External : RowChanges(k)
    \/ ClearCache
    \/ TimePasses

KeySpec == InitKeys /\ [][NextKeys]_keyVars

-----------------------------------------------------------------------------
(***************************************************************************)
(* Properties                                                              *)
(***************************************************************************)

(* A key that is revoked, loses its scope, or whose org is suspended, is   *)
(* refused at the latest cacheTtlMs after that, or after the end of the    *)
(* last lookup that had still read it good, and at once after invalidate() *)
(* or clearCache(), unless such a lookup was under way.                    *)
RevocationTakesEffect ==
    \A c \in Pairs : Fresh(c) => now < backed[c] + CacheTtl

(* keyValidator.ts:21: an external key is accepted for the tenant its org  *)
(* belongs to and for no other, also when the answer comes from the cache. *)
TenantMatches ==
    \A c \in granted : c[1] \in External => c[2] = Owner[c[1]]
=============================================================================
