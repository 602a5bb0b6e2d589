-------------------------------- MODULE Keyspace --------------------------------
(***************************************************************************)
(* The keys of an ErixStore under a memory cap: TypeRegistry, the stores   *)
(* of strings and collections, HeapTTLManager, MemoryAccountant with its   *)
(* LRU list, and the commands over them (commands.ts and the routes).      *)
(*                                                                         *)
(* A command runs without interruption, but inside it a charge may evict   *)
(* keys, also the one being written, and an OOMError leaves what was done. *)
(* The commands are therefore built from operators on the state ks, one    *)
(* for each method, whose results say whether the method has thrown.       *)
(* Invalidated entries of the expiry heap are discarded, so keyIndex       *)
(* stands for the heap; of an expiresAt it matters only whether it has     *)
(* passed.  A string stands for its cost, a collection for the set of its  *)
(* entries, which cost the same.                                           *)
(***************************************************************************)
EXTENDS Integers, Sequences, FiniteSets, SequencesExt

CONSTANTS
    Keys,
    Fields,     \* fields and members; for a list, places
    Collections, \* the types of collections in use
    Header,     \* the cost of the empty string
    MaxText,    \* bound: the cost of the longest string
    EntryCost,  \* the cost of a field, a member or an element
    Additions,  \* sequences of entries, the arguments of HSET, LPUSH, SADD, ZADD
    Caps,       \* the values of maxmemory in use; a cap of 0, which turns the
                \* accountant off, is left out
    Policies,   \* the eviction policies in use
    None,       \* no type
    NoObject    \* no value in a store

Types == {"string"} \cup Collections

ASSUME KeyspaceAssumption ==
    /\ IsFiniteSet(Keys)
    /\ IsFiniteSet(Fields)
    /\ Header \in Nat \ {0}
    /\ MaxText \in Nat
    /\ Collections \subseteq {"hash", "list", "set", "zset"}
    /\ EntryCost \in Nat \ {0}
    /\ Additions \subseteq Seq(Fields)
    /\ Caps \subseteq Nat \ {0}
    /\ Policies \subseteq {"noeviction", "allkeys-lru", "volatile-lru"}
    /\ None \notin Types
    /\ \A object \in (Header..MaxText) \cup SUBSET Fields : object # NoObject

VARIABLES
    ks,     \* types: the TypeRegistry; data: the sub-stores; ttl: keyIndex;
            \* lru: the LRU list, least recent first; used: usedBytes;
            \* slips: history, why usedBytes may have drifted
    policy,
    cap     \* maxBytes

vars == <<ks, policy, cap>>

TextCosts == Header..MaxText

Init ==
    /\ ks = [types |-> [k \in Keys |-> None],
             data |-> [t \in Types |-> [k \in Keys |-> NoObject]],
             ttl |-> [k \in Keys |-> "none"],
             lru |-> <<>>,
             used |-> 0,
             slips |-> {}]
    /\ policy \in Policies
    /\ cap \in Caps

-----------------------------------------------------------------------------
Bytes(t, object) ==
    IF object = NoObject THEN 0
    ELSE IF t = "string" THEN object ELSE EntryCost * Cardinality(object)

\* All that the sub-stores hold.
Held(s) == SumFunction([p \in Types \X Keys |-> Bytes(p[1], s.data[p[1]][p[2]])])

\* credit() clamps at zero.
Credit(used, n) == IF n > used THEN 0 ELSE used - n

\* The members of P in seq, in their order.
Only(seq, P) ==
    LET kept[n \in 0..Len(seq)] ==
          IF n = 0 THEN <<>>
          ELSE IF seq[n] \in P THEN Append(kept[n - 1], seq[n]) ELSE kept[n - 1]
    IN  kept[Len(seq)]

\* accountant.touch(): k becomes the most recently used key; and forget().
Forget(s, k) == [s EXCEPT !.lru = Only(@, Keys \ {k})]

Touch(s, k) == [Forget(s, k) EXCEPT !.lru = Append(@, k)]

\* deleteKey().
Deleted(s, k) ==
    LET t == s.types[k]
        cleared == [Forget(s, k) EXCEPT !.ttl[k] = "none"]
    IN  IF t = None THEN cleared
        ELSE [cleared EXCEPT !.types[k] = None,
                             !.data[t][k] = NoObject,
                             !.used = Credit(@, Bytes(t, s.data[t][k]))]

(* handleExpiry(): an unregistered key only loses its expiry entry, and    *)
(* stays in the LRU list.                                                  *)
Expired(s, k) == IF s.types[k] = None THEN [s EXCEPT !.ttl[k] = "none"] ELSE Deleted(s, k)

\* isExpired(): lazy expiry.
Current(s, k) == IF s.ttl[k] = "passed" THEN Expired(s, k) ELSE s

-----------------------------------------------------------------------------
\* What a method returns: the state, and whether it came to its end.
Done(s) == [ok |-> TRUE, at |-> s]
Thrown(s) == [ok |-> FALSE, at |-> s]

\* Variant: every key is a candidate as soon as one has a TTL.
AnyCandidates(s) ==
    IF policy = "allkeys-lru"
         \/ (policy = "volatile-lru" /\ \E k \in Keys : s.ttl[k] = "ahead")
    THEN s.lru ELSE <<>>

\* The keys that eviction may take, in its order.
Candidates(s) ==
    CASE policy = "noeviction" -> <<>>
      [] policy = "allkeys-lru" -> s.lru
      [] policy = "volatile-lru" -> Only(s.lru, {k \in Keys : s.ttl[k] = "ahead"})

\* Variant: the cap is compared with the bytes before the charge.
FitsBefore(s, n) == s.used < cap

Fits(s, n) == s.used + n <= cap

\* The keys of seq are deleted one after the other until n bytes fit.
Evicted(s, seq, n) ==
    LET after[i \in 0..Len(seq)] ==
          IF i = 0 THEN s
          ELSE LET st == after[i - 1]
               IN  IF Fits(st, n) THEN st ELSE Deleted(st, seq[i])
    IN  after[Len(seq)]

(* tryCharge() for n bytes of the key k, or credit() when n is negative:   *)
(* those evicted before an OOMError stay evicted.                          *)
Charge(s, k, n) ==
    LET evicted == Evicted(s, Candidates(s), n)
        own == IF Contains(evicted.lru, k) THEN {} ELSE {"own"}
    IN  IF n <= 0 THEN Done([s EXCEPT !.used = Credit(@, -n)])
        ELSE IF Fits(evicted, n)
        THEN Done([evicted EXCEPT !.used = @ + n, !.slips = @ \cup own])
        ELSE Thrown(evicted)

\* Variant: the type of a registered key is not checked.
ReserveAny(s, k, t) == Done(Touch([Current(s, k) EXCEPT !.types[k] = t], k))

\* types.register() after lazy expiry and touch(): reserveKey().
Reserve(s, k, t) ==
    LET now == Current(s, k)
    IN  IF now.types[k] \in {None, t}
        THEN Done(Touch([now EXCEPT !.types[k] = t], k))
        ELSE Thrown(now)

\* strings.set(): the string is stored even if its key was evicted meanwhile.
StringSet(s, k, c) ==
    LET touched == Touch(s, k)
        charged == Charge(touched, k, c - Bytes("string", touched.data["string"][k]))
    IN  IF charged.ok
        THEN Done([charged.at EXCEPT !.data["string"][k] = c])
        ELSE charged

\* strings.append() of a text of n bytes: the empty string is charged anew.
StringAppend(s, k, n) ==
    LET touched == Touch(s, k)
        old == Bytes("string", touched.data["string"][k])
        new == IF old = 0 THEN Header + n ELSE old + n
        charged == Charge(touched, k, new - IF old > Header THEN old ELSE 0)
        slip == IF old = Header THEN {"header"} ELSE {}
    IN  IF charged.ok
        THEN Done([charged.at EXCEPT !.data["string"][k] = new,
                                     !.slips = @ \cup slip])
        ELSE charged

\* Variant: an entry that is there already is charged again.
MapAddCharged(s, t, k, e) ==
    LET object == IF s.data[t][k] = NoObject THEN {} ELSE s.data[t][k]
        charged == Charge([Touch(s, k) EXCEPT !.data[t][k] = object], k, EntryCost)
    IN  IF charged.ok /\ charged.at.data[t][k] # NoObject
        THEN Done([charged.at EXCEPT !.data[t][k] = object \cup {e}])
        ELSE charged

(* hset(), sadd() and zadd() create the object before the charge and keep  *)
(* a reference to it: if the key is evicted by the charge, the entry goes  *)
(* into an object that no store holds.                                     *)
MapAdd(s, t, k, e) ==
    LET touched == Touch(s, k)
        object == IF touched.data[t][k] = NoObject THEN {} ELSE touched.data[t][k]
        created == [touched EXCEPT !.data[t][k] = object]
        charged == Charge(created, k, EntryCost)
    IN  IF e \in object THEN Done(created)
        ELSE IF charged.ok /\ charged.at.data[t][k] # NoObject
        THEN Done([charged.at EXCEPT !.data[t][k] = object \cup {e}])
        ELSE charged

\* lpush() and rpush(): the charge comes before the list is looked up.
ListAdd(s, k, e) ==
    LET charged == Charge(Touch(s, k), k, EntryCost)
        list == charged.at.data["list"][k]
    IN  IF charged.ok
        THEN Done([charged.at EXCEPT !.data["list"][k] =
                     IF list = NoObject THEN {e} ELSE list \cup {e}])
        ELSE charged

\* The entries of seq are added one after the other until one throws.
AddAll(s, t, k, seq) ==
    LET after[i \in 0..Len(seq)] ==
          IF i = 0 THEN Done(s)
          ELSE LET r == after[i - 1]
               IN  IF ~r.ok THEN r
                   ELSE IF t = "list" THEN ListAdd(r.at, k, seq[i])
                   ELSE MapAdd(r.at, t, k, seq[i])
    IN  after[Len(seq)]

-----------------------------------------------------------------------------
\* The TTL a write of a string leaves behind: that of SET EX, none, or the old.
WithTTL(s, k, ttl) == IF ttl = "keep" THEN s ELSE [s EXCEPT !.ttl[k] = ttl]

(* SET, POST /set, GETSET, INCR and its kin: reserve, set, and the TTL that *)
(* the command prescribes.                                                 *)
Set(k, c, ttl) ==
    LET reserved == Reserve(ks, k, "string")
        written == StringSet(reserved.at, k, c)
    IN  /\ ks' = IF ~reserved.ok THEN reserved.at
                 ELSE IF ~written.ok THEN written.at
                 ELSE WithTTL(written.at, k, ttl)
        /\ UNCHANGED <<policy, cap>>

\* SETNX: only if nothing is registered.
SetNX(k, c) ==
    LET now == Current(ks, k)
    IN  /\ ks' = IF now.types[k] # None THEN now
                 ELSE StringSet([now EXCEPT !.types[k] = "string"], k, c).at
        /\ UNCHANGED <<policy, cap>>

AppendText(k, n) ==
    LET reserved == Reserve(ks, k, "string")
        old == Bytes("string", reserved.at.data["string"][k])
    IN  /\ (IF old = 0 THEN Header ELSE old) + n <= MaxText
        /\ ks' = IF reserved.ok THEN StringAppend(reserved.at, k, n).at ELSE reserved.at
        /\ UNCHANGED <<policy, cap>>

(* MSET of two keys: the types are checked first; a write that throws      *)
(* leaves the ones before it.                                              *)
MSet(j, k, c, d) ==
    LET text == {None, "string"}
        now == IF Current(ks, j).types[j] \in text
               THEN Current(Current(ks, j), k) ELSE Current(ks, j)
        Write(s, i, n) == StringSet([s EXCEPT !.types[i] = "string"], i, n)
        first == Write(now, j, c)
        second == Write(WithTTL(first.at, j, "none"), k, d)
    IN  /\ j # k
        /\ ks' = IF now.types[j] \notin text \/ now.types[k] \notin text THEN now
                 ELSE IF ~first.ok THEN first.at
                 ELSE IF ~second.ok THEN second.at
                 ELSE WithTTL(second.at, k, "none")
        /\ UNCHANGED <<policy, cap>>

\* HSET, HINCRBY, LPUSH, RPUSH, SADD, ZADD, ZINCRBY of the entries of seq.
\* An element of a list takes a free place.
Add(t, k, seq) ==
    LET reserved == Reserve(ks, k, t)
        object == reserved.at.data[t][k]
    IN  /\ t = "list" =>
             /\ IsInjective(seq)
             /\ object # NoObject => ToSet(seq) \cap object = {}
        /\ ks' = IF reserved.ok THEN AddAll(reserved.at, t, k, seq).at ELSE reserved.at
        /\ UNCHANGED <<policy, cap>>

(* Whether the command that removed entries leaves the key registered: it  *)
(* looks for the object, for a set also inside it; ZREM does not look.     *)
Remains(t, object) ==
    CASE t \in {"hash", "list"} -> object # NoObject
      [] t = "set" -> object \notin {{}, NoObject}
      [] t = "zset" -> TRUE

\* Whether it touches the key, given its object before and after.
Touches(t, before, after) ==
    CASE t \in {"hash", "list"} -> before # NoObject
      [] t = "set" -> after # NoObject
      [] t = "zset" -> FALSE

(* HDEL, LPOP, RPOP, LREM, LTRIM, SREM and ZREM of the entries of E, none  *)
(* if the command finds none.  A drained key keeps its TTL and its place   *)
(* in the LRU list.  GET /lpop works on a list that is not registered.    *)
Take(t, k, E) ==
    LET object == ks.data[t][k]
        entries == IF object = NoObject THEN {} ELSE object
        drained == E = entries /\ E # {}
        rest == IF drained \/ object = NoObject THEN NoObject ELSE object \ E
        touched == IF Touches(t, object, rest) THEN Touch(ks, k) ELSE ks
    IN  /\ ks.ttl[k] # "passed"
        /\ E \subseteq entries
        /\ \/ ks.types[k] = t
           \/ ks.types[k] = None /\ t = "list" /\ Cardinality(E) = 1
        /\ ks' = [touched EXCEPT
                    !.data[t][k] = rest,
                    !.types[k] = IF Remains(t, rest) THEN @ ELSE None,
                    !.used = Credit(@, EntryCost * Cardinality(E))]
        /\ UNCHANGED <<policy, cap>>

\* DEL.
Del(k) ==
    /\ ks' = Deleted(ks, k)
    /\ UNCHANGED <<policy, cap>>

\* FLUSHDB of the one tenant: every registered key.
FlushDb ==
    /\ ks' = FoldSet(LAMBDA k, s : Deleted(s, k), ks, {k \in Keys : ks.types[k] # None})
    /\ UNCHANGED <<policy, cap>>

\* EXPIRE, and PERSIST.
Expire(k) ==
    LET now == Current(ks, k)
    IN  /\ ks' = IF now.types[k] = None THEN now ELSE [now EXCEPT !.ttl[k] = "ahead"]
        /\ UNCHANGED <<policy, cap>>

Persist(k) ==
    LET now == Current(ks, k)
    IN  /\ ks' = IF now.types[k] = None THEN now ELSE [now EXCEPT !.ttl[k] = "none"]
        /\ UNCHANGED <<policy, cap>>

\* GET, HGET, LRANGE, SMEMBERS, ...: the type of an unregistered key passes.
Read(t, k) ==
    LET now == Current(ks, k)
    IN  /\ ks' = IF ks.ttl[k] # "passed" /\ now.types[k] \in {None, t}
                    /\ now.data[t][k] # NoObject
                 THEN Touch(now, k)
                 ELSE now
        /\ UNCHANGED <<policy, cap>>

TimePasses(k) ==
    /\ ks.ttl[k] = "ahead"
    /\ ks' = [ks EXCEPT !.ttl[k] = "passed"]
    /\ UNCHANGED <<policy, cap>>

\* sweep(): every key whose expiresAt has passed.
Sweep ==
    LET due == {k \in Keys : ks.ttl[k] = "passed"}
    IN  /\ due # {}
        /\ ks' = FoldSet(LAMBDA k, s : Expired(s, k), ks, due)
        /\ UNCHANGED <<policy, cap>>

\* CONFIG SET maxmemory-policy.
SetPolicy ==
    /\ policy' \in Policies
    /\ UNCHANGED <<ks, cap>>

\* CONFIG SET maxmemory: a lower cap evicts nothing by itself.
SetCap ==
    /\ cap' \in Caps
    /\ UNCHANGED <<ks, policy>>

\* Variant: the LRU list is not rebuilt.
RestartUnlisted ==
    /\ ks' = [ks EXCEPT !.lru = <<>>, !.used = Held(ks), !.slips = @ \ {"header"}]
    /\ UNCHANGED <<policy, cap>>

(* The process saves its last snapshot, ends, and imports it: the bytes    *)
(* are charged whatever the cap, the LRU list is filled in some order.     *)
Restart ==
    \E order \in SetToSeqs({k \in Keys : ks.types[k] # None}) :
        /\ ks' = [ks EXCEPT !.lru = order, !.used = Held(ks), !.slips = @ \ {"header"}]
        /\ UNCHANGED <<policy, cap>>

Next ==
    \/ \E k \in Keys :
         \/ \E c \in TextCosts :
              \/ \E ttl \in {"ahead", "none", "keep"} : Set(k, c, ttl)
              \/ SetNX(k, c)
              \/ \E j \in Keys, d \in TextCosts : MSet(k, j, c, d)
         \/ \E n \in 0..MaxText : AppendText(k, n)
         \/ \E t \in Collections :
              \/ \E seq \in Additions : Add(t, k, seq)
              \/ \E E \in SUBSET Fields : Take(t, k, E)
         \/ \E t \in Types : Read(t, k)
         \/ Del(k)
         \/ Expire(k)
         \/ Persist(k)
         \/ TimePasses(k)
    \/ FlushDb
    \/ Sweep
    \/ SetPolicy
    \/ SetCap
    \/ Restart

Spec == Init /\ [][Next]_vars
-----------------------------------------------------------------------------
(***************************************************************************)
(* Properties                                                              *)
(***************************************************************************)

\* Every field has the shape the code gives it; the LRU list has a key once.
TypeOK ==
    /\ ks.types \in [Keys -> Types \cup {None}]
    /\ ks.data["string"] \in [Keys -> {NoObject} \cup TextCosts]
    /\ \A t \in Collections : ks.data[t] \in [Keys -> {NoObject} \cup SUBSET Fields]
    /\ ks.ttl \in [Keys -> {"none", "ahead", "passed"}]
    /\ ks.lru \in Seq(Keys)
    /\ IsInjective(ks.lru)
    /\ ks.used \in Nat
    /\ ks.slips \subseteq {"own", "header"}
    /\ policy \in Policies
    /\ cap \in Caps

(* The bytes charged are those held, through evictions in the middle of a  *)
(* write, writes that fail, partial commands, expiry and restarts.         *)
BytesExact == ks.slips = {} => ks.used = Held(ks)

\* No key is without its value's type, or has values of two types.
Owned == \A k \in Keys :
    /\ ks.data["string"][k] # NoObject => ks.types[k] = "string"
    /\ \A t \in Collections : ks.data[t][k] \notin {{}, NoObject} => ks.types[k] = t

OneOwner == "own" \notin ks.slips => Owned

(* Every registered key is in the LRU list, where eviction finds it, after *)
(* whatever sequence of evictions, failures, drains and restarts.          *)
Evictable == \A k \in Keys : ks.types[k] # None => Contains(ks.lru, k)

\* The step writes the key k.
Writes(k) ==
    \/ \E c \in TextCosts :
         \/ \E ttl \in {"ahead", "none", "keep"} : Set(k, c, ttl)
         \/ SetNX(k, c)
         \/ \E j \in Keys, d \in TextCosts : MSet(k, j, c, d) \/ MSet(j, k, d, c)
    \/ \E n \in 0..MaxText : AppendText(k, n)
    \/ \E t \in Collections : \E seq \in Additions : Add(t, k, seq)

\* The step makes the value of k longer.
Grows(k) == \E t \in Types : Bytes(t, ks'.data[t][k]) > Bytes(t, ks.data[t][k])

(* A step that adds to a value ends under the cap, whatever was evicted,   *)
(* thrown or lowered before; MSET and multi-entry commands add several.    *)
CapKept ==
    [][((\E k \in Keys : Grows(k)) /\ "own" \notin ks'.slips) => Held(ks') <= cap]_vars

MayEvict(k) ==
    \/ policy = "allkeys-lru"
    \/ policy = "volatile-lru" /\ ks.ttl[k] = "ahead"

(* A write that drops another key has evicted it: the policy allows it, and *)
(* no candidate used less recently is spared, unless the write used it.    *)
EvictionOrder ==
    [][\A i \in DOMAIN ks.lru :
         LET j == ks.lru[i]
         IN  (ks.types[j] # None /\ ks'.types[j] = None
                /\ \E k \in Keys \ {j} : Grows(k)) =>
               /\ MayEvict(j)
               /\ \A h \in 1..(i - 1) :
                    (MayEvict(ks.lru[h]) /\ Contains(ks'.lru, ks.lru[h])) =>
                      Writes(ks.lru[h])]_vars
=============================================================================
