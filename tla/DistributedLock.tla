---------------------------- MODULE DistributedLock ----------------------------
(***************************************************************************)
(* The lock service of src/src/services/DistributedLock.ts: mutexes,       *)
(* read-write locks and semaphores, their TTLs and renewal timers, the     *)
(* waiters of waitForLock(), and the snapshots of Persistence.ts from      *)
(* which a restarted process takes its locks.                              *)
(*                                                                         *)
(* A token stands for one acquisition.  Of its expiresAt only one thing    *)
(* matters: whether it is still to come (the token is in leases).  Timers  *)
(* may be late: a lease can run out although a timer would have renewed    *)
(* it.  The retry loops of the acquire methods keep nothing between two    *)
(* attempts, so each attempt is an action.  A key without an entry and one *)
(* with an empty entry behave alike and are not told apart.                *)
(***************************************************************************)
EXTENDS Naturals, Sequences, FiniteSets, SequencesExt

CONSTANTS
    Keys,
    Tokens,       \* the acquisitions that may succeed, each at most once
    KeyOf,        \* [Tokens -> Keys]
    KindOf,       \* [Tokens -> Kinds]
    LimitOf,      \* [Tokens -> Nat]: the limit the caller of acquireSemaphore() passes
    AutoRenewed,  \* the mutex acquisitions with autoRenew
    Casts,        \* bound: the acquisitions that one behaviour may contain
    Waiters,      \* calls of waitForLock()
    AwaitedBy,    \* [Waiters -> Keys]
    MaxRenewals,  \* bound: renewals by clients
    MaxRestarts,  \* bound: restarts at a moment of no one's choice
    NoToken

Kinds == {"mutex", "read", "write", "permit"}

ASSUME LockAssumption ==
    /\ KeyOf \in [Tokens -> Keys]
    /\ KindOf \in [Tokens -> Kinds]
    /\ LimitOf \in [Tokens -> Nat \ {0}]
    /\ AutoRenewed \subseteq {t \in Tokens : KindOf[t] = "mutex"}
    /\ Casts \subseteq SUBSET Tokens
    /\ AwaitedBy \in [Waiters -> Keys]
    /\ MaxRenewals \in Nat
    /\ MaxRestarts \in Nat
    /\ NoToken \notin Tokens

VARIABLES
    tables,     \* locks, rwLocks and semaphores: who holds each key
    undated,    \* keys whose mutex has a string for its expiresAt
    timer,      \* [Keys -> Tokens or NoToken]: renewalTimers
    ticking,    \* tokens whose renewal interval is running, registered or not
    leases,     \* tokens whose expiresAt is still to come
    queue,      \* [Keys -> Seq(Waiters)]: lockWaiters
    waiting,    \* [Waiters -> state of the promise]
    saved,      \* the tables of the latest snapshot
    granted,    \* history: tokens handed out
    ended,      \* history: tokens released, or released by force
    unsaved,    \* history: tokens granted or renewed since the snapshot
    forgotten,  \* history: tokens whose grant or renewal a restart has forgotten
    renewals,
    restarts,
    cast        \* the acquisitions of this behaviour

vars == <<tables, undated, timer, ticking, leases, queue, waiting, saved, granted,
          ended, unsaved, forgotten, renewals, restarts, cast>>

lockVars == <<tables, undated, timer, ticking, leases>>
waitVars == <<queue, waiting>>
pastVars == <<saved, granted, ended, unsaved, forgotten, renewals, restarts, cast>>

Tables == [mutex: [Keys -> Tokens \cup {NoToken}],
           writer: [Keys -> Tokens \cup {NoToken}],
           readers: [Keys -> SUBSET Tokens],
           holders: [Keys -> SUBSET Tokens]]

EmptyTables == [mutex |-> [k \in Keys |-> NoToken],
                writer |-> [k \in Keys |-> NoToken],
                readers |-> [k \in Keys |-> {}],
                holders |-> [k \in Keys |-> {}]]

InTables(T) ==
    (UNION {{T.mutex[k], T.writer[k]} \cup T.readers[k] \cup T.holders[k] : k \in Keys})
        \ {NoToken}

Init ==
    /\ tables = EmptyTables
    /\ undated = {}
    /\ timer = [k \in Keys |-> NoToken]
    /\ ticking = {}
    /\ leases = {}
    /\ queue = [k \in Keys |-> <<>>]
    /\ waiting = [w \in Waiters |-> "idle"]
    /\ saved = EmptyTables
    /\ granted = {}
    /\ ended = {}
    /\ unsaved = {}
    /\ forgotten = {}
    /\ renewals = 0
    /\ restarts = 0
    /\ cast \in Casts

-----------------------------------------------------------------------------
Unused(t, kind) == t \in cast \ granted /\ KindOf[t] = kind

\* The token t is handed out.
Grant(t) ==
    /\ granted' = granted \cup {t}
    /\ unsaved' = unsaved \cup {t}
    /\ UNCHANGED <<saved, ended, forgotten, renewals, restarts, cast>>

\* The token t is given up.
End(t) ==
    /\ ended' = ended \cup {t}
    /\ UNCHANGED <<saved, granted, unsaved, forgotten, renewals, restarts, cast>>

(* notifyWaiters() for each key of S, and once more for each key of again: *)
(* the first waiter leaves the queue and its promise is resolved.          *)
Notify(S, again) ==
    LET calls(k) == (IF k \in S THEN 1 ELSE 0) + (IF k \in again THEN 1 ELSE 0)
        rest(k) == SubSeq(queue[k], calls(k) + 1, Len(queue[k]))
        Woken(w) == w \in ToSet(queue[AwaitedBy[w]]) \ ToSet(rest(AwaitedBy[w]))
    IN  /\ queue' = [k \in Keys |-> rest(k)]
        /\ waiting' = [w \in Waiters |-> IF Woken(w) THEN "woken" ELSE waiting[w]]

\* clearAutoRenewal() for the keys of S: the registered timer only.
ClearAutoRenewal(S) ==
    /\ ticking' = ticking \ {timer[k] : k \in S}
    /\ timer' = [k \in Keys |-> IF k \in S THEN NoToken ELSE timer[k]]

-----------------------------------------------------------------------------
\* A mutex whose expiresAt has not passed.
Locked(k) == tables.mutex[k] \in leases

\* tryAcquire() gets as far as its check, and the check passes.  On a string
\* for expiresAt it throws, and the request fails.
Free(k) == k \notin undated /\ ~Locked(k)

(* acquire(), an attempt that succeeds: an expired entry is overwritten,   *)
(* its renewal timer is left running and, with autoRenew, unregistered.    *)
Acquire(t) ==
    LET k == KeyOf[t]
    IN  /\ Unused(t, "mutex")
        /\ Free(k)
        /\ tables' = [tables EXCEPT !.mutex[k] = t]
        /\ leases' = leases \cup {t}
        /\ IF t \in AutoRenewed
           THEN ticking' = ticking \cup {t} /\ timer' = [timer EXCEPT ![k] = t]
           ELSE UNCHANGED <<ticking, timer>>
        /\ Grant(t)
        /\ UNCHANGED <<undated, waitVars>>

\* Variant: the renewal timer is not cleared.
UnlockOnly(k) ==
    /\ tables' = [tables EXCEPT !.mutex[k] = NoToken]
    /\ undated' = undated \ {k}
    /\ Notify({k}, {})
    /\ UNCHANGED <<leases, ticking, timer>>

\* The entry of k is deleted, by its holder or by an administrator.
Unlock(k) ==
    /\ tables' = [tables EXCEPT !.mutex[k] = NoToken]
    /\ undated' = undated \ {k}
    /\ ClearAutoRenewal({k})
    /\ Notify({k}, {})
    /\ UNCHANGED leases

\* release(), also of an expired entry that has not been swept.
Release(t) ==
    /\ tables.mutex[KeyOf[t]] = t
    /\ Unlock(KeyOf[t])
    /\ End(t)

\* forceRelease().
ForceRelease(k) ==
    /\ tables.mutex[k] # NoToken
    /\ Unlock(k)
    /\ End(tables.mutex[k])

\* expiresAt becomes a later date, also when it had passed.
Extend(t) ==
    /\ leases' = leases \cup {t}
    /\ undated' = undated \ {KeyOf[t]}
    /\ unsaved' = unsaved \cup {t}

\* renew() by the holder.
Renew(t) ==
    /\ tables.mutex[KeyOf[t]] = t
    /\ renewals < MaxRenewals
    /\ renewals' = renewals + 1
    /\ Extend(t)
    /\ UNCHANGED <<tables, timer, ticking, waitVars, saved, granted, ended,
                   forgotten, restarts, cast>>

(* The renewal interval of t fires: it renews the lock, or, when t does    *)
(* not hold it any more, clears the timer registered for the key.          *)
RenewalTick(t) ==
    LET k == KeyOf[t]
    IN  /\ t \in ticking
        /\ IF tables.mutex[k] = t
           THEN Extend(t) /\ UNCHANGED <<ticking, timer>>
           ELSE ClearAutoRenewal({k}) /\ UNCHANGED <<leases, undated, unsaved>>
        /\ UNCHANGED <<tables, waitVars, saved, granted, ended, forgotten,
                       renewals, restarts, cast>>

-----------------------------------------------------------------------------
\* A write lock whose writerExpiresAt has not passed.
Written(k) == tables.writer[k] \in leases

\* acquireRead(): an expired writer is ignored and left in place.
AcquireRead(t) ==
    /\ Unused(t, "read")
    /\ ~Written(KeyOf[t])
    /\ tables' = [tables EXCEPT !.readers[KeyOf[t]] = @ \cup {t}]
    /\ leases' = leases \cup {t}
    /\ Grant(t)
    /\ UNCHANGED <<undated, timer, ticking, waitVars>>

ReleaseRead(t) ==
    /\ t \in tables.readers[KeyOf[t]]
    /\ tables' = [tables EXCEPT !.readers[KeyOf[t]] = @ \ {t}]
    /\ Notify({KeyOf[t]}, {})
    /\ End(t)
    /\ UNCHANGED <<undated, timer, ticking, leases>>

\* Variant: a writer looks only for another writer.
ReadersIgnored(k) == TRUE

\* No reader is left once the expired ones are pruned.
NoReaders(k) == tables.readers[k] \cap leases = {}

(* acquireWrite(): an attempt prunes the expired readers, whether or not   *)
(* it succeeds.                                                            *)
AcquireWrite(t) ==
    LET k == KeyOf[t]
        pruned == [tables EXCEPT !.readers[k] = @ \cap leases]
    IN  /\ Unused(t, "write")
        /\ IF NoReaders(k) /\ ~Written(k)
           THEN /\ tables' = [pruned EXCEPT !.writer[k] = t]
                /\ leases' = leases \cup {t}
                /\ Grant(t)
           ELSE tables' = pruned /\ UNCHANGED <<leases, pastVars>>
        /\ UNCHANGED <<undated, timer, ticking, waitVars>>

ReleaseWrite(t) ==
    /\ tables.writer[KeyOf[t]] = t
    /\ tables' = [tables EXCEPT !.writer[KeyOf[t]] = NoToken]
    /\ Notify({KeyOf[t]}, {})
    /\ End(t)
    /\ UNCHANGED <<undated, timer, ticking, leases>>

HasPermit(k, limit) == Cardinality(tables.holders[k]) < limit

\* acquireSemaphore(): the limit is the caller's, permits have no TTL.
AcquirePermit(t) ==
    /\ Unused(t, "permit")
    /\ HasPermit(KeyOf[t], LimitOf[t])
    /\ tables' = [tables EXCEPT !.holders[KeyOf[t]] = @ \cup {t}]
    /\ Grant(t)
    /\ UNCHANGED <<undated, timer, ticking, leases, waitVars>>

ReleasePermit(t) ==
    /\ t \in tables.holders[KeyOf[t]]
    /\ tables' = [tables EXCEPT !.holders[KeyOf[t]] = @ \ {t}]
    /\ Notify({KeyOf[t]}, {})
    /\ End(t)
    /\ UNCHANGED <<undated, timer, ticking, leases>>

-----------------------------------------------------------------------------
\* waitForLock(), whether or not the lock is free.
WaitForLock(w) ==
    /\ waiting[w] = "idle"
    /\ waiting' = [waiting EXCEPT ![w] = "waiting"]
    /\ queue' = [queue EXCEPT ![AwaitedBy[w]] = Append(@, w)]
    /\ UNCHANGED <<lockVars, pastVars>>

\* Variant: a waiter that times out stays in the queue.
WaitRejected(w) ==
    /\ waiting[w] = "waiting"
    /\ waiting' = [waiting EXCEPT ![w] = "timeout"]
    /\ UNCHANGED <<queue, lockVars, pastVars>>

\* The timer of waitForLock(): removeWaiter() and the rejection.
WaitTimesOut(w) ==
    /\ waiting[w] = "waiting"
    /\ waiting' = [waiting EXCEPT ![w] = "timeout"]
    /\ queue' = [queue EXCEPT ![AwaitedBy[w]] = RemoveFirst(@, w)]
    /\ UNCHANGED <<lockVars, pastVars>>

\* Time passes: an expiresAt is reached.
Expire(t) ==
    /\ t \in leases
    /\ leases' = leases \ {t}
    /\ UNCHANGED <<tables, undated, timer, ticking, waitVars, pastVars>>

\* Variant: a lock with a registered renewal timer is left to its interval.
ExpiredUnrenewed(holder) ==
    {k \in Keys : holder[k] # NoToken /\ holder[k] \notin leases /\ timer[k] = NoToken}

Expired(holder) == {k \in Keys : holder[k] # NoToken /\ holder[k] \notin leases}

\* The expiry checker finds no string for an expiresAt and something to do.
Sweep ==
    LET mutexes == Expired(tables.mutex)
        writers == Expired(tables.writer)
        stale == {k \in Keys : ~(tables.readers[k] \subseteq leases)}
    IN  /\ undated = {}
        /\ mutexes \cup writers \cup stale # {}
        /\ tables' =
             [tables EXCEPT
                !.mutex = [k \in Keys |-> IF k \in mutexes THEN NoToken ELSE @[k]],
                !.writer = [k \in Keys |-> IF k \in writers THEN NoToken ELSE @[k]],
                !.readers = [k \in Keys |-> @[k] \cap leases]]
        /\ ClearAutoRenewal(mutexes)
        /\ Notify(mutexes, writers)
        /\ UNCHANGED <<undated, leases, pastVars>>

-----------------------------------------------------------------------------
(* save(): export() to the snapshot table.  A save that fails, or that a   *)
(* crash overtakes, changes nothing.                                       *)
Save ==
    /\ saved # tables \/ unsaved # {}
    /\ saved' = tables
    /\ unsaved' = {}
    /\ UNCHANGED <<lockVars, waitVars, granted, ended, forgotten, renewals, restarts,
                   cast>>

(* The process ends and starts again: import() takes the tables from the   *)
(* snapshot, or restore() fails and they are empty.  JSON has made strings *)
(* of the mutexes' dates, and import() turns only those of the read-write  *)
(* locks back.  Of a renewal since the snapshot nothing is known: the      *)
(* older expiresAt may have passed or not.                                 *)
Reload ==
    \E T \in {saved, EmptyTables} :
        LET renewed == unsaved \cap InTables(T)
        IN  /\ tables' = T
            /\ undated' = {k \in Keys : T.mutex[k] # NoToken}
            /\ timer' = [k \in Keys |-> NoToken]
            /\ ticking' = {}
            /\ \E S \in SUBSET renewed : leases' = (leases \ renewed) \cup S
            /\ queue' = [k \in Keys |-> <<>>]
            /\ waiting' = [w \in Waiters |->
                             IF waiting[w] = "waiting" THEN "gone" ELSE waiting[w]]
            /\ forgotten' = forgotten \cup unsaved \cup (granted \ InTables(T))
            /\ unsaved' = {}
            /\ UNCHANGED <<saved, granted, ended, renewals, cast>>

Restart ==
    /\ restarts < MaxRestarts
    /\ restarts' = restarts + 1
    /\ Reload

(* The expiry checker calls getTime() on a string: the exception leaves    *)
(* the interval's callback and ends the process, which starts again.       *)
SweepThrows ==
    /\ undated # {}
    /\ Reload
    /\ UNCHANGED restarts

Next ==
    \/ \E t \in Tokens :
         \/ Acquire(t)
         \/ Release(t)
         \/ Renew(t)
         \/ RenewalTick(t)
         \/ AcquireRead(t)
         \/ ReleaseRead(t)
         \/ AcquireWrite(t)
         \/ ReleaseWrite(t)
         \/ AcquirePermit(t)
         \/ ReleasePermit(t)
         \/ Expire(t)
    \/ \E k \in Keys : ForceRelease(k)
    \/ \E w \in Waiters : WaitForLock(w) \/ WaitTimesOut(w)
    \/ Sweep
    \/ Save
    \/ Restart
    \/ SweepThrows

(* The expiry checker's interval fires, and time passes for the leases     *)
(* that no interval renews.  Nothing is assumed of clients.                *)
Fairness ==
    /\ WF_vars(Sweep)
    /\ WF_vars(SweepThrows)
    /\ WF_vars(\E t \in Tokens \ ticking : Expire(t))

Spec == Init /\ [][Next]_vars

FairSpec == Spec /\ Fairness
-----------------------------------------------------------------------------
(***************************************************************************)
(* Properties                                                              *)
(***************************************************************************)

\* Every variable has the shape the code gives it.
TypeOK ==
    /\ tables \in Tables
    /\ undated \subseteq Keys
    /\ timer \in [Keys -> Tokens \cup {NoToken}]
    /\ ticking \subseteq Tokens
    /\ leases \subseteq Tokens
    /\ queue \in [Keys -> Seq(Waiters)]
    /\ waiting \in [Waiters -> {"idle", "waiting", "woken", "timeout", "gone"}]
    /\ saved \in Tables
    /\ granted \subseteq Tokens
    /\ ended \subseteq granted
    /\ unsaved \subseteq granted
    /\ forgotten \subseteq granted
    /\ renewals \in 0..MaxRenewals
    /\ restarts \in 0..MaxRestarts
    /\ cast \in Casts

(* Tokens whose holders may rely on them: their TTL has not run out, they  *)
(* were not given up, and no restart has forgotten them or their renewal.  *)
Valid == (granted \cap leases) \ (ended \cup forgotten)

Mutexes == {t \in Tokens : KindOf[t] = "mutex"}

Conflict(t, u) ==
    /\ t # u
    /\ KeyOf[t] = KeyOf[u]
    /\ \/ KindOf[t] = "mutex" /\ KindOf[u] = "mutex"
       \/ KindOf[t] = "write" /\ KindOf[u] \in {"read", "write"}

(* A mutex has one holder, and a writer excludes readers and other         *)
(* writers, through expiry, overwriting of expired entries, late renewals, *)
(* forced releases and restarts from an older snapshot.                    *)
Exclusion == \A t, u \in Valid : ~Conflict(t, u)

(* A lock that was released, by its holder or by force, is not renewed     *)
(* afterwards: its interval has stopped, although others may have replaced *)
(* and cleared the registered timer meanwhile.                             *)
ReleaseStopsRenewal == \A t \in ended : t \notin ticking

(* A wake-up is never spent on a waiter that has settled: lockWaiters      *)
(* holds exactly the pending promises, each once.                          *)
WakeupsReachWaiters ==
    /\ \A k \in Keys : IsInjective(queue[k])
    /\ \A w \in Waiters : (waiting[w] = "waiting") <=> (w \in ToSet(queue[AwaitedBy[w]]))

(* A mutex whose holder is gone is freed after its TTL, unless an interval *)
(* renews it or the expiry checker has met a restored lock.                *)
AbandonedLockFreed ==
    \A t \in Mutexes :
        (tables.mutex[KeyOf[t]] = t)
            ~> (tables.mutex[KeyOf[t]] # t \/ t \in ticking \/ undated # {})

(* DistributedLock.ts:4 "Time to live in milliseconds": a lock does not    *)
(* outlive its TTL, wherever it was restored from.                         *)
RestoredLockFreed ==
    \A t \in Mutexes :
        (tables.mutex[KeyOf[t]] = t) ~> (tables.mutex[KeyOf[t]] # t \/ t \in ticking)

(* DistributedLock.ts:7 "Auto-renew lock before expiry": as long as a lock *)
(* acquired with autoRenew is held, its renewal interval runs.             *)
AutoRenewHolds ==
    restarts = 0 =>
        \A t \in AutoRenewed : tables.mutex[KeyOf[t]] = t => t \in ticking
=============================================================================
