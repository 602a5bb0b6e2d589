# A TLA+ model of erix-store

erix-store is a multi-tenant in-memory data store served over HTTP and
WebSocket, with a job queue that survives crashes through a write-ahead log in
Postgres. This directory holds TLA+ modules translated from its source, the TLC
configurations that check them on small instances, and theorems about them
checked by TLAPS. `PROJECT.json` lists every run, the source lines behind every
definition, the hazards and the findings.

## Inventory

All state lives in one Node.js process (`src/src/index.ts` wires it): a request
handler or a timer callback runs to its next `await` without interruption, so
the atomic steps are the stretches between awaits. The hard behaviour comes
from timers, from awaits on Postgres, from crashes, and from clients that retry.

| part | state | operations | what can go wrong |
|---|---|---|---|
| `JobQueueV2` | heap per queue; delayed, active, completed, failed and dead-letter arrays; active count per tenant | add, claim, complete, fail, heartbeat, retryJob, retryDLQ, clearCompleted, 1 s delayed tick, 15 s reaper, rebuildFromWAL, destroy | one job in two arrays, lost jobs, slots that leak, reaper against worker, retries before `runAt` |
| `BatchedJobWAL` | buffer, batch in flight, flush timer; table `store_job_wal` | log, flush (with retries), replay, prune, destroy | order after a failed batch, duplicated or dropped events, entries without a timer, replay of a stale state |
| `DataRetention` | the same table | age-based deletes | rows of live jobs deleted |
| `DistributedLock` | locks, read-write locks, semaphores, waiters, renewal timers | acquire, renew, release, waitForLock, export, import | two holders, a timer of a former holder, restored locks |
| keyspace: `Store`, `TypeRegistry`, `HeapTTLManager`, `MemoryAccountant`, `structures/*`, `commands.ts` | typed keys, expiry heap, bytes per tenant, LRU list | the write and read commands, eviction, lazy and active expiry | refund and charge out of step, a key that is half there, an old TTL on a new key |
| `Persistence`, `AofLog`, `aofWriters` | snapshot rows, append-only file | save, restore, append, rewrite, replay | verbs applied twice, torn lines, syncs that fail, changes that were never logged |
| `CacheService` | entries, tag index, stale copies, in-flight promises | get, set, delete, getOrSet, warm, invalidation, eviction, export, import | sizes and index out of step, two loaders, an invalidated value that returns |
| worker SDK | poll loop, executions and their heartbeats | run, stop, poll, processJob | execution twice, a loop that dies or never ends, heartbeats that stop |
| client transports, `ws.ts` | pending requests, buffer, connection | request, pipeline, reconnect, time-out, close | requests that never settle or run twice |
| `keyValidator`, `RateLimiter`, `UsageMeter` | cache of verdicts; windows; usage buffer | validate, invalidate; check, prune; record, flush | stale verdicts; windows that end early; usage lost or counted twice |
| `PriorityQueue`, `SortedSet` on `BinaryHeap`, `SkipList` | heap; towers and scores | enqueue, dequeue; zadd, zrem, ranges | order and index invariants that few shapes expose |
| `PubSub`, `SemanticCacheService`, `AnomalyDetector`, `SlowLog`, `ConfigRegistry` | subscriptions, embeddings, statistics, settings | publish, search, record | not modelled, see below |

Interaction: routes and `commands.ts` call the services; `JobQueueV2` calls
`BatchedJobWAL.log()` after each mutation and does not wait for it;
`Persistence` saves the store, locks and cache and prunes the log; `index.ts`
replays log, snapshot and AOF before it serves. Workers and clients reach the
store by requests whose answers may be lost.

What makes each part correct: the **queue** executes a job at most
`maxAttempts` times, at most one worker has it, no unfinished job disappears, a
tenant never exceeds its cap and is never starved by it; the **log** keeps the
order of each job's events and everything it accepted reaches the table; **queue
and log** together lose no unfinished job in a crash and never run a completed
one again; a **lock** has one holder until its TTL; the **keyspace** accounts
for exactly the bytes it holds; **snapshot and AOF** reproduce the state before
the crash; the **cache** has no entry older than the last invalidation of its key that
its process knows of, and asks each source once at a time; a **worker** executes only
what it holds and polls exactly while it runs; a **session** settles every promise and runs nothing
twice; a **verdict** on a key ends with the key; **usage** is counted once; an
**ordered structure** answers in order.

## Modules

```
JobQueue  <--EXTENDS-- DurableQueue --INSTANCE--> JobWal <--EXTENDS-- WalClients
      ^
      +------EXTENDS-- Worker

KeyValidator, RateLimiter, UsageMeter, SortedSet, PriorityQueue <--EXTENDS-- Services

Keyspace      Cache      AofRecovery      Session      DistributedLock

theorems:   JobQueueProofs  <--EXTENDS--  DurableQueueProofs, ClientProofs
            DistributedLockProofs, LogProofs, KeyspaceProofs, CacheProofs, ServicesProofs
```

**`JobQueue`** is `JobQueueV2.ts` in memory. A `Job` is one JavaScript object
that several collections refer to, so its fields are one record (`job[j]`) and
the collections hold references: `heap`, `delayed` and `dlq` count them (the
same object can be in one of them twice), `active` is the array of active
entries, `completed` and `failed` are capped sequences. Actions carry the names
of the methods. `PromoteDelayed` is the whole delayed tick. The reaper is
`ReaperFires` (it takes its copy of the active entries) and one `ReaperVisits`
per iteration; `Idle` guards everything else, since the loop runs to completion.
Time is reduced to the two comparisons the code makes: `due` (`runAt` has
passed; `RunAtPasses`) and `hb` (none, fresh, silent; `HeartbeatAges`).
`claim()` takes a maximal job of the heap among those whose tenant is below its
cap, which is what its pop-and-put-back loop computes; of equal jobs it may
take either.

**`JobWal`** is `BatchedJobWAL.ts`: `wal` is the object (buffer, batch in
flight, timer, attempt), `table` the rows in id order. `Flushed` is `flush()` up
to its first await; `InsertSucceeds`, `InsertFails` and `InsertGivesUp` are the
ways an INSERT ends, and an INSERT that reports an error may have committed.
`Prune` deletes the whole history of some finished jobs.

**`WalClients`** lets any caller log events of any job. The n-th accepted entry
carries n as its snapshot, so the order can be observed.

**`DurableQueue`** composes the two as `index.ts` does. An action is the
queue's action conjoined with the entries it logs; `RetentionDeletes` is the
clean-up of `DataRetention.ts`, for which any finished job may be old enough and
any other whose run time is not in the future; `Restart` ends the process in any
state (crash, forced exit, or after `Destroy`) and rebuilds the queue from
the rows, or from nothing when `replay()` fails. `CloseServer`, `Destroy` and
`FlushAwaited` are the graceful shutdown.

**`DistributedLock`** is `DistributedLock.ts` with the snapshots of
`Persistence.ts`. A token is one acquisition; `tables` are the maps `locks`,
`rwLocks` and `semaphores`; `leases` are the tokens whose `expiresAt` is to come.
`ticking` are the renewal intervals that run, `timer` the one registered per key:
they differ when an expired entry is overwritten. Each attempt of an acquire
loop is an action, also a failing `AcquireWrite`, which prunes expired readers.
`Sweep` is the expiry checker; `SweepThrows` is what happens when it meets a
mutex restored by `import()`, whose date is still a string: the process ends and
restarts. `granted`, `ended`, `unsaved` and `forgotten` are history: the
property speaks of tokens that are valid in the eyes of their holders.

**`Keyspace`** is `Store.ts` with its registry, sub-stores, TTLs, memory
accountant and the commands over them. A command is atomic, but it is a chain
of method calls in which a charge may evict keys and an `OOMError` leaves what
was done; so the methods are operators from one state record to the next
(`Deleted`, `Charge`, `Reserve`, `StringSet`, `MapAdd`, `ListAdd`), and an action
composes them in the order of the handler. A string stands for its cost, a
collection for the set of its entries. `slips` is history: it records that a
charge has evicted the key being written (`own`) or that `append()` has charged a
header twice (`header`), so that the other properties can be stated for
everything else. `Restart` is an exit with a final snapshot and its import.

**`AofRecovery`** is the dispatcher with the append-only file, the snapshots and
`bootstrap()`. Three stores stand for what verbs do to a store, and for what a second
application does: a string with or without a TTL is replaced, a list grows and shrinks
by what it holds (`RPUSH`, `LPOP`, `LTRIM`), and a priority queue does so too and is in
no snapshot. Every verb of `MUTATING_VERBS` is one of these (the module's comment says
which). Stores are lengths. A line of the file is an entry or junk; `cut` says that the
last line has no newline yet, `synced` how many lines the machine cannot lose.
`AppendUnsynced` is an `append()` whose sync throws, which is caught: the command is
answered. `RouteWrites` is a route that serves one operation and never reaches the
dispatcher; `Expires` and `Evicts` take keys away beside it as well. A rewrite may meet
a key whose TTL is over and which the sweep has not found: it writes the key without one
(`undated`). `restore()` may fail, or find the TTL over. `possible` (history) is what a
crash may leave, `slips` why the file may differ from the stores.

**`Cache`** is `CacheService.ts`: methods are atomic, a loader call is a record
`fetch[f]` that reads its source at one step and settles at a later one. A value is
the version of its source. `floor` (history) is the version a key was invalidated
at; a call that had read before is marked `late`. `saved` is the latest snapshot,
`saving` one that `save()` has exported and not yet written. `SaveExports` and
`SaveWrites` are two steps because the text is made after an await: entries and index
are copies, but the statistics are those of the second moment, and `skewed` (history)
records where that matters. `Restart` ends the process in any state and starts another
from the latest snapshot, of any age, or empty when `restore()` fails; the refresh
whose failure ends the process (`RefreshFails`) does the same. With the snapshot comes
the `floor` it was taken with: the new process knows nothing of invalidations since.

**`Worker`** composes worker processes with `JobQueue`. A poll loop is one timer or
one claim; an execution of `processJob()` is named by job and attempt, because each
claim raises the attempt. A request lies in `wire` until it is served, at most once
per transport; `ClaimGivenUp` and `CallGivenUp` leave it there. `stop()` is
`Stop` and, after its wait, `StopReturns`.

**`Session`** is `WebSocketTransport.ts` against `ws.ts` and `wsRouteHandler.ts`:
the pending map, the buffer, the connection with two queues of frames, handlers at
work. A request is itself its correlation id. `broken` is the outcome of a promise
whose resolve function threw.

**`Services`** puts together five modules that share no state. In
**`KeyValidator`** a lookup reads the key's row at one step and settles at another;
**`RateLimiter`** is the window counter against pruning and restarts;
**`UsageMeter`** the buffer and its flushes, each a transaction in five steps;
**`SortedSet`** the score map and the skip list, pointer by pointer, with towers of
any height; **`PriorityQueue`** the array of the heap, and beside it `kept`, the heap
that a replay of the log would build: what is logged does to `kept` what it does to
`heap`, `Rewrite` builds `kept` anew from the heap's places, and `Restart` puts it in the
heap's stead, with any commands between. `strayed` (history) says that a `DEQUEUE` in
the log takes another entry than was served. Their loops are recursive functions on the
number of rounds, with as many rounds as there are elements, which the proofs show to be enough. Their invariants
compare answers with a definition that knows only
what was put in (`Ranked`, `Precedes`).

A module `XProofs` extends module `X` and holds the theorems about it. `LogProofs`
holds those about `WalClients` and `AofRecovery`, the two logs; `ClientProofs` those
about `Worker` and `Session`, the two clients of the store; it and
`DurableQueueProofs` also extend `JobQueueProofs`, whose lemmas about the steps of the
queue they use.

Definitions commented `Variant` are slips a maintainer could make; each is used
in place of the definition it varies to see that a property notices.

## Runs

| run | instance | shows |
|---|---|---|
| `JobQueue` | 3 jobs, 2 tenants, 2 active slots, cap 2, one job with two attempts, delay, heartbeats and two re-queues | `TenantCap`, `NoJobLost`, `OnePlace`, `AttemptsAndRunAt`, `SilentClaimsEnd` |
| `WalClients` | 2 jobs, 4 entries, flush at 2, cap 3, 2 attempts | `LatestIsNewest`, `EventuallyDurable` |
| `DurableQueue` | 1 job with two attempts and one re-queue, flush at 2, cap 3, one failing INSERT, one restart | `LogCaughtUp`, `NoResurrection`, `AttemptsAcrossRestarts`, `CrashKeepsUnfinished` |
| `DistributedLock` | 1 key, 1 waiter, casts of 2 mutexes, 3 readers and writers, 2 permits, or one of two kinds; 1 client renewal, 1 restart | `Exclusion`, `ReleaseStopsRenewal`, `WakeupsReachWaiters`, `AbandonedLockFreed` |
| `Keyspace` | 2 keys, 5 types, 2 entries, strings of 2 lengths, cap 3, 3 policies | `BytesExact`, `OneOwner`, `Evictable` |
| `Eviction` | 3 keys, strings and hashes, caps 2 and 3, both LRU policies | `CapKept`, `EvictionOrder` |
| `AofRecovery` | transactions of one or two commands that set with a TTL, delete, push, pop, enqueue and dequeue, 3 commands in all, 2 policies, 2 ends, 1 snapshot beside the final ones, 1 fault of the file, failed sync or eviction | `FileMatchesMemory`, `AlwaysDurable`, `RecoveryExact` |
| `Cache` | 2 keys, a tag, values of 2 and 5 bytes in 4, 2 entries, 2 loader calls, 1 save and any number of crashes; once a save has begun, only entries as `warm()` loads them, one call at a time | `SizeExact`, `SingleFlight`, `InvalidationHolds` |
| `Worker` | 2 workers, one with both transports, 1 job with 2 attempts, 2 loops, 1 stop, 1 fault | `HandlerOwnsJob`, `HandlerKeepsBeating`, `PollsWhileRunning`, `StoppedWorkerRests` |
| `Session` | a request, a batch, a stream, 2 lost connections | `WaitingTracked`, `AtMostOnce`, `EveryRequestEnds` |
| `Services` | 5 kinds of key and 2 tenants with 2 lookups; limit 2 in a window of 2, 7 instants; 2 counters with 2 flushes; 3 members, 3 scores, 3 levels; 5 entries of 2 priorities | `RevocationTakesEffect`, `TenantMatches`, `WindowBounded`, `CountedOnce`, `RangesExact`, `ServedInOrder` |
| `RestartExact` | as `AofRecovery`, without routes | violation: a restart applies entries twice |

Why these bounds suffice. In `JobQueue`, two jobs of one tenant and one of
another are what the cap, the skipping of full tenants and priorities need; two
slots let a re-queued job be active twice; a buffer of one overflows; two
attempts separate a retry from an exhaustion. In `WalClients`, four entries fill
a batch and, while it is in flight, a second one; a flush fails, retries and
gives up. In `DurableQueue` the questions are about one job's history against
the table, so one job is enough; one failure and one restart at any point
reach every cut between memory, buffer, batch and table. The jobs of a queue are
bounded by `Jobs`, the re-queues by `MaxRequeues`, entries by `MaxLogged`, rows
left behind by a failed INSERT by `MaxRows`, failures by `MaxFaults`, restarts
by `MaxRestarts`, renewals by `MaxRenewals`; nothing else is bounded. In
`DistributedLock` the keys share nothing, and the kinds of lock share only the
waiters of their key and the restart, so a behaviour has one of a few casts of
acquisitions (`Casts`); two mutexes reach the overwriting of an expired entry
and its stale timer, three readers and writers the pruning of one of two
readers and a writer that follows an expired one. In `Keyspace`, a cap of 3 is
less than two full values, so every write may evict, fail, or fail after it has
evicted; two keys let a write evict another key or its own, and three tell an
order of eviction from its reverse. Keys and fields are symmetric. `Keyspace`
does not go on from a state in which a key has evicted itself (`Whole`),
`Eviction` in addition not from one with drifted bytes (`Exact`). The length of
strings is bounded by `MaxText`. In `AofRecovery`, a snapshot beside the final one lets
an older one commit after a newer, two ends meet a log that was begun over a restored
snapshot. In `Cache`, a large value evicts others and exceeds the cache alone; two calls
are what single flight forbids for one key and allows for two. A snapshot multiplies the
states, so once a save has begun the run goes on only with what `warm()` loads, one call
at a time (the `CONSTRAINT` `Snapshots`): that is enough to change the source, the entries
and the total between export and write, and one save lets a crash bring back any earlier
state, any number of times. In `Worker`, two
attempts let a reaped execution meet its successor, two loops are what a `run()`
during a `stop()` leaves. In `Session`, two lost connections let a request be
buffered, sent, and meet a second loss. In `Services`, seven instants hold three
windows; two flushes overlap; three members give a node one before, between and
after, with any towers; five entries make a heap of three levels, and three let two
`DEQUEUE`s after a rewrite serve other entries than their replay. The behaviours
of `Services` move one part each: the parts share nothing, so every interleaving
is made of these. The runs `Cache` and `Services` use symmetry among keys,
requests and flushes; they state no liveness. The runs, but for `Cache`, `Worker` and
`Services`, switch deadlock checking off: when all jobs are finished and the bounds are
used up the system stops.

Fairness. `JobQueue`: the interval callbacks of a running process keep firing,
so the tick and the reaper have weak fairness; nothing is assumed of workers.
`WalClients`: a timer that is armed fires, an INSERT ends, and of infinitely
many INSERTs one succeeds (strong fairness: Postgres is not down for ever; the
buffer is retried for ever by the code).
`DistributedLock`: the expiry checker fires and time passes for a lease that no
interval renews; nothing is assumed of clients or of renewal intervals.
`Worker`: timers fire, the server answers a claim that arrives, the reaper's loop
runs to its end; nothing is assumed of handlers. `Session`: timers fire, and an
attempt to connect succeeds in the end (drops are bounded by `MaxDrops`); nothing
is assumed of the server.

What holds only under a condition, and why the condition is there:

- `OnePlace`, `AttemptsAndRunAt`, `NoResurrection`, `LogCaughtUp` and
  `AttemptsAcrossRestarts` speak of jobs an operator re-queued by one route only. An
  exhausted job is in the failed buffer and in the dead-letter array, and re-queuing
  it from both queues it twice. Then one reference can be promoted after the other
  was completed, which is not logged: the log's latest entry says `completed`, the
  job waits.
- `LogCaughtUp` and `CrashKeepsUnfinished` exempt jobs whose latest event was
  rejected at the cap or forgotten by a failed `replay()`; the latter also
  jobs that were re-queued by hand (see `RequeuedJob`).
- `Exclusion` exempts tokens that a restart has forgotten: they were granted, or
  renewed, after the snapshot it took its locks from.
- `CrashKeepsUnfinished` also exempts jobs whose rows the retention clean-up took.
- `FileMatchesMemory` and `RecoveryExact` speak of a log in which no command is known
  to be missing: no route has written beside the dispatcher, no line was refused, torn
  or lost, no command failed half-way, since the last rewrite. Expiry and eviction are
  no commands: the string is exempt once it has expired, was evicted or was rewritten
  without its TTL, the list once it was evicted; everything else is claimed all the same
  (`ExpiredStaysGone` shows why). `AlwaysDurable` says that loss with the machine is not
  among the reasons under `always`, unless a sync has failed since the last rewrite
  (`SafeForHardKills`).
- Two things are taken for granted about the log. A rename survives the machine, though
  `rewrite()` does not sync the directory (`AofLog.ts:256-267`); with a second candidate
  for the file after each rewrite the run would be some thirty times larger. And a replay stays
  below the cap on memory: one that does not is evicted from, or answered with errors that
  are only printed (`index.ts:227`).
- `InvalidationHolds` exempts what a loader had read before the invalidation;
  `RevocationTakesEffect` what a lookup had. The code has no way to recall either.
- `InvalidationHolds` knows the invalidations the process knows. One that is made after
  the snapshot from which the next process starts is forgotten by the code and by
  `floor` (`RestartKeepsInvalidations` shows it). Within these limits the property still
  says that whatever comes back is found by its tags.
- `SizeExact` exempts the bytes, not the order and the number of entries, while the total
  is from another moment than the entries: after a restart from a snapshot that was
  written when the total had changed since its export, until `clear()`.
- `HandlerOwnsJob` exempts jobs the reaper took or whose report was given up: there
  the queue hands a job out again by design.
- `EveryRequestEnds` counts `broken` as an end, and `CountedOnce` asks for the exact
  count only while no connection broke: the findings say what happens then.
- `ServedInOrder` asks for the order of arrival until a restart from a rewritten log, and
  after a restart `waiting` is what the log had. How far that may be from what waited
  before is its second part, `ReplayServesAlike`: never in number and priorities, and in
  the entries themselves only when a replayed `DEQUEUE` has strayed (`RestartKeepsEntries`).

## Findings

Each names a property that the code does not have. `RestartExact` is a run; the others
are reproduced by giving the cfg of the run in parentheses this property (`INVARIANT`, or
`PROPERTY` where it is temporal or about a step) in place of its own.

1. `fail()` with attempts left does not give the tenant's slot back
   (`JobQueueV2.ts:260`); "Per-tenant fairness" (`:58`) ends after 50 retries.
   `IdleTenantHasSlot` (`JobQueue`).
2. A write can evict its own key (`MemoryAccountant.ts:200`, against
   `StringStore.ts:10`): the value is then stored without registry entry, `DEL`
   does not find it and its bytes are undercounted. `Owned` (`Keyspace`, without its
   `CONSTRAINT`).
3. `replay()` drops re-queued jobs (`BatchedJobWAL.ts:208`) that `prune()` takes
   care to keep (`:258`). `RequeuedJobSurvives` (`DurableQueue`).
4. `destroy()` does not flush when another flush is running
   (`BatchedJobWAL.ts:170`, `JobQueueV2.ts:475`). `DestroyFlushes` (`DurableQueue`).
5. A mutex in a snapshot ends the process after every restart: `import()` leaves
   its date a string (`DistributedLock.ts:616`) and the expiry checker calls
   `getTime()` on it (`:526`). `RestoredLockFreed`, temporal (`DistributedLock`).
6. The interval of an expired and overwritten lock clears the renewal timer of
   the new holder (`DistributedLock.ts:488`, `:492`). `AutoRenewHolds`
   (`DistributedLock`).
7. A restart replays the whole log over the snapshot (`index.ts:220`): lists and
   counters grow by what the snapshot already holds. An RPUSH of two elements, logged,
   saved by the shutdown and replayed, leaves four. Run `RestartExact`.
8. Only `/tx/exec` logs (`commands.ts:1221`, `tx.routes.ts:104`); the routes of
   single operations do not, against `index.ts:215` and `AofLog.ts:10`.
   `EveryMutationLogged` (`AofRecovery`).
9. A rewritten log brings a priority queue back in heap order
   (`aofWriters.ts:181`). `RewriteKeepsOrder` (`Services`). And since a `DEQUEUE` is
   logged without the entry it took (`:75`), one that follows the rewrite takes another
   entry when it is replayed: after a restart an entry that was served is served again,
   and one that never was is lost. `RestartKeepsEntries`, about a step (`Services`).
10. An invalidated value is still served from its stale copy
    (`CacheService.ts:242`). `StaleCopyInvalidated` (`Cache`).
11. A batch made while the socket is down never settles
    (`WebSocketTransport.ts:207`, `:347`). `BatchesResolve` (`Session`).
12. A failed connection loses the usage buffer (`UsageMeter.ts:126`, against
    `:143`). `NothingLost` (`Services`).
13. The "sliding window" (`README.md:95`) is a fixed one (`RateLimiter.ts:29`).
    `SlidingWindow` (`Services`).
14. A sync that fails under `always` is only printed (`AofLog.ts:154-161`) and the
    command answered, against "Safe for hard kills" (`:31`). `SafeForHardKills`
    (`AofRecovery`).
15. Keys that expire or are evicted stay in the log (`Store.ts:44-54`, `:61-84`) and a
    `SET .. EX` is replayed with its whole TTL, against `AofLog.ts:12`.
    `ExpiredStaysGone`, about a step (`AofRecovery`).
16. The cache is restored from a snapshot of up to five minutes ago
    (`Persistence.ts:111-118`, `:198-200`): entries that were deleted or invalidated
    since are served again. `RestartKeepsInvalidations`, about a step (`Cache`).
17. The statistics in a snapshot of the cache are of a later moment than the entries
    (`CacheService.ts:617`, `Persistence.ts:147-149`): after a restart the total is
    off for good. `SizeIsBytes` (`Cache`).

Seen while modelling and not the subject of a run: the log's buffer exceeds its
"absolute cap" (`BatchedJobWAL.ts:83`) when a batch returns after a failed flush
(`:180`); MSET is not atomic when a later write runs out of memory
(`commands.ts:336`); `append()` to an empty string charges the header again
(`StringStore.ts:37`); a drained key keeps its TTL, which a key created later
under its name inherits; ZREM leaves a drained sorted set registered.
Transports: requests buffered while the socket is down have no time-out;
`AutoTransport` repeats any request that failed over the WebSocket, executed or
not (`client/src/index.ts:1663`); a stream opened over the WebSocket never
unsubscribes. Worker: a `fail()` that is refused or lost is an unhandled rejection,
which ends the process (`worker/src/index.ts:261`); `stop()` clears the heartbeats
of jobs claimed after a later `run()` (`:156`); a claim lost before its first
heartbeat is never reaped. Server: metering never sees requests over the WebSocket
(`wsRouteHandler.ts:89`); open connections delay the shutdown until the forced
exit, without a final snapshot; `POST /set/zadd` stores a score unchecked, and one
that is no number breaks the order of its set (`set.routes.ts:36`); POST /mget
and /mset, GET /_keys and DELETE /_all of the cache are shadowed by `/:key`. Cache: a
background refresh that fails is an unhandled rejection (`CacheService.ts:151`);
`staleFor` is documented in seconds (`:40`) and added to milliseconds (`:177`).
Log: a torn last line swallows the entry appended after a restart; a DEL that a
rewrite drops lets an older snapshot bring its key back; a command that fails half-way
leaves changes that are not logged (`commands.ts:1217`).

## Proofs

Every theorem holds for all values of the constants that the named assumptions
allow; the assumptions say that limits are natural numbers, that tables of
configuration (the queue of a job, the owner of a key, the kind of a lock) are
functions, and where something is counted that it is finite. TLC evaluates them on
every run, and finds no violation of any property below on the small instances. An
invariant is proved by an inductive one that implies it; what has to be added to make
it inductive is the content of the argument.

**The queue** (`JobQueueProofs`, from `JobQueueAssumption`)

- `TypeCorrect`. The inductive invariant is `Shape`: the type invariant and
  `ReapingOccupied`, a slot the reaper has yet to visit is occupied. Without it
  `ReaperVisits` would call `FailBody` on `NoJob`. It is inductive because only the
  reaper changes `active` while `reaping` is not empty.
- `TenantCapHolds`. `TenantCap` is inductive given `Shape`: `claim()` adds one to both
  sides, below the cap; the exhausted branch and `complete()` take an entry away and
  subtract one from a counter that is at least the number of entries; the retry branch
  only removes the entry. The counting is `SlotsOfFinite` and `SlotsAfterRemoval`.
- `NoJobLostHolds`. Inductive given `Shape`: each action that takes a job's reference
  away gives it another, or ends the job in success.
- `OnePlaceHolds`, `AttemptsAndRunAtHolds`. `LifeInv` says of a job re-queued by one
  route that its status names its place (`Placed`), that what the used route takes the
  job from holds it once, and only after it has failed (`Retryable`), and that an
  attempt is left where it waits (`Paced`). The second is the point: the failed buffer
  is cut and filtered, the dead-letter array is emptied, and a job could be in either
  twice. `LifeStep` is stated with a number of extra attempts, for `DurableQueue`.

**The queue and its log** (`DurableQueueProofs`): `AttemptsAcrossRestartsHolds`,
`NoResurrectionHolds`, `LogCaughtUpHolds`, `CrashKeepsUnfinishedHolds`. The log is
looked at as one sequence, the table, the batch and the buffer, and only through what
it says of a job: is there an entry, which is the last, is there a completion. Lemmas
give these for `\o`, `Append` and the rows at some positions. `LogInv` then says:

- every entry is sound: its event fits its snapshot, and the job can go on from it
  (`EntriesSound`);
- the queue is as in `LifeInv`, but with as many extra attempts as there were restarts
  (`LivesOn`): a snapshot of a job in its last attempt comes back as waiting;
- once a completion is logged, an end is the last word on the job in each part of the
  log the completion has reached, and the job is completed or forgotten
  (`CompletionsSealed`). In each part, because each part can be lost or pruned without
  the others: a weaker clause on the whole log is not inductive, as a crash cuts the
  buffer off, and `Prune` the table;
- a job that was never re-queued has an end in the log only when it is over
  (`EndsAreEnds`), because replay drops a job with any end (finding 3);
- the last entry agrees with the job (`CaughtUp`).

A queue step is one of `LogStep`'s: it appends entries that tell what it did. A step
of the log is one of `LogOnly`'s: it adds nothing, keeps what is sealed, and takes the
last entry only of a job that is over or falls behind. A restart is `RebuiltSays`.

**The log and any caller** (`LogProofs`): `LatestIsNewestHolds`. The memory of the
log, the batch and then the buffer, is in the order of logging and ends with the latest
accepted entry of each of its jobs (`Increasing`, `UpToDate`); no row is newer than that
(`Below`). A batch whose INSERT reports an error may be in the table already and is
inserted again, behind the first copy, so an older row can follow a newer one. What is
missing is `Covers`: the last entry of a job in the batch is as new as every row of the
job, so that each copy of the batch leaves the newest row last (`Tops`). `prune()` keeps
that since it deletes all rows of a job or none (`LastPicked`).

**Locks** (`DistributedLockProofs`, from `LockAssumption`)

- `ExclusionHolds`. A valid token stands at its place in the tables (`ValidHeld`), a
  writer with a lease has no reader with a lease beside it (`WriterAlone`), and the
  same of the snapshot, for what it holds returns to the tables. A lease comes back
  only to a mutex still in the table (`RenewedAreMutexes`, `LeasesKept`): a holder
  that was overwritten while expired is never valid again.
- `ReleaseStopsRenewalHolds`. What is missing is `TimerOfHolder`: a mutex in the table
  whose interval runs is the one whose timer is registered, so that `release()` stops
  the right one, also after the interval of a former holder has cleared that map.
- `WakeupsReachWaitersHolds`, inductive with the types of the queues; and
  `LockTypeCorrect`, the type invariant.

**Workers** (`ClientProofs`)

- `WorkersDriveTheQueue`: `Spec => QueueSpec`. Each step of the workers, their
  transports and the server is an operation of the queue or leaves it alone, so that
  the theorems about the queue hold under the workers.
- `PollsWhileRunningHolds`, inductive with the types.
- `HandlerOwnsJobHolds`. An execution that nothing disturbed holds its job for its very
  attempt (`Entitled`), a report in the wire is the only one of its attempt, which waits
  for it or has died (`Reports`), and an entry of `activeJobs` belongs to a claimed
  attempt (`Registered`). It rests on `LifeInv`: the refinement brings it along.
- `HandlerKeepsBeatingHolds`, an action property, from the same invariant.

**Sessions** (`ClientProofs`): `WaitingTrackedHolds` and `AtMostOnceHolds`. A request
is in at most one of the buffer, the queue of frames to the server, and one handler
(`Places`), and what handlers and answers say of its run is true (`Runs`). A place hands
a request on and never gets it back, as a request is made once.

**The key space** (`KeyspaceProofs`, from `KeyspaceAssumption`: keys and fields are
finite sets). `KeyspaceTypeCorrect`, `EvictableHolds`, `OneOwnerHolds`,
`BytesExactHolds`, and the action properties `CapKeptHolds` and `EvictionOrderHolds`.

A handler is a chain of method calls, each of which may evict any number of keys, so
what the invariant says has to hold after each *method*: the conjuncts of `Good(ks)`
speak of a state record, not of the variables. They are the types, with an
LRU list that names no key twice (`Shaped`), that each registered key is in that list
(`Listed`), that a value in a
sub-store is registered under its type (`OwnedIn`, unless a key has evicted itself),
and that `used` is the bytes held (`Accounted`). The last is exact only without a slip;
what makes it inductive is the other half, that `used` is never *below* what is held
unless a key has evicted itself, for the refund of a deletion is subtracted with a
floor of zero. Sums over keys are folds over sets; the laws that one summand changes
and that a sum over a smaller set is smaller are proved first.

The action properties compare two ends of a command with many evictions between.
`Reaches(W, s, r)` says how far a write to the keys `W` has come from `s`: every other
key is as it was or is gone (`Same`, `Out`), the survivors have kept their order in the
list (`OrderKept`), what grew is within the cap (`Bound`), and a key that was evicted
was one the policy lets go (`MayGo`), before which no such key is left. It is closed
under the methods (`Charge`, `Reserve`, `StringSet`, `MapAdd`, `ListAdd`), so it holds
of every handler; MSET of two keys composes two of them. `Calm` covers the commands that
add nothing.

**The cache** (`CacheProofs`, from `CacheAssumption`): `InvalidationHoldsAlways`,
`SingleFlightHolds` and `SizeExactHolds`. A snapshot is as good as the cache was when it
was exported (`SavedInv`, `SizesInv`), so a restart from one of any age keeps what the
invariants say; only its total may be of another moment, and then `Sizes` asks for
`Listed`, the part of `Exact` without bytes. The last theorem counts entries and bytes over
evictions of any length (`Exact`): the bytes are those of what is cached, and the list
has each cached key once (`Lists`), so a key taken from its head is one whose bytes are
in the sum; `evict()` leaves room for the new entry or nothing at all (`RoomMade`), also
when the entry replaces one of another size (`OverwritesExact`). In the first, the tag
index may name keys that have lost the tag, since deletions do not clean it, but misses
none that has it (`Indexes`); every version stored, or read to be stored, is as new as
`floor` unless it was read before (`FreshInv`). Single flight counts calls by the key's
one call. `CacheAssumption` names what TLC's model values give for free, that `None` is
no entry and no call.

**Snapshots and log** (`LogProofs`): `FileMatchesMemoryHolds`,
`AlwaysDurableHolds`, and the action property `RecoveryExactHolds`. The clauses of
`AofInv`: lines are complete but for junk, in particular one that is cut (`CutShort`);
under `always`, and unless a sync has failed, only junk is not synced (`Durable`); with
no command missing the log gives the stores, but for those of which it does not know, before
the command that has yet to be logged (`InStep`); the crash states in `possible` include
the present one and that of the log (`Remembered`). For the list, what matters is that
the commands never bring two lists further apart than they were, in either direction.
What replaying
an appended, cut or rewritten log gives is proved by lemmas on `Replayed`.

**Services** (`ServicesProofs`, for each part and for their composition,
`ServicesCorrect`)

- `TenantMatchesHolds`, `RevocationTakesEffectHolds`: what is cached, and what a lookup
  has read as good, belongs to the tenant that owns the key (`OwnersMatch`); no entry
  outlives the last moment it was justified by more than its time (`EntriesBacked`).
- `CountedOnceHolds`: inductive with "a flush that is over has no batch". The sum over
  the flushes is a fold, whose laws (one summand changes, all are zero) come first.
- `WindowBoundedHolds`: the current entry's count bounds what was allowed since that
  entry began (`EntryBounded`), and so does that of the snapshot's, which is never the
  newer one (`SavedOlder`); with one window before it this bounds any span of the length
  of a window (`SpanBounded`). A restart can add the limit once more.
- `ServedInOrderHolds`. While an entry moves through the heap the order fails at one
  place: upwards it may be above its parent (`Rising`), downwards below its children
  (`Sinking`). What makes a swap safe is the second clause of each, that the children of
  that place are not above its parent. A round of `bubbleUp()` or `sinkDown()` ends in an
  ordered heap or nearer the end of its path, so as many rounds as there are places are
  enough. The root is then above all (`RootIsFirst`), and each `pop()` leaves an ordered
  heap (`PoppedIs`), so what is served is in the order of `compare()` (`ServedIs`). That
  this is the order of arrival is `InArrival`, which a rewritten log breaks; that each
  who waits is in the heap once is `Named` and `HeapWaits`. Its second part
  (`ReplayServes`): the heap in memory and the one a replay would build serve the same
  priorities in the same order (`MatchedServe`), since their entries can be paired so that
  each has the priority of its partner (`MatchedHeaps`): then the two roots agree in
  priority, and pushing one more or popping both leaves such a pairing.
- `RangesExactHolds`. The invariant `ZsetInv` says that the skip list holds the pairs of
  the score map, where `IsList` is what a skip list is: a tower has the levels from 0 up
  to its height, and on each level the pointer of a node leads to the next among those
  whose towers reach it (`IsNext`). A step of a walk leaves one more node behind, so as
  many as there are nodes reach the last one before the key (`WalkIs`); that node has
  the levels below too, so the descent is right on all of them (`DescentIs`). A key
  that enters or leaves a level behind that node leaves the level in order
  (`LevelEntered`, `LevelLeft`), hence `InsertedIs` and `ListDeleteIs`; the latter shows
  that the levels where `delete()` meets the node are those of its tower, that nothing
  refers to it afterwards, and that the new level is above every tower left.
  `ToArrayIs` lists the nodes in order, and there is one such list (`SortedOnce`).

Induction over the length of a log or the size of a set is not available to the provers,
which cannot instantiate a theorem with an operator as its parameter. Where a recursive
*function* or a fold is used (`RowsAt`, `Replayed`, `Evicted`, `Only`, the loops of the
heap and of the skip list, the sums), the lemmas argue on the smallest counterexample
(`SmallestNumber`, from the well-foundedness of `<` on the natural numbers), which is
first-order. Loops share one set of lemmas: `Round` is what a round of each makes of its
state, and `UpTo` carries an invariant from the first round to the last.

Only model-checked: every liveness property (temporal reasoning under fairness is beyond
the provers used). Every invariant and action property that a passing run
checks is a theorem.
The type invariants of `JobWal`, `DurableQueue` and `WalClients` are no run's subject.

## Not modelled

- `updateProgress`, the getters, emitted events and job payloads of the queue; the
  contents of error messages; the ages that decide which finished jobs `prune()`
  takes (any subset may be old enough).
- `PubSub`: a synchronous fan-out over two maps, nothing of which outlives a call but
  the subscriptions; `Session` has streams that never end, but not what they carry.
- `CacheService`: LFU eviction, TTL refresh, hit statistics; two saves of a snapshot under
  way at once (the later timestamp wins whichever commits last; `AofRecovery` has that).
- `SemanticCacheService`: nearest neighbours among floating-point embeddings.
- `AnomalyDetector`, `SlowLog`, `ConfigRegistry`: statistics over a bounded buffer and
  a table of settings, sequential and unit-tested.
- `JobWAL.ts`, `BinaryMaxHeap.remove()`, `PriorityQueue.import()`: nothing in the server
  calls them.
- Snapshots written by a version without a registry (`Store.ts`), a cap of zero.
- The typed methods of the client, which build one request each.

## Plan

What the proofs leave is liveness, which the provers do not reach. What the models leave
is listed above; of it, LFU eviction in `CacheService` would come first.
