---------------------------- MODULE DurableQueue ----------------------------
(***************************************************************************)
(* The job queue with its write-ahead log, across crashes, graceful        *)
(* shutdowns and restarts: JobQueueV2.ts composed with BatchedJobWAL.ts as *)
(* src/src/index.ts wires them.                                            *)
(*                                                                         *)
(* Every mutation of the queue logs its event synchronously, after the     *)
(* mutation, so an action here is the queue's action and the entries it    *)
(* logs; the flush runs between actions.  A restart rebuilds the queue     *)
(* from the table.  Timer-driven promotion, heartbeats and clearCompleted  *)
(* log nothing.                                                            *)
(***************************************************************************)
EXTENDS JobQueue

CONSTANTS
    MaxBufferSize, MaxBufferCap, MaxRetries, MaxRows,   \* as in JobWal
    MaxFaults,    \* bound: INSERT attempts that fail, deletions by age
    MaxRestarts   \* bound: restarts of the process

VARIABLES
    wal,       \* as in JobWal
    table,     \* as in JobWal
    phase,     \* how far a graceful shutdown has come
    added,     \* history: the jobs whose ids have been given out
    behind,    \* history: jobs whose latest event was dropped or forgotten
    finished,  \* history: jobs with a "completed" row in the table at some time
    faults,    \* INSERT attempts that failed, deletions by age
    restarts   \* restarts so far

INSTANCE JobWal WITH Snapshots <- JobFields

vars == <<queueVars, wal, table, phase, added, behind, finished, faults, restarts>>

Phases == {"up", "saving", "flushing", "destroyed"}

Init ==
    /\ InitQueue
    /\ InitWal
    /\ phase = "up"
    /\ added = {}
    /\ behind = {}
    /\ finished = {}
    /\ faults = 0
    /\ restarts = 0

-----------------------------------------------------------------------------
\* walLog(): a rejected entry is swallowed, its job is behind from then on.
Logs(es) ==
    /\ LogAll(es)
    /\ behind' = (behind \ {es[i].job : i \in AcceptedOf(es)})
                   \cup {es[i].job : i \in DOMAIN es \ AcceptedOf(es)}
    /\ UNCHANGED <<table, phase, finished, faults, restarts>>

(* JSON.stringify(job).  Its dates are absolute: whether they have passed  *)
(* is decided again after a replay, so a snapshot only keeps that there is *)
(* a heartbeat, and the runAt of a delayed job counts as still to come.    *)
Snapshot(j) ==
    [job'[j] EXCEPT !.hb = IF @ = "none" THEN "none" ELSE "fresh",
                    !.due = job'[j].status # "delayed"]

LogsEvent(j, event) == Logs(<<Entry(j, event, Snapshot(j))>>)

NoLog == UNCHANGED <<wal, table, phase, added, behind, finished, faults, restarts>>

\* Requests are served until server.close() calls back.
Serving == phase = "up"

\* The queue's intervals run until destroy() clears them.
Ticking == phase \in {"up", "saving"}

AddJob(j) ==
    /\ Serving
    /\ j \notin added
    /\ added' = added \cup {j}
    /\ \E d \in BOOLEAN : Add(j, d)
    /\ LogsEvent(j, "enqueued")

\* Variant: claim() does not log.
ClaimUnlogged(j) == Serving /\ Claim(j) /\ NoLog

ClaimJob(j) ==
    /\ Serving
    /\ Claim(j)
    /\ LogsEvent(j, "claimed")
    /\ UNCHANGED added

CompleteJob(j) ==
    /\ Serving
    /\ Complete(j)
    /\ LogsEvent(j, "completed")
    /\ UNCHANGED added

\* The event fail() logs: its retry branch leaves the job delayed.
FailEvent(j) == IF job'[j].status = "delayed" THEN "retry" ELSE "failed"

FailJob(j) ==
    /\ Serving
    /\ Fail(j)
    /\ LogsEvent(j, FailEvent(j))
    /\ UNCHANGED added

ReapJob(j) ==
    /\ Ticking
    /\ ReaperVisits
    /\ \E s \in reaping \ reaping' : active[s] = j
    /\ LogsEvent(j, FailEvent(j))
    /\ UNCHANGED added

RetryFailed(j) ==
    /\ Serving
    /\ RetryJob(j)
    /\ LogsEvent(j, "retry")
    /\ UNCHANGED added

\* retryDLQ() logs once per reference of the array, whose order is left open.
DeadReferences(q) == UNION {{j} \X (1..dlq[j]) : j \in DeadLetters(q)}

RetryDeadLetters(q) ==
    /\ Serving
    /\ RetryDLQ(q)
    /\ \E refs \in SetToSeqs(DeadReferences(q)) :
         Logs([i \in DOMAIN refs |-> Entry(refs[i][1], "retry", Snapshot(refs[i][1]))])
    /\ UNCHANGED added

\* What the queue does without logging.
Unlogged ==
    /\ NoLog
    /\ \/ Serving /\ \E j \in Jobs : Heartbeat(j)
       \/ Serving /\ \E q \in Queues : ClearCompleted(q)
       \/ Ticking /\ (PromoteDelayed \/ ReaperFires)
       \/ \E j \in Jobs : HeartbeatAges(j) \/ RunAtPasses(j)

-----------------------------------------------------------------------------
\* The table gains a row, or loses rows, by a step of the log.
WalOnly == UNCHANGED <<queueVars, added, behind, restarts>>

Learned == finished' = finished \cup
             {j \in Jobs : \E i \in DOMAIN table' :
                table'[i].job = j /\ table'[i].event = "completed"}

WalStep ==
    /\ Idle
    /\ \/ phase # "destroyed" /\ (TimerFires \/ Prune) /\ UNCHANGED faults
       \/ InsertSucceeds /\ UNCHANGED faults
       \/ /\ faults < MaxFaults
          /\ InsertFails \/ InsertGivesUp
          /\ faults' = faults + 1
    /\ Learned
    /\ UNCHANGED phase
    /\ WalOnly

-----------------------------------------------------------------------------
(* FUTURE_JOBS of DataRetention.ts: the jobs with a row whose runAt is     *)
(* still to come.  Of a job that this process does not know, both is       *)
(* possible.                                                               *)
MayBeScheduled == {j \in Jobs : \E i \in DOMAIN table :
                     /\ table[i].job = j
                     /\ table[i].event \in {"enqueued", "retry"}
                     /\ ~table[i].data.due}

FutureJobs == {j \in MayBeScheduled : Created(j) /\ ~job[j].due}
Unknown == {j \in MayBeScheduled : ~Created(j)}

\* Variant: the scheduled jobs are not looked up.
OldRowsAnyJob(n, future) == 1..n

\* The rows that the hard limit deletes when the n oldest are over it.
OldRows(n, future) == {i \in 1..n : table[i].job \notin future}

\* Those the clean-up of orphans deletes.
OrphanRows(n, future) ==
    {i \in OldRows(n, future) : ~HasTerminal(table, table[i].job)}

\* The table without the rows at the positions gone.
RemoveIndices(gone) == RowsAt(table, DOMAIN table \ gone)

\* An unfinished job with no entry left in the table, the batch and the buffer.
Forgotten(j) ==
    /\ RowsOf(table', j) = <<>>
    /\ RowsOf(wal.inflight \o wal.buffer, j) = <<>>
    /\ RowsOf(table, j) # <<>>
    /\ Last(RowsOf(table, j)).event \notin Terminal

(* runCleanup() deletes rows by age, whatever the queue still holds: after *)
(* seven days all of a job, after two those of a job not finished.  The    *)
(* deletion of finished histories is Prune; the queries are separate       *)
(* statements, and any of them may be the last before the process ends.    *)
RetentionDeletes ==
    /\ Idle
    /\ phase \in {"up", "saving"}
    /\ faults < MaxFaults
    /\ faults' = faults + 1
    /\ \E n \in DOMAIN table, U \in SUBSET Unknown :
         \E gone \in {OldRows(n, FutureJobs \cup U), OrphanRows(n, FutureJobs \cup U)} :
            table' = RemoveIndices(gone)
    /\ behind' = behind \cup {j \in added \ FutureJobs : Forgotten(j)}
    /\ UNCHANGED <<queueVars, wal, phase, added, finished, restarts>>

-----------------------------------------------------------------------------
\* server.close() calls back: no request is served any more, the final
\* snapshot is saved while the queue's intervals and the log go on.
CloseServer ==
    /\ Idle
    /\ phase = "up"
    /\ phase' = "saving"
    /\ UNCHANGED <<queueVars, wal, table, added, behind, finished, faults, restarts>>

\* destroy(): the intervals are cleared and flush() is awaited, which
\* returns at once when it finds nothing to do or another flush running.
Destroy ==
    /\ Idle
    /\ phase = "saving"
    /\ phase' = IF wal.buffer # <<>> /\ ~wal.flushing THEN "flushing" ELSE "destroyed"
    /\ wal' = Flushed(wal)
    /\ UNCHANGED <<queueVars, table, added, behind, finished, faults, restarts>>

\* The awaited flush is over: the timer is cleared and the pool ended, which
\* waits for a running INSERT but accepts no other.
FlushAwaited ==
    /\ phase = "flushing"
    /\ ~wal.flushing
    /\ phase' = "destroyed"
    /\ wal' = [wal EXCEPT !.timer = FALSE]
    /\ UNCHANGED <<queueVars, table, added, behind, finished, faults, restarts>>

-----------------------------------------------------------------------------
\* replay(): the latest snapshot, an active job is waiting again.
Replayed(data) == [data EXCEPT !.status = IF @ = "active" THEN "waiting" ELSE @]

(* The queue a process starts with when replay() returns the jobs of S.    *)
RebuiltFrom(S, rows) ==
    /\ job' = [j \in Jobs |->
                 IF j \in S THEN Replayed(Last(RowsOf(rows, j)).data) ELSE NewJob]
    /\ heap' = [j \in Jobs |-> IF j \in S /\ job'[j].status = "waiting" THEN 1 ELSE 0]
    /\ delayed' = [j \in Jobs |-> IF j \in S /\ job'[j].status = "delayed" THEN 1 ELSE 0]
    /\ active' = [s \in Slots |-> NoJob]
    /\ completed' = [q \in Queues |-> <<>>]
    /\ failed' = [q \in Queues |-> <<>>]
    /\ dlq' = [j \in Jobs |-> 0]
    /\ tenantActive' = [t \in Tenants |-> 0]
    /\ clock' = clock
    /\ reaping' = {}
    /\ requeues' = requeues

(* The process ends at any moment (a crash, the forced exit after ten      *)
(* seconds, or the end of a graceful shutdown) and starts again.  Memory   *)
(* is gone; an INSERT under way commits or not; replay() reads the table,  *)
(* or fails and the queue starts empty.                                    *)
Restart ==
    /\ restarts < MaxRestarts
    /\ restarts' = restarts + 1
    /\ wal' = EmptyWal
    /\ phase' = "up"
    /\ table' \in {table, table \o wal.inflight}
    /\ \/ /\ RebuiltFrom({j \in Jobs : SurvivesIn(table', j)}, table')
          /\ behind' = {}
       \/ /\ RebuiltFrom({}, table')
          /\ behind' = added
    /\ Learned
    /\ UNCHANGED <<added, faults>>

Next ==
    \/ \E j \in Jobs :
         \/ AddJob(j)
         \/ ClaimJob(j)
         \/ CompleteJob(j)
         \/ FailJob(j)
         \/ ReapJob(j)
         \/ RetryFailed(j)
    \/ \E q \in Queues : RetryDeadLetters(q)
    \/ Unlogged
    \/ WalStep
    \/ RetentionDeletes
    \/ CloseServer
    \/ Destroy
    \/ FlushAwaited
    \/ Restart

Spec == Init /\ [][Next]_vars
-----------------------------------------------------------------------------
(***************************************************************************)
(* Properties                                                              *)
(***************************************************************************)

\* Every variable has the shape the code gives it.
TypeOK ==
    /\ QueueTypeOK
    /\ WalTypeOK
    /\ phase \in Phases
    /\ added \subseteq Jobs
    /\ behind \subseteq added
    /\ finished \subseteq added
    /\ faults \in 0..MaxFaults
    /\ restarts \in 0..MaxRestarts

\* What the log says of j, from the table to the end of the buffer.
LogOf(j) == RowsOf(table \o wal.inflight \o wal.buffer, j)

(* The log never lags behind the queue: whichever mutation comes last, the *)
(* latest entry of a job that is not behind holds its attempts and its     *)
(* status, up to the two changes that are not logged (a delayed job is     *)
(* promoted, an active one is waiting again after a restart).  Only a      *)
(* finished job may have no entry, pruned.  A job that was re-queued by    *)
(* both routes may be in two places, and its status is that of neither.    *)
LogCaughtUp ==
    \A j \in Jobs \ behind : Created(j) /\ OneRoute(j) =>
        IF LogOf(j) = <<>>
        THEN job[j].status \in Terminal
        ELSE LET latest == Last(LogOf(j)).data
             IN  /\ latest.attempts = job[j].attempts
                 /\ \/ latest.status = job[j].status
                    \/ /\ latest.status \in {"delayed", "active"}
                       /\ job[j].status = "waiting"

(* "Zero job loss on crash", for a job that was never re-queued by hand:   *)
(* if its entries have left the buffer when the process ends, and replay() *)
(* can read the table, the job is live after the restart, with the same    *)
(* number of attempts.                                                     *)
CrashKeepsUnfinished ==
    [][restarts' # restarts =>
         \A j \in added \ (behind \cup behind') :
            /\ Live(j)
            /\ RowsOf(wal.inflight \o wal.buffer, j) = <<>>
            /\ \A r \in Routes : requeues[j][r] = 0
            => Live(j)' /\ job'[j].attempts = job[j].attempts]_vars

(* A job whose completion reached the table is never executed again: not   *)
(* after a crash, not when its history is pruned, not when an INSERT with  *)
(* a lost answer is repeated.                                              *)
NoResurrection == \A j \in finished : OneRoute(j) => ~Live(j)

(* A crash gives a job at most one more attempt than maxAttempts, also     *)
(* when it comes back in the middle of its last one.                       *)
AttemptsAcrossRestarts ==
    \A j \in Jobs : OneRoute(j) =>
        job[j].attempts <= (IF MaxAttempts[j] = 0 THEN 1 ELSE MaxAttempts[j]) + restarts

(* BatchedJobWAL.ts:258 "a re-queued job is kept": a job whose latest row  *)
(* is not terminal, which prune() keeps, is one that replay() returns.     *)
RequeuedJobSurvives ==
    \A j \in Jobs :
        /\ RowsOf(table, j) # <<>>
        /\ Last(RowsOf(table, j)).event \notin Terminal
        => SurvivesIn(table, j)

(* JobQueueV2.ts:475 "Flush any buffered WAL entries before shutting       *)
(* down": when destroy() is through and no INSERT has failed, the buffer   *)
(* is empty.                                                               *)
DestroyFlushes == phase = "destroyed" /\ faults = 0 => wal.buffer = <<>>
=============================================================================
