------------------------------ MODULE JobQueue ------------------------------
(***************************************************************************)
(* The in-memory job queue of src/src/services/JobQueueV2.ts.              *)
(*                                                                         *)
(* A Job is one object that several collections refer to: the priority     *)
(* heap of its queue, and the delayed, active, completed, failed and       *)
(* dead-letter arrays.  So a job's own fields (status, attempts, ...) are  *)
(* one record per job here, and the collections hold references to it.     *)
(* The same job can be referenced more than once by the same collection,   *)
(* which is why heap, delayed and dlq count references.                    *)
(*                                                                         *)
(* Wall-clock time is abstracted to the two facts the code tests:          *)
(* whether runAt has passed (due) and whether the last heartbeat is older  *)
(* than heartbeatTimeoutMs ("silent").  Payload, progress, result, error   *)
(* and the event emissions are left out; createdAt is kept as a rank.      *)
(***************************************************************************)
EXTENDS Naturals, Sequences, FiniteSets, SequencesExt

CONSTANTS
    Jobs,         \* the jobs that may be added, each at most once
    Queues,       \* queue names
    Tenants,      \* clientCode values ("unknown" is one of them)
    QueueOf,      \* [Jobs -> Queues]
    TenantOf,     \* [Jobs -> Tenants]
    Priority,     \* [Jobs -> Nat]
    MaxAttempts,  \* [Jobs -> Nat]
    MaxParallel,  \* maxParallelPerTenant
    DlqEnabled,   \* options.dlqEnabled
    MaxKept,      \* options.maxCompletedJobs
    Slots,        \* bound: positions of the activeJobs arrays
    MaxRequeues,  \* [Jobs -> Nat], bound: manual re-queues of a job
    MayDelay,     \* bound: the jobs a caller may add with delayMs or runAt
    Beating,      \* [Jobs -> SUBSET Heartbeats], bound: the states a heartbeat renews
    NoJob         \* an empty position of activeJobs

ASSUME JobQueueAssumption ==
    /\ IsFiniteSet(Jobs)
    /\ QueueOf \in [Jobs -> Queues]
    /\ TenantOf \in [Jobs -> Tenants]
    /\ Priority \in [Jobs -> Nat]
    /\ MaxAttempts \in [Jobs -> Nat]
    /\ MaxParallel \in Nat \ {0}
    /\ DlqEnabled \in BOOLEAN
    /\ MaxKept \in Nat \ {0}
    /\ Slots \in SUBSET Nat
    /\ IsFiniteSet(Slots)
    /\ MaxRequeues \in [Jobs -> Nat]
    /\ MayDelay \subseteq Jobs
    /\ Beating \in [Jobs -> SUBSET {"none", "silent"}]
    /\ NoJob \notin Jobs

VARIABLES
    job,           \* [Jobs -> the job object's fields]
    heap,          \* [Jobs -> Nat]: references in the priority heap of its queue
    delayed,       \* [Jobs -> Nat]: references in delayedJobs
    active,        \* [Slots -> Jobs or NoJob]: the entries of activeJobs
    completed,     \* [Queues -> Seq(Jobs)]: completedJobs, oldest first
    failed,        \* [Queues -> Seq(Jobs)]: failedJobs, oldest first
    dlq,           \* [Jobs -> Nat]: references in the dead-letter array
    tenantActive,  \* [Tenants -> Nat]: tenantActiveCounts
    clock,         \* rank of the latest createdAt
    reaping,       \* the active entries the running reaper loop has yet to fail
    requeues       \* history: manual re-queues of each job, by route

queueVars == <<job, heap, delayed, active, completed, failed, dlq,
               tenantActive, clock, reaping, requeues>>

-----------------------------------------------------------------------------
Statuses == {"none", "waiting", "active", "completed", "failed", "delayed"}
Heartbeats == {"none", "fresh", "silent"}
Routes == {"failed", "dlq"}       \* retryJob takes from failed, retryDLQ from dlq

JobFields == [status: Statuses, attempts: Nat, hb: Heartbeats,
              due: BOOLEAN, born: Nat]

NewJob == [status |-> "none", attempts |-> 0, hb |-> "none",
           due |-> FALSE, born |-> 0]

\* The array s with only its last n elements kept.
KeepLast(s, n) == IF Len(s) > n THEN SubSeq(s, Len(s) - n + 1, Len(s)) ELSE s

Created(j) == job[j].status # "none"
ActiveSlots(j) == {s \in Slots : active[s] = j}
SlotsOf(t) == {s \in Slots : active[s] # NoJob /\ TenantOf[active[s]] = t}

\* First entry of j in activeJobs (findIndex by id).
IsFirstEntry(s, j) ==
    /\ s \in Slots
    /\ active[s] = j
    /\ \A r \in Slots : r < s => active[r] # j

\* The interval and request handlers run to completion: nothing starts while
\* the reaper's loop is between two of its fail() calls.
Idle == reaping = {}

InitQueue ==
    /\ job = [j \in Jobs |-> NewJob]
    /\ heap = [j \in Jobs |-> 0]
    /\ delayed = [j \in Jobs |-> 0]
    /\ active = [s \in Slots |-> NoJob]
    /\ completed = [q \in Queues |-> <<>>]
    /\ failed = [q \in Queues |-> <<>>]
    /\ dlq = [j \in Jobs |-> 0]
    /\ tenantActive = [t \in Tenants |-> 0]
    /\ clock = 0
    /\ reaping = {}
    /\ requeues = [j \in Jobs |-> [r \in Routes |-> 0]]

-----------------------------------------------------------------------------
(* add(): a job with delayMs or runAt goes to the delayed array, any other *)
(* to the heap.  createdAt may be the same millisecond as the last one.    *)
(* addBulk() is the same call once per item.                               *)
Add(j, isDelayed) ==
    /\ Idle
    /\ ~Created(j)
    /\ isDelayed => j \in MayDelay
    /\ \E t \in {clock, clock + 1} \ {0} :
         /\ clock' = t
         /\ job' = [job EXCEPT ![j] =
                      [NewJob EXCEPT !.status = IF isDelayed THEN "delayed" ELSE "waiting",
                                     !.due = ~isDelayed,
                                     !.born = t]]
    /\ IF isDelayed
       THEN delayed' = [delayed EXCEPT ![j] = @ + 1] /\ UNCHANGED heap
       ELSE heap' = [heap EXCEPT ![j] = @ + 1] /\ UNCHANGED delayed
    /\ UNCHANGED <<active, completed, failed, dlq, tenantActive, reaping, requeues>>

(* JOB_COMPARATOR: higher priority first, then the older job.  Jobs of the *)
(* same priority and millisecond leave the heap in either order.           *)
Before(k, j) ==
    \/ Priority[k] > Priority[j]
    \/ Priority[k] = Priority[j] /\ job[k].born < job[j].born

\* Variant: the cap compared with <=.
HasSlotOffByOne(j) == tenantActive[TenantOf[j]] <= MaxParallel

\* pop() skips the jobs of a tenant at its cap and puts them back.
HasSlot(j) == tenantActive[TenantOf[j]] < MaxParallel

Poppable(j) ==
    /\ heap[j] > 0
    /\ HasSlot(j)
    /\ \A k \in Jobs : /\ QueueOf[k] = QueueOf[j]
                       /\ heap[k] > 0
                       /\ HasSlot(k)
                       => ~Before(k, j)

(* claim(): the next job of a queue becomes active, its attempts and its   *)
(* tenant's count go up by one.                                            *)
Claim(j) ==
    /\ Idle
    /\ Poppable(j)
    /\ heap' = [heap EXCEPT ![j] = @ - 1]
    /\ job' = [job EXCEPT ![j].status = "active", ![j].attempts = @ + 1]
    /\ tenantActive' = [tenantActive EXCEPT ![TenantOf[j]] = @ + 1]
    /\ \E s \in Slots :
         /\ active[s] = NoJob
         /\ \A r \in Slots : r < s => active[r] # NoJob
         /\ active' = [active EXCEPT ![s] = j]
    /\ UNCHANGED <<delayed, completed, failed, dlq, clock, reaping, requeues>>

\* Variant: a slip that gives back two slots.
DecrementedByTwo(j) == [tenantActive EXCEPT ![TenantOf[j]] = @ - 2]

\* decrementTenant(): never below zero.
Decremented(j) ==
    [tenantActive EXCEPT ![TenantOf[j]] = IF @ > 0 THEN @ - 1 ELSE 0]

\* removeFromActive(): the first entry with the job's id.
RemoveFromActive(j) ==
    \E s \in Slots : IsFirstEntry(s, j) /\ active' = [active EXCEPT ![s] = NoJob]

(* complete(): any caller that names an active job ends it; the completed  *)
(* buffer drops its oldest entries above the cap.                          *)
Complete(j) ==
    /\ Idle
    /\ RemoveFromActive(j)
    /\ job' = [job EXCEPT ![j].status = "completed"]
    /\ tenantActive' = Decremented(j)
    /\ completed' = [completed EXCEPT ![QueueOf[j]] = KeepLast(Append(@, j), MaxKept)]
    /\ UNCHANGED <<heap, delayed, failed, dlq, clock, reaping, requeues>>

\* Variant: the attempts are not compared.
RetryLaterAlways(j) ==
    /\ job' = [job EXCEPT ![j].status = "delayed", ![j].due = FALSE]
    /\ delayed' = [delayed EXCEPT ![j] = @ + 1]
    /\ UNCHANGED <<tenantActive, failed, dlq>>

(* fail() with attempts left: back to the delayed array, runAt in the      *)
(* future.  The tenant's count is left alone, as in the code.              *)
RetryLater(j) ==
    /\ job[j].attempts < MaxAttempts[j]
    /\ job' = [job EXCEPT ![j].status = "delayed", ![j].due = FALSE]
    /\ delayed' = [delayed EXCEPT ![j] = @ + 1]
    /\ UNCHANGED <<tenantActive, failed, dlq>>

\* Variant: fail() forgets the dead-letter array.
ExhaustWithoutDlq(j) ==
    /\ job[j].attempts >= MaxAttempts[j]
    /\ job' = [job EXCEPT ![j].status = "failed"]
    /\ tenantActive' = Decremented(j)
    /\ failed' = [failed EXCEPT ![QueueOf[j]] = KeepLast(Append(@, j), MaxKept)]
    /\ UNCHANGED <<delayed, dlq>>

(* fail() with the attempts used up: the same job goes to the failed       *)
(* buffer and, when enabled, to the dead-letter array.                     *)
Exhaust(j) ==
    /\ job[j].attempts >= MaxAttempts[j]
    /\ job' = [job EXCEPT ![j].status = "failed"]
    /\ tenantActive' = Decremented(j)
    /\ failed' = [failed EXCEPT ![QueueOf[j]] = KeepLast(Append(@, j), MaxKept)]
    /\ dlq' = IF DlqEnabled THEN [dlq EXCEPT ![j] = @ + 1] ELSE dlq
    /\ UNCHANGED delayed

\* The body of fail(), called by a worker's request and by the reaper.
FailBody(j) ==
    /\ RemoveFromActive(j)
    /\ RetryLater(j) \/ Exhaust(j)
    /\ UNCHANGED <<heap, completed, clock, requeues>>

Fail(j) == Idle /\ FailBody(j) /\ UNCHANGED reaping

\* heartbeat() of an active job.
Heartbeat(j) ==
    /\ Idle
    /\ ActiveSlots(j) # {}
    /\ job[j].hb \in Beating[j]
    /\ job' = [job EXCEPT ![j].hb = "fresh"]
    /\ UNCHANGED <<heap, delayed, active, completed, failed, dlq,
                   tenantActive, clock, reaping, requeues>>

-----------------------------------------------------------------------------
\* Time passes: a heartbeat becomes older than heartbeatTimeoutMs.
HeartbeatAges(j) ==
    /\ Idle
    /\ job[j].hb = "fresh"
    /\ job' = [job EXCEPT ![j].hb = "silent"]
    /\ UNCHANGED <<heap, delayed, active, completed, failed, dlq,
                   tenantActive, clock, reaping, requeues>>

\* Time passes: the runAt of a job that has been added is reached.
RunAtPasses(j) ==
    /\ Idle
    /\ Created(j)
    /\ ~job[j].due
    /\ job' = [job EXCEPT ![j].due = TRUE]
    /\ UNCHANGED <<heap, delayed, active, completed, failed, dlq,
                   tenantActive, clock, reaping, requeues>>

\* Variant: the tick does not look at runAt.
AnyDelayed == {j \in Jobs : delayed[j] > 0}

\* Jobs whose delayed references the 1 s tick promotes.
Ready == {j \in Jobs : delayed[j] > 0 /\ job[j].due}

\* Variant: the tick copies the ready references and leaves them delayed.
PromoteCopies ==
    /\ Idle
    /\ Ready # {}
    /\ job' = [j \in Jobs |->
                 IF j \in Ready THEN [job[j] EXCEPT !.status = "waiting"] ELSE job[j]]
    /\ heap' = [j \in Jobs |-> IF j \in Ready THEN heap[j] + 1 ELSE heap[j]]
    /\ UNCHANGED <<delayed, active, completed, failed, dlq, tenantActive, clock,
                   reaping, requeues>>

(* The delayed-job interval moves every ready reference to the heap.       *)
PromoteDelayed ==
    /\ Idle
    /\ Ready # {}
    /\ job' = [j \in Jobs |->
                 IF j \in Ready THEN [job[j] EXCEPT !.status = "waiting"] ELSE job[j]]
    /\ heap' = [j \in Jobs |-> IF j \in Ready THEN heap[j] + delayed[j] ELSE heap[j]]
    /\ delayed' = [j \in Jobs |-> IF j \in Ready THEN 0 ELSE delayed[j]]
    /\ UNCHANGED <<active, completed, failed, dlq, tenantActive, clock,
                   reaping, requeues>>

\* Entries of activeJobs whose heartbeat has gone silent.
SilentSlots == {s \in Slots : active[s] # NoJob /\ job[active[s]].hb = "silent"}

\* Variant: the reaper only looks at jobs that still have attempts.
ReapRetryable ==
    LET retryable == {s \in SilentSlots :
                        job[active[s]].attempts < MaxAttempts[active[s]]}
    IN  /\ Idle
        /\ retryable # {}
        /\ reaping' = retryable
        /\ UNCHANGED <<job, heap, delayed, active, completed, failed, dlq,
                       tenantActive, clock, requeues>>

(* The reaper interval fires: its loop will fail every silent entry of the *)
(* snapshot it takes, one fail() call after the other.                     *)
ReaperFires ==
    /\ Idle
    /\ SilentSlots # {}
    /\ reaping' = SilentSlots
    /\ UNCHANGED <<job, heap, delayed, active, completed, failed, dlq,
                   tenantActive, clock, requeues>>

(* One iteration of the reaper's loop.  The order of a slot's number says  *)
(* nothing of the order in which jobs were claimed, so the next entry is   *)
(* any of them; of two entries of one job the first is removed first.      *)
ReaperVisits ==
    \E s \in reaping :
        /\ \A r \in reaping : active[r] = active[s] => s <= r
        /\ FailBody(active[s])
        /\ reaping' = reaping \ {s}

-----------------------------------------------------------------------------
\* retryJob() and retryDLQ() reset the attempts and put the job in the heap.
Requeued(j) == [job[j] EXCEPT !.status = "waiting", !.attempts = 0]

CanRequeue(j) == requeues[j]["failed"] + requeues[j]["dlq"] < MaxRequeues[j]

\* retryJob(): the first entry of the job in the failed buffer.
RetryJob(j) ==
    /\ Idle
    /\ CanRequeue(j)
    /\ \E i \in DOMAIN failed[QueueOf[j]] :
         /\ failed[QueueOf[j]][i] = j
         /\ \A k \in 1..(i - 1) : failed[QueueOf[j]][k] # j
         /\ failed' = [failed EXCEPT ![QueueOf[j]] = RemoveAt(@, i)]
    /\ job' = [job EXCEPT ![j] = Requeued(j)]
    /\ heap' = [heap EXCEPT ![j] = @ + 1]
    /\ requeues' = [requeues EXCEPT ![j]["failed"] = @ + 1]
    /\ UNCHANGED <<delayed, active, completed, dlq, tenantActive, clock, reaping>>

DeadLetters(q) == {j \in Jobs : QueueOf[j] = q /\ dlq[j] > 0}

\* retryDLQ(): every reference of the queue's dead-letter array.
RetryDLQ(q) ==
    /\ Idle
    /\ DeadLetters(q) # {}
    /\ \A j \in DeadLetters(q) : CanRequeue(j)
    /\ job' = [j \in Jobs |-> IF j \in DeadLetters(q) THEN Requeued(j) ELSE job[j]]
    /\ heap' = [j \in Jobs |-> IF j \in DeadLetters(q) THEN heap[j] + dlq[j] ELSE heap[j]]
    /\ dlq' = [j \in Jobs |-> IF j \in DeadLetters(q) THEN 0 ELSE dlq[j]]
    /\ requeues' = [j \in Jobs |->
                      IF j \in DeadLetters(q)
                      THEN [requeues[j] EXCEPT !["dlq"] = @ + 1]
                      ELSE requeues[j]]
    /\ UNCHANGED <<delayed, active, completed, failed, tenantActive, clock, reaping>>

\* clearCompleted().
ClearCompleted(q) ==
    /\ Idle
    /\ completed[q] # <<>>
    /\ completed' = [completed EXCEPT ![q] = <<>>]
    /\ UNCHANGED <<job, heap, delayed, active, failed, dlq, tenantActive,
                   clock, reaping, requeues>>

-----------------------------------------------------------------------------
NextQueue ==
    \/ \E j \in Jobs :
         \/ \E d \in BOOLEAN : Add(j, d)
         \/ Claim(j)
         \/ Complete(j)
         \/ Fail(j)
         \/ Heartbeat(j)
         \/ HeartbeatAges(j)
         \/ RunAtPasses(j)
         \/ RetryJob(j)
    \/ \E q \in Queues : RetryDLQ(q) \/ ClearCompleted(q)
    \/ PromoteDelayed
    \/ ReaperFires
    \/ ReaperVisits

(* The interval callbacks of a running process keep firing.  Nothing is    *)
(* assumed of workers and clients.                                         *)
QueueFairness ==
    /\ WF_queueVars(PromoteDelayed)
    /\ WF_queueVars(ReaperFires)
    /\ WF_queueVars(ReaperVisits)

QueueSpec == InitQueue /\ [][NextQueue]_queueVars

FairQueueSpec == QueueSpec /\ QueueFairness
-----------------------------------------------------------------------------
(***************************************************************************)
(* Properties                                                              *)
(***************************************************************************)

\* Every variable has the shape the code gives it.
QueueTypeOK ==
    /\ job \in [Jobs -> JobFields]
    /\ heap \in [Jobs -> Nat]
    /\ delayed \in [Jobs -> Nat]
    /\ active \in [Slots -> Jobs \cup {NoJob}]
    /\ completed \in [Queues -> Seq(Jobs)]
    /\ failed \in [Queues -> Seq(Jobs)]
    /\ dlq \in [Jobs -> Nat]
    /\ tenantActive \in [Tenants -> Nat]
    /\ clock \in Nat
    /\ reaping \in SUBSET Slots
    /\ requeues \in [Jobs -> [Routes -> Nat]]

(* Per-tenant fairness: however jobs are claimed, retried, reaped and      *)
(* re-queued, a tenant never has more than maxParallelPerTenant of them    *)
(* active, and the counter claim() trusts never falls below their number,  *)
(* so that decrementTenant() never has to clamp at zero.                   *)
TenantCap ==
    \A t \in Tenants :
        /\ Cardinality(SlotsOf(t)) <= tenantActive[t]
        /\ tenantActive[t] <= MaxParallel

\* A reference that can still lead to an execution of the job.
Live(j) == heap[j] > 0 \/ delayed[j] > 0 \/ ActiveSlots(j) # {}

(* No call sequence loses an unfinished job from memory: a job that was    *)
(* added and whose last outcome is not success is still queued, delayed,   *)
(* active, or in the dead-letter array, from where retryDLQ() reaches it.  *)
NoJobLost ==
    DlqEnabled =>
        \A j \in Jobs :
            job[j].status \notin {"none", "completed"} => Live(j) \/ dlq[j] > 0

\* An operator has used at most one of the two manual retry routes on j.
OneRoute(j) == requeues[j]["failed"] = 0 \/ requeues[j]["dlq"] = 0

(* A job re-queued by at most one of retryJob() and retryDLQ() is in       *)
(* exactly one live place, the one its status names, however workers,      *)
(* reaper and timers interleave: it is never handed out twice.             *)
OnePlace ==
    \A j \in Jobs : OneRoute(j) =>
        /\ heap[j] = IF job[j].status = "waiting" THEN 1 ELSE 0
        /\ delayed[j] = IF job[j].status = "delayed" THEN 1 ELSE 0
        /\ Cardinality(ActiveSlots(j)) = IF job[j].status = "active" THEN 1 ELSE 0

(* Such a job is never executed more often than maxAttempts allows between *)
(* two manual re-queues, and never before its runAt (delay or back-off).   *)
AttemptsAndRunAt ==
    \A j \in Jobs : OneRoute(j) =>
        /\ job[j].attempts <= (IF MaxAttempts[j] = 0 THEN 1 ELSE MaxAttempts[j])
        /\ job[j].status \in {"waiting", "active"} => job[j].due

(* The zombie reaper works: a claim whose heartbeats stopped does not stay *)
(* active with a silent heartbeat, it ends or beats again.                 *)
SilentClaimsEnd ==
    \A s \in Slots : (s \in SilentSlots) ~> (s \notin SilentSlots)

(* JobQueueV2.ts:58 promises "Per-tenant fairness (max parallel slots per  *)
(* clientCode)": a tenant with nothing active has a free slot.             *)
IdleTenantHasSlot ==
    \A t \in Tenants : SlotsOf(t) = {} => tenantActive[t] < MaxParallel
=============================================================================
