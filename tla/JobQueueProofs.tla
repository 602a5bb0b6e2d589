--------------------------- MODULE JobQueueProofs ---------------------------
(***************************************************************************)
(* Theorems about JobQueue, for any sets of jobs, queues and tenants, any  *)
(* priorities, caps and bounds.  The inductive invariant is the type       *)
(* invariant, with the fact that the reaper only holds occupied entries;   *)
(* TenantCap and NoJobLost are inductive relative to it.  OnePlace and     *)
(* AttemptsAndRunAt come from LifeInv, which says where a job that one     *)
(* route at most has re-queued is, and where that route finds it.          *)
(***************************************************************************)
EXTENDS JobQueue, FiniteSetTheorems, SequenceTheorems, TLAPS

\* The entries the reaper's loop has yet to fail are still occupied.
ReapingOccupied == \A s \in reaping : active[s] \in Jobs

Shape == QueueTypeOK /\ ReapingOccupied

-----------------------------------------------------------------------------
\* The capped buffers stay sequences of what they held.
LEMMA KeepLastType ==
    ASSUME NEW S, NEW s \in Seq(S), NEW n \in Nat
    PROVE  KeepLast(s, n) \in Seq(S)
<1>1. CASE Len(s) > n
  <2>1. \A i \in (Len(s) - n + 1)..Len(s) : s[i] \in S
    BY <1>1, LenProperties
  <2>2. SubSeq(s, Len(s) - n + 1, Len(s)) \in Seq(S)
    BY <2>1, LenProperties, SubSeqProperties
  <2> QED BY <1>1, <2>2 DEF KeepLast
<1>2. CASE ~(Len(s) > n)
  BY <1>2 DEF KeepLast
<1> QED BY <1>1, <1>2

\* So does a buffer from which retryJob() has taken an element.
LEMMA RemoveAtType ==
    ASSUME NEW S, NEW s \in Seq(S), NEW i \in 1..Len(s)
    PROVE  RemoveAt(s, i) \in Seq(S)
<1>1. SubSeq(s, 1, i - 1) \in Seq(S)
  BY LenProperties, SubSeqProperties
<1>2. SubSeq(s, i + 1, Len(s)) \in Seq(S)
  BY LenProperties, SubSeqProperties
<1> QED BY <1>1, <1>2, ConcatProperties DEF RemoveAt

-----------------------------------------------------------------------------
\* A counter of one job goes up or, being positive, down.
LEMMA CountType ==
    ASSUME NEW S, NEW f \in [S -> Nat], NEW x \in S
    PROVE  /\ [f EXCEPT ![x] = @ + 1] \in [S -> Nat]
           /\ f[x] > 0 => [f EXCEPT ![x] = @ - 1] \in [S -> Nat]
OBVIOUS

\* The updates of a job's fields that the operations make.
LEMMA JobType ==
    ASSUME NEW f \in [Jobs -> JobFields], NEW j \in Jobs,
           NEW s \in Statuses, NEW h \in Heartbeats, NEW b \in BOOLEAN, NEW n \in Nat
    PROVE  /\ [f EXCEPT ![j].status = s] \in [Jobs -> JobFields]
           /\ [f EXCEPT ![j].hb = h] \in [Jobs -> JobFields]
           /\ [f EXCEPT ![j].due = b] \in [Jobs -> JobFields]
           /\ [f EXCEPT ![j].status = s, ![j].due = b] \in [Jobs -> JobFields]
           /\ [f EXCEPT ![j].status = s, ![j].attempts = n] \in [Jobs -> JobFields]
           /\ [f[j] EXCEPT !.status = s] \in JobFields
           /\ [f[j] EXCEPT !.status = s, !.attempts = n] \in JobFields
           /\ [NewJob EXCEPT !.status = s, !.due = b, !.born = n] \in JobFields
<1>1. /\ [f EXCEPT ![j].status = s] \in [Jobs -> JobFields]
      /\ [f EXCEPT ![j].hb = h] \in [Jobs -> JobFields]
      /\ [f EXCEPT ![j].due = b] \in [Jobs -> JobFields]
  BY DEF JobFields
<1>2. [f EXCEPT ![j].status = s, ![j].due = b] \in [Jobs -> JobFields]
  BY DEF JobFields
<1>3. [f EXCEPT ![j].status = s, ![j].attempts = n] \in [Jobs -> JobFields]
  BY DEF JobFields
<1>4. [f[j] EXCEPT !.status = s] \in JobFields
  BY DEF JobFields
<1>5. [f[j] EXCEPT !.status = s, !.attempts = n] \in JobFields
  BY DEF JobFields
<1>6. [NewJob EXCEPT !.status = s, !.due = b, !.born = n] \in JobFields
  BY DEF JobFields, NewJob, Heartbeats
<1> QED BY <1>1, <1>2, <1>3, <1>4, <1>5, <1>6

\* A buffer of one queue takes a job and is cut to its cap.
LEMMA BufferType ==
    ASSUME NEW f \in [Queues -> Seq(Jobs)], NEW j \in Jobs
    PROVE  [f EXCEPT ![QueueOf[j]] = KeepLast(Append(@, j), MaxKept)]
             \in [Queues -> Seq(Jobs)]
<1>1. QueueOf[j] \in Queues /\ MaxKept \in Nat
  BY JobQueueAssumption
<1>2. Append(f[QueueOf[j]], j) \in Seq(Jobs)
  BY <1>1
<1>3. KeepLast(Append(f[QueueOf[j]], j), MaxKept) \in Seq(Jobs)
  BY <1>1, <1>2, KeepLastType
<1> QED BY <1>1, <1>3

\* decrementTenant() never goes below zero.
LEMMA DecrementedType ==
    ASSUME tenantActive \in [Tenants -> Nat], NEW j \in Jobs
    PROVE  Decremented(j) \in [Tenants -> Nat]
<1>1. TenantOf[j] \in Tenants
  BY JobQueueAssumption
<1> QED BY <1>1 DEF Decremented

-----------------------------------------------------------------------------
\* The initial queue has the shape.
LEMMA ShapeInit == InitQueue => Shape
<1> SUFFICES ASSUME InitQueue PROVE Shape
  OBVIOUS
<1>1. NewJob \in JobFields
  BY DEF NewJob, JobFields, Statuses, Heartbeats
<1>2. [j \in Jobs |-> [r \in Routes |-> 0]] \in [Jobs -> [Routes -> Nat]]
  OBVIOUS
<1>3. QueueTypeOK
  BY <1>1, <1>2 DEF InitQueue, QueueTypeOK
<1> QED
  BY <1>3 DEF InitQueue, Shape, ReapingOccupied

\* fail() keeps the shape of everything but the reaper's own list.
LEMMA FailBodyShape ==
    ASSUME QueueTypeOK, NEW j \in Jobs, FailBody(j)
    PROVE  /\ job' \in [Jobs -> JobFields]
           /\ delayed' \in [Jobs -> Nat]
           /\ active' \in [Slots -> Jobs \cup {NoJob}]
           /\ failed' \in [Queues -> Seq(Jobs)]
           /\ dlq' \in [Jobs -> Nat]
           /\ tenantActive' \in [Tenants -> Nat]
           /\ UNCHANGED <<heap, completed, clock, requeues>>
<1>1. /\ job \in [Jobs -> JobFields]
      /\ delayed \in [Jobs -> Nat]
      /\ active \in [Slots -> Jobs \cup {NoJob}]
      /\ failed \in [Queues -> Seq(Jobs)]
      /\ dlq \in [Jobs -> Nat]
      /\ tenantActive \in [Tenants -> Nat]
  BY DEF QueueTypeOK
<1>2. active' \in [Slots -> Jobs \cup {NoJob}]
  BY <1>1 DEF FailBody, RemoveFromActive, IsFirstEntry
<1>3. "delayed" \in Statuses /\ "failed" \in Statuses /\ "none" \in Heartbeats
  BY DEF Statuses, Heartbeats
<1>4. CASE RetryLater(j)
  <2>1. job' \in [Jobs -> JobFields]
    BY <1>1, <1>3, <1>4, JobType DEF RetryLater
  <2>2. delayed' \in [Jobs -> Nat]
    BY <1>1, <1>4, CountType DEF RetryLater
  <2> QED BY <1>1, <1>2, <1>4, <2>1, <2>2 DEF FailBody, RetryLater
<1>5. CASE Exhaust(j)
  <2>1. failed' \in [Queues -> Seq(Jobs)]
    BY <1>1, <1>5, BufferType DEF Exhaust
  <2>2. job' \in [Jobs -> JobFields]
    BY <1>1, <1>3, <1>5, JobType DEF Exhaust
  <2>3. dlq' \in [Jobs -> Nat]
    BY <1>1, <1>5, CountType DEF Exhaust
  <2>4. tenantActive' \in [Tenants -> Nat]
    BY <1>1, <1>5, DecrementedType DEF Exhaust
  <2> QED BY <1>1, <1>2, <1>5, <2>1, <2>2, <2>3, <2>4 DEF FailBody, Exhaust
<1> QED BY <1>4, <1>5 DEF FailBody

-----------------------------------------------------------------------------
\* Every step keeps the shape.
LEMMA ShapeStep == Shape /\ [NextQueue]_queueVars => Shape'
<1> SUFFICES ASSUME Shape, [NextQueue]_queueVars PROVE Shape'
  OBVIOUS
<1>a. QueueTypeOK /\ ReapingOccupied
  BY DEF Shape
<1>b. /\ job \in [Jobs -> JobFields]
      /\ heap \in [Jobs -> Nat]
      /\ delayed \in [Jobs -> Nat]
      /\ active \in [Slots -> Jobs \cup {NoJob}]
      /\ dlq \in [Jobs -> Nat]
      /\ tenantActive \in [Tenants -> Nat]
      /\ clock \in Nat
  BY <1>a DEF QueueTypeOK
<1>c. /\ completed \in [Queues -> Seq(Jobs)]
      /\ failed \in [Queues -> Seq(Jobs)]
  BY <1>a DEF QueueTypeOK
<1>d. requeues \in [Jobs -> [Routes -> Nat]]
  BY <1>a DEF QueueTypeOK
<1>e. \A j \in Jobs : QueueOf[j] \in Queues /\ TenantOf[j] \in Tenants
  BY JobQueueAssumption
<1>f. /\ {"waiting", "active", "completed", "delayed"} \subseteq Statuses
      /\ {"none", "fresh", "silent"} \subseteq Heartbeats
      /\ {"failed", "dlq"} \subseteq Routes
  BY DEF Statuses, Heartbeats, Routes
<1>1. ASSUME NEW j \in Jobs, NEW d \in BOOLEAN, Add(j, d) PROVE Shape'
  <2>1. PICK t \in {clock, clock + 1} \ {0} :
          /\ clock' = t
          /\ job' = [job EXCEPT ![j] =
                       [NewJob EXCEPT !.status = IF d THEN "delayed" ELSE "waiting",
                                      !.due = ~d,
                                      !.born = t]]
    BY <1>1 DEF Add
  <2>2. clock' \in Nat
    BY <1>b, <2>1
  <2>3. job' \in [Jobs -> JobFields]
    <3>1. t \in Nat
      BY <1>b, <2>1
    <3>a. (IF d THEN "delayed" ELSE "waiting") \in Statuses
      BY <1>f
    <3>b. (~d) \in BOOLEAN
      OBVIOUS
    <3>2. [NewJob EXCEPT !.status = IF d THEN "delayed" ELSE "waiting",
                         !.due = ~d, !.born = t] \in JobFields
      BY <1>b, <1>f, <3>1, <3>a, <3>b, JobType
    <3> QED BY <1>b, <2>1, <3>2
  <2>4. heap' \in [Jobs -> Nat] /\ delayed' \in [Jobs -> Nat]
    BY <1>1, <1>b, CountType DEF Add
  <2> QED BY <1>1, <1>a, <2>2, <2>3, <2>4
          DEF Add, Idle, Shape, QueueTypeOK, ReapingOccupied
<1>2. ASSUME NEW j \in Jobs, Claim(j) PROVE Shape'
  <2>1. heap' \in [Jobs -> Nat]
    BY <1>2, <1>b, CountType DEF Claim, Poppable
  <2>2. job' \in [Jobs -> JobFields]
    <3>1. job[j].attempts + 1 \in Nat
      <4>1. job[j] \in JobFields
        BY <1>b
      <4>2. job[j].attempts \in Nat
        BY <4>1 DEF JobFields
      <4> QED BY <4>2
    <3>2. job' = [job EXCEPT ![j].status = "active", ![j].attempts = job[j].attempts + 1]
      BY <1>2 DEF Claim
    <3> QED BY <1>b, <1>f, <3>1, <3>2, JobType
  <2>3. tenantActive' \in [Tenants -> Nat]
    BY <1>2, <1>b, <1>e, CountType DEF Claim
  <2>4. active' \in [Slots -> Jobs \cup {NoJob}]
    BY <1>2, <1>b DEF Claim
  <2> QED BY <1>2, <1>a, <2>1, <2>2, <2>3, <2>4
          DEF Claim, Idle, Shape, QueueTypeOK, ReapingOccupied
<1>3. ASSUME NEW j \in Jobs, Complete(j) PROVE Shape'
  <2>1. completed' \in [Queues -> Seq(Jobs)]
    BY <1>3, <1>c, BufferType DEF Complete
  <2>2. job' \in [Jobs -> JobFields]
    BY <1>3, <1>b, <1>f, JobType DEF Complete
  <2>3. tenantActive' \in [Tenants -> Nat]
    BY <1>3, <1>b, DecrementedType DEF Complete
  <2>4. active' \in [Slots -> Jobs \cup {NoJob}]
    BY <1>3, <1>b DEF Complete, RemoveFromActive, IsFirstEntry
  <2> QED BY <1>3, <1>a, <2>1, <2>2, <2>3, <2>4
          DEF Complete, Idle, Shape, QueueTypeOK, ReapingOccupied
<1>4. ASSUME NEW j \in Jobs, Fail(j) PROVE Shape'
  <2>1. FailBody(j) /\ reaping = {} /\ reaping' = {}
    BY <1>4 DEF Fail, Idle
  <2> QED BY <1>a, <2>1, FailBodyShape DEF Shape, QueueTypeOK, ReapingOccupied
<1>5. ASSUME NEW j \in Jobs, Heartbeat(j) PROVE Shape'
  <2>1. job' \in [Jobs -> JobFields]
    BY <1>5, <1>b, <1>f, JobType DEF Heartbeat
  <2> QED BY <1>5, <1>a, <2>1 DEF Heartbeat, Idle, Shape, QueueTypeOK, ReapingOccupied
<1>6. ASSUME NEW j \in Jobs, HeartbeatAges(j) PROVE Shape'
  <2>1. job' \in [Jobs -> JobFields]
    BY <1>6, <1>b, <1>f, JobType DEF HeartbeatAges
  <2> QED BY <1>6, <1>a, <2>1 DEF HeartbeatAges, Idle, Shape, QueueTypeOK, ReapingOccupied
<1>7. ASSUME NEW j \in Jobs, RunAtPasses(j) PROVE Shape'
  <2>1. job' \in [Jobs -> JobFields]
    BY <1>7, <1>b, <1>f, JobType DEF RunAtPasses
  <2> QED BY <1>7, <1>a, <2>1 DEF RunAtPasses, Idle, Shape, QueueTypeOK, ReapingOccupied
<1>8. ASSUME NEW j \in Jobs, RetryJob(j) PROVE Shape'
  <2>1. failed' \in [Queues -> Seq(Jobs)]
    <3>1. PICK i \in DOMAIN failed[QueueOf[j]] :
            failed' = [failed EXCEPT ![QueueOf[j]] = RemoveAt(@, i)]
      BY <1>8 DEF RetryJob
    <3>2. failed[QueueOf[j]] \in Seq(Jobs)
      BY <1>c, <1>e
    <3>3. i \in 1..Len(failed[QueueOf[j]])
      BY <3>2, LenProperties
    <3>4. RemoveAt(failed[QueueOf[j]], i) \in Seq(Jobs)
      BY <3>2, <3>3, RemoveAtType
    <3> QED BY <1>c, <3>1, <3>4
  <2>2. job' \in [Jobs -> JobFields]
    <3>1. Requeued(j) \in JobFields
      BY <1>b, <1>f, JobType DEF Requeued
    <3> QED BY <1>8, <1>b, <3>1 DEF RetryJob
  <2>3. heap' \in [Jobs -> Nat]
    BY <1>8, <1>b, CountType DEF RetryJob
  <2>4. requeues' \in [Jobs -> [Routes -> Nat]]
    <3>1. requeues' = [requeues EXCEPT ![j] = [requeues[j] EXCEPT !["failed"] = @ + 1]]
      BY <1>8 DEF RetryJob
    <3>2. [requeues[j] EXCEPT !["failed"] = @ + 1] \in [Routes -> Nat]
      BY <1>d, <1>f, CountType
    <3> QED BY <1>d, <3>1, <3>2
  <2> QED BY <1>8, <1>a, <2>1, <2>2, <2>3, <2>4
          DEF RetryJob, Idle, Shape, QueueTypeOK, ReapingOccupied
<1>9. ASSUME NEW q \in Queues, RetryDLQ(q) PROVE Shape'
  <2>1. job' \in [Jobs -> JobFields]
    <3>1. \A j \in Jobs : Requeued(j) \in JobFields
      BY <1>b, <1>f, JobType DEF Requeued
    <3> QED BY <1>9, <1>b, <3>1 DEF RetryDLQ
  <2>2. heap' \in [Jobs -> Nat] /\ dlq' \in [Jobs -> Nat]
    BY <1>9, <1>b DEF RetryDLQ
  <2>3. requeues' \in [Jobs -> [Routes -> Nat]]
    <3>1. \A j \in Jobs : [requeues[j] EXCEPT !["dlq"] = @ + 1] \in [Routes -> Nat]
      BY <1>d, <1>f, CountType
    <3> QED BY <1>9, <1>d, <3>1 DEF RetryDLQ
  <2> QED BY <1>9, <1>a, <2>1, <2>2, <2>3
          DEF RetryDLQ, Idle, Shape, QueueTypeOK, ReapingOccupied
<1>10. ASSUME NEW q \in Queues, ClearCompleted(q) PROVE Shape'
  <2>1. completed' \in [Queues -> Seq(Jobs)]
    BY <1>10, <1>c, EmptySeq DEF ClearCompleted
  <2> QED BY <1>10, <1>a, <2>1
          DEF ClearCompleted, Idle, Shape, QueueTypeOK, ReapingOccupied
<1>11. ASSUME PromoteDelayed PROVE Shape'
  <2>1. job' \in [Jobs -> JobFields]
    <3>1. \A j \in Jobs : [job[j] EXCEPT !.status = "waiting"] \in JobFields
      BY <1>b, <1>f, JobType
    <3> QED BY <1>11, <1>b, <3>1 DEF PromoteDelayed
  <2>2. heap' \in [Jobs -> Nat] /\ delayed' \in [Jobs -> Nat]
    BY <1>11, <1>b DEF PromoteDelayed
  <2> QED BY <1>11, <1>a, <2>1, <2>2
          DEF PromoteDelayed, Idle, Shape, QueueTypeOK, ReapingOccupied
<1>12. ASSUME ReaperFires PROVE Shape'
  <2>1. reaping' \in SUBSET Slots /\ ReapingOccupied'
    BY <1>12, <1>b DEF ReaperFires, SilentSlots, ReapingOccupied
  <2> QED BY <1>12, <1>a, <2>1 DEF ReaperFires, Shape, QueueTypeOK
<1>13. ASSUME ReaperVisits PROVE Shape'
  <2>1. PICK s \in reaping :
          /\ \A r \in reaping : active[r] = active[s] => s <= r
          /\ FailBody(active[s])
          /\ reaping' = reaping \ {s}
    BY <1>13 DEF ReaperVisits
  <2>2. active[s] \in Jobs
    BY <1>a, <2>1 DEF ReapingOccupied
  <2>3. PICK r \in Slots : /\ IsFirstEntry(r, active[s])
                           /\ active' = [active EXCEPT ![r] = NoJob]
    BY <2>1 DEF FailBody, RemoveFromActive, IsFirstEntry
  <2>4. r \notin reaping \ {s}
    <3> SUFFICES ASSUME r \in reaping, r # s PROVE FALSE
      OBVIOUS
    <3>1. s \in Nat /\ r \in Nat /\ s \in Slots
      BY <1>a, <2>1, <2>3, JobQueueAssumption DEF QueueTypeOK
    <3>2. s <= r
      BY <2>1, <2>3 DEF IsFirstEntry
    <3> QED BY <2>3, <3>1, <3>2 DEF IsFirstEntry
  <2>5. ReapingOccupied'
    BY <1>a, <1>b, <2>1, <2>3, <2>4 DEF ReapingOccupied, QueueTypeOK
  <2> QED BY <1>a, <2>1, <2>2, <2>5, FailBodyShape DEF Shape, QueueTypeOK
<1>14. ASSUME UNCHANGED queueVars PROVE Shape'
  BY <1>14, <1>a DEF queueVars, Shape, QueueTypeOK, ReapingOccupied
<1> QED
  BY <1>1, <1>2, <1>3, <1>4, <1>5, <1>6, <1>7, <1>8, <1>9, <1>10, <1>11,
     <1>12, <1>13, <1>14
  DEF NextQueue

\* The shape is an invariant.
LEMMA ShapeHolds == QueueSpec => []Shape
<1> QED BY ShapeInit, ShapeStep, PTL DEF QueueSpec

(* Type correctness: every variable keeps the shape the code gives it.     *)
THEOREM TypeCorrect == QueueSpec => []QueueTypeOK
<1>1. Shape => QueueTypeOK
  BY DEF Shape
<1> QED BY <1>1, ShapeHolds, PTL
-----------------------------------------------------------------------------
\* The number of active entries of a tenant is a natural number.
LEMMA SlotsOfFinite ==
    \A t \in Tenants : IsFiniteSet(SlotsOf(t)) /\ Cardinality(SlotsOf(t)) \in Nat
<1> SUFFICES ASSUME NEW t \in Tenants
             PROVE  IsFiniteSet(SlotsOf(t)) /\ Cardinality(SlotsOf(t)) \in Nat
  OBVIOUS
<1>1. IsFiniteSet(SlotsOf(t))
  BY JobQueueAssumption, FS_Subset DEF SlotsOf
<1> QED BY <1>1, FS_CardinalityType

(* Removing the entry of j leaves its tenant one entry less, and the other *)
(* tenants as many as before.                                              *)
LEMMA SlotsAfterRemoval ==
    ASSUME Shape, NEW j \in Jobs, RemoveFromActive(j), NEW t \in Tenants
    PROVE  Cardinality(SlotsOf(t)') =
             IF t = TenantOf[j] THEN Cardinality(SlotsOf(t)) - 1
                                ELSE Cardinality(SlotsOf(t))
<1>1. PICK s \in Slots : active[s] = j /\ active' = [active EXCEPT ![s] = NoJob]
  BY DEF RemoveFromActive, IsFirstEntry
<1>2. active \in [Slots -> Jobs \cup {NoJob}] /\ NoJob \notin Jobs
  BY JobQueueAssumption DEF Shape, QueueTypeOK
<1>3. SlotsOf(t)' = SlotsOf(t) \ {s}
  BY <1>1, <1>2 DEF SlotsOf
<1>4. s \in SlotsOf(t) <=> t = TenantOf[j]
  BY <1>1, <1>2 DEF SlotsOf
<1> QED BY <1>3, <1>4, SlotsOfFinite, FS_RemoveElement

\* fail() keeps TenantCap.
LEMMA FailBodyCap ==
    ASSUME Shape, TenantCap, NEW j \in Jobs, FailBody(j)
    PROVE  TenantCap'
<1> SUFFICES ASSUME NEW t \in Tenants
             PROVE  /\ Cardinality(SlotsOf(t)') <= tenantActive'[t]
                    /\ tenantActive'[t] <= MaxParallel
  BY DEF TenantCap
<1>1. /\ Cardinality(SlotsOf(t)) \in Nat
      /\ tenantActive \in [Tenants -> Nat]
      /\ MaxParallel \in Nat
      /\ Cardinality(SlotsOf(t)) <= tenantActive[t]
      /\ tenantActive[t] <= MaxParallel
  BY SlotsOfFinite, JobQueueAssumption DEF Shape, QueueTypeOK, TenantCap
<1>2. Cardinality(SlotsOf(t)') = IF t = TenantOf[j] THEN Cardinality(SlotsOf(t)) - 1
                                                  ELSE Cardinality(SlotsOf(t))
  BY SlotsAfterRemoval DEF FailBody
<1>3. CASE tenantActive' = tenantActive
  BY <1>1, <1>2, <1>3
<1>4. CASE tenantActive' = Decremented(j)
  BY <1>1, <1>2, <1>4 DEF Decremented
<1> QED BY <1>3, <1>4 DEF FailBody, RetryLater, Exhaust

\* Every step keeps TenantCap.
LEMMA CapStep == Shape /\ TenantCap /\ [NextQueue]_queueVars => TenantCap'
<1> SUFFICES ASSUME Shape, TenantCap, [NextQueue]_queueVars PROVE TenantCap'
  OBVIOUS
<1>a. /\ tenantActive \in [Tenants -> Nat]
      /\ active \in [Slots -> Jobs \cup {NoJob}]
      /\ NoJob \notin Jobs
      /\ MaxParallel \in Nat
  BY JobQueueAssumption DEF Shape, QueueTypeOK
<1>1. ASSUME NEW j \in Jobs, Claim(j) PROVE TenantCap'
  <2> SUFFICES ASSUME NEW t \in Tenants
               PROVE  /\ Cardinality(SlotsOf(t)') <= tenantActive'[t]
                      /\ tenantActive'[t] <= MaxParallel
    BY DEF TenantCap
  <2>1. PICK s \in Slots : active[s] = NoJob /\ active' = [active EXCEPT ![s] = j]
    BY <1>1 DEF Claim
  <2>2. tenantActive' = [tenantActive EXCEPT ![TenantOf[j]] = @ + 1]
    BY <1>1 DEF Claim
  <2>3. tenantActive[TenantOf[j]] < MaxParallel
    BY <1>1 DEF Claim, Poppable, HasSlot
  <2>4. Cardinality(SlotsOf(t)) \in Nat /\ IsFiniteSet(SlotsOf(t))
    BY SlotsOfFinite
  <2>5. Cardinality(SlotsOf(t)) <= tenantActive[t] /\ tenantActive[t] <= MaxParallel
    BY DEF TenantCap
  <2>6. CASE t = TenantOf[j]
    <3>1. SlotsOf(t)' = SlotsOf(t) \cup {s} /\ s \notin SlotsOf(t)
      BY <1>a, <2>1, <2>6 DEF SlotsOf
    <3>2. Cardinality(SlotsOf(t)') = Cardinality(SlotsOf(t)) + 1
      BY <2>4, <3>1, FS_AddElement
    <3> QED BY <1>a, <2>2, <2>3, <2>4, <2>5, <2>6, <3>2
  <2>7. CASE t # TenantOf[j]
    <3>1. SlotsOf(t)' = SlotsOf(t)
      BY <1>a, <2>1, <2>7 DEF SlotsOf
    <3> QED BY <1>a, <2>2, <2>5, <2>7, <3>1
  <2> QED BY <2>6, <2>7
<1>2. ASSUME NEW j \in Jobs, Complete(j) PROVE TenantCap'
  <2> SUFFICES ASSUME NEW t \in Tenants
               PROVE  /\ Cardinality(SlotsOf(t)') <= tenantActive'[t]
                      /\ tenantActive'[t] <= MaxParallel
    BY DEF TenantCap
  <2>1. Cardinality(SlotsOf(t)') = IF t = TenantOf[j] THEN Cardinality(SlotsOf(t)) - 1
                                                    ELSE Cardinality(SlotsOf(t))
    BY <1>2, SlotsAfterRemoval DEF Complete
  <2>2. Cardinality(SlotsOf(t)) \in Nat
    BY SlotsOfFinite
  <2>3. Cardinality(SlotsOf(t)) <= tenantActive[t] /\ tenantActive[t] <= MaxParallel
    BY DEF TenantCap
  <2>4. tenantActive' = Decremented(j)
    BY <1>2 DEF Complete
  <2> QED BY <1>a, <2>1, <2>2, <2>3, <2>4 DEF Decremented
<1>3. ASSUME NEW j \in Jobs, Fail(j) PROVE TenantCap'
  BY <1>3, FailBodyCap DEF Fail
<1>4. ASSUME ReaperVisits PROVE TenantCap'
  <2>1. PICK s \in reaping : FailBody(active[s])
    BY <1>4 DEF ReaperVisits
  <2>2. active[s] \in Jobs
    BY <2>1 DEF Shape, ReapingOccupied
  <2> QED BY <2>1, <2>2, FailBodyCap
<1>5. ASSUME UNCHANGED <<active, tenantActive>> PROVE TenantCap'
  BY <1>5 DEF TenantCap, SlotsOf
<1> QED
  BY <1>1, <1>2, <1>3, <1>4, <1>5
  DEF NextQueue, Add, Heartbeat, HeartbeatAges, RunAtPasses, RetryJob, RetryDLQ,
      ClearCompleted, PromoteDelayed, ReaperFires, queueVars

(* Per-tenant fairness for any number of tenants, jobs and slots: no       *)
(* tenant ever has more than maxParallelPerTenant jobs active, and the     *)
(* counter claim() trusts is never below their number.                     *)
THEOREM TenantCapHolds == QueueSpec => []TenantCap
<1>1. InitQueue => TenantCap
  <2> SUFFICES ASSUME InitQueue, NEW t \in Tenants
               PROVE  /\ Cardinality(SlotsOf(t)) <= tenantActive[t]
                      /\ tenantActive[t] <= MaxParallel
    BY DEF TenantCap
  <2>1. SlotsOf(t) = {}
    BY DEF InitQueue, SlotsOf
  <2> QED BY <2>1, FS_EmptySet, JobQueueAssumption DEF InitQueue
<1> QED BY <1>1, CapStep, ShapeHolds, PTL DEF QueueSpec

-----------------------------------------------------------------------------
\* A job that is not lost, one job at a time.
Kept(j) ==
    job[j].status \notin {"none", "completed"} => Live(j) \/ dlq[j] > 0

\* fail() of j does not lose a job k.
LEMMA FailBodyKeeps ==
    ASSUME Shape, DlqEnabled, NEW j \in Jobs, FailBody(j), NEW k \in Jobs, Kept(k)
    PROVE  Kept(k)'
<1>a. /\ job \in [Jobs -> JobFields]
      /\ delayed \in [Jobs -> Nat]
      /\ dlq \in [Jobs -> Nat]
      /\ active \in [Slots -> Jobs \cup {NoJob}]
      /\ NoJob \notin Jobs
  BY JobQueueAssumption DEF Shape, QueueTypeOK
<1>1. CASE k = j /\ RetryLater(j)
  <2>1. delayed'[k] > 0
    BY <1>a, <1>1 DEF RetryLater
  <2> QED BY <2>1 DEF Kept, Live
<1>2. CASE k = j /\ Exhaust(j)
  <2>1. dlq'[k] > 0
    BY <1>a, <1>2 DEF Exhaust
  <2> QED BY <2>1 DEF Kept, Live
<1>3. CASE k # j
  <2>1. PICK s \in Slots : active[s] = j /\ active' = [active EXCEPT ![s] = NoJob]
    BY DEF FailBody, RemoveFromActive, IsFirstEntry
  <2>2. ActiveSlots(k)' = ActiveSlots(k)
    BY <1>a, <1>3, <2>1 DEF ActiveSlots
  <2>3. /\ job'[k] = job[k]
        /\ delayed'[k] = delayed[k]
        /\ dlq'[k] = dlq[k]
        /\ heap' = heap
    BY <1>a, <1>3 DEF FailBody, RetryLater, Exhaust
  <2> QED BY <2>2, <2>3 DEF Kept, Live
<1> QED BY <1>1, <1>2, <1>3 DEF FailBody

\* No step loses a job.
LEMMA KeptStep ==
    ASSUME Shape, DlqEnabled, [NextQueue]_queueVars, NEW k \in Jobs, Kept(k)
    PROVE  Kept(k)'
<1>a. /\ job \in [Jobs -> JobFields]
      /\ heap \in [Jobs -> Nat]
      /\ delayed \in [Jobs -> Nat]
      /\ dlq \in [Jobs -> Nat]
      /\ active \in [Slots -> Jobs \cup {NoJob}]
      /\ NoJob \notin Jobs
  BY JobQueueAssumption DEF Shape, QueueTypeOK
<1>1. ASSUME NEW j \in Jobs, NEW d \in BOOLEAN, Add(j, d) PROVE Kept(k)'
  <2>1. active' = active /\ dlq' = dlq
    BY <1>1 DEF Add
  <2>2. CASE k = j
    <3>1. heap'[k] > 0 \/ delayed'[k] > 0
      BY <1>a, <1>1, <2>2 DEF Add
    <3> QED BY <3>1 DEF Kept, Live
  <2>3. CASE k # j
    <3>1. job'[k] = job[k] /\ heap'[k] = heap[k] /\ delayed'[k] = delayed[k]
      BY <1>a, <1>1, <2>3 DEF Add
    <3> QED BY <2>1, <3>1 DEF Kept, Live, ActiveSlots
  <2> QED BY <2>2, <2>3
<1>2. ASSUME NEW j \in Jobs, Claim(j) PROVE Kept(k)'
  <2>1. PICK s \in Slots : active[s] = NoJob /\ active' = [active EXCEPT ![s] = j]
    BY <1>2 DEF Claim
  <2>2. CASE k = j
    <3>1. s \in ActiveSlots(k)'
      BY <1>a, <2>1, <2>2 DEF ActiveSlots
    <3> QED BY <3>1 DEF Kept, Live
  <2>3. CASE k # j
    <3>1. ActiveSlots(k)' = ActiveSlots(k)
      BY <1>a, <2>1, <2>3 DEF ActiveSlots
    <3>2. job'[k] = job[k] /\ heap'[k] = heap[k] /\ delayed' = delayed /\ dlq' = dlq
      BY <1>a, <1>2, <2>3 DEF Claim
    <3> QED BY <3>1, <3>2 DEF Kept, Live
  <2> QED BY <2>2, <2>3
<1>3. ASSUME NEW j \in Jobs, Complete(j) PROVE Kept(k)'
  <2>1. PICK s \in Slots : active[s] = j /\ active' = [active EXCEPT ![s] = NoJob]
    BY <1>3 DEF Complete, RemoveFromActive, IsFirstEntry
  <2>2. CASE k = j
    <3>1. job'[k].status = "completed"
      BY <1>a, <1>3, <2>2 DEF Complete, JobFields
    <3> QED BY <3>1 DEF Kept
  <2>3. CASE k # j
    <3>1. ActiveSlots(k)' = ActiveSlots(k)
      BY <1>a, <2>1, <2>3 DEF ActiveSlots
    <3>2. job'[k] = job[k] /\ heap' = heap /\ delayed' = delayed /\ dlq' = dlq
      BY <1>a, <1>3, <2>3 DEF Complete
    <3> QED BY <3>1, <3>2 DEF Kept, Live
  <2> QED BY <2>2, <2>3
<1>4. ASSUME NEW j \in Jobs, Fail(j) PROVE Kept(k)'
  BY <1>4, FailBodyKeeps DEF Fail
<1>5. ASSUME ReaperVisits PROVE Kept(k)'
  <2>1. PICK s \in reaping : FailBody(active[s])
    BY <1>5 DEF ReaperVisits
  <2>2. active[s] \in Jobs
    BY <2>1 DEF Shape, ReapingOccupied
  <2> QED BY <2>1, <2>2, FailBodyKeeps
<1>6. ASSUME NEW j \in Jobs, Heartbeat(j) \/ HeartbeatAges(j) \/ RunAtPasses(j)
      PROVE  Kept(k)'
  <2>1. job'[k].status = job[k].status
    BY <1>a, <1>6 DEF Heartbeat, HeartbeatAges, RunAtPasses, JobFields
  <2>2. UNCHANGED <<heap, delayed, active, dlq>>
    BY <1>6 DEF Heartbeat, HeartbeatAges, RunAtPasses
  <2> QED BY <2>1, <2>2 DEF Kept, Live, ActiveSlots
<1>7. ASSUME PromoteDelayed PROVE Kept(k)'
  <2>1. UNCHANGED <<active, dlq>>
    BY <1>7 DEF PromoteDelayed
  <2>2. CASE k \in Ready
    <3>1. heap'[k] > 0
      BY <1>a, <1>7, <2>2 DEF PromoteDelayed, Ready
    <3> QED BY <3>1 DEF Kept, Live
  <2>3. CASE k \notin Ready
    <3>1. job'[k] = job[k] /\ heap'[k] = heap[k] /\ delayed'[k] = delayed[k]
      BY <1>7, <2>3 DEF PromoteDelayed
    <3> QED BY <2>1, <3>1 DEF Kept, Live, ActiveSlots
  <2> QED BY <2>2, <2>3
<1>8. ASSUME NEW j \in Jobs, RetryJob(j) PROVE Kept(k)'
  <2>1. UNCHANGED <<active, dlq, delayed>>
    BY <1>8 DEF RetryJob
  <2>2. CASE k = j
    <3>1. heap'[k] > 0
      BY <1>a, <1>8, <2>2 DEF RetryJob
    <3> QED BY <3>1 DEF Kept, Live
  <2>3. CASE k # j
    <3>1. job'[k] = job[k] /\ heap'[k] = heap[k]
      BY <1>a, <1>8, <2>3 DEF RetryJob
    <3> QED BY <2>1, <3>1 DEF Kept, Live, ActiveSlots
  <2> QED BY <2>2, <2>3
<1>9. ASSUME NEW q \in Queues, RetryDLQ(q) PROVE Kept(k)'
  <2>1. UNCHANGED <<active, delayed>>
    BY <1>9 DEF RetryDLQ
  <2>2. CASE k \in DeadLetters(q)
    <3>1. heap'[k] > 0
      BY <1>a, <1>9, <2>2 DEF RetryDLQ, DeadLetters
    <3> QED BY <3>1 DEF Kept, Live
  <2>3. CASE k \notin DeadLetters(q)
    <3>1. job'[k] = job[k] /\ heap'[k] = heap[k] /\ dlq'[k] = dlq[k]
      BY <1>9, <2>3 DEF RetryDLQ
    <3> QED BY <2>1, <3>1 DEF Kept, Live, ActiveSlots
  <2> QED BY <2>2, <2>3
<1>10. ASSUME UNCHANGED <<job, heap, delayed, active, dlq>> PROVE Kept(k)'
  BY <1>10 DEF Kept, Live, ActiveSlots
<1> QED
  BY <1>1, <1>2, <1>3, <1>4, <1>5, <1>6, <1>7, <1>8, <1>9, <1>10
  DEF NextQueue, ReaperFires, ClearCompleted, queueVars

(* No call sequence loses an unfinished job from memory: with the dead-    *)
(* letter array enabled it is queued, delayed, active or dead-lettered.    *)
THEOREM NoJobLostHolds == QueueSpec => []NoJobLost
<1>1. InitQueue => NoJobLost
  BY DEF InitQueue, NoJobLost, NewJob
<1>2. Shape /\ NoJobLost /\ [NextQueue]_queueVars => NoJobLost'
  BY KeptStep DEF NoJobLost, Kept
<1> QED BY <1>1, <1>2, ShapeHolds, PTL DEF QueueSpec
-----------------------------------------------------------------------------
(***************************************************************************)
(* OnePlace and AttemptsAndRunAt.  What they say of a job that one route   *)
(* re-queues rests on what that route takes it from: as long as only       *)
(* retryJob() has been used, the failed buffer holds the job at most once  *)
(* and only while it is failed, and likewise the dead-letter array as long *)
(* as only retryDLQ() has.                                                 *)
(***************************************************************************)
Absent(s, j) == \A a \in 1..Len(s) : s[a] # j

HeldOnce(s, j) == \A a, b \in 1..Len(s) : s[a] = j /\ s[b] = j => a = b

\* The status of j names the one live place that refers to it.
Placed(j) ==
    /\ heap[j] = IF job[j].status = "waiting" THEN 1 ELSE 0
    /\ delayed[j] = IF job[j].status = "delayed" THEN 1 ELSE 0
    /\ job[j].status = "active" => \E s \in Slots : ActiveSlots(j) = {s}
    /\ job[j].status # "active" => ActiveSlots(j) = {}

\* The route that is used finds j once, when it has failed.
Retryable(j) ==
    /\ requeues[j]["dlq"] = 0 =>
         /\ HeldOnce(failed[QueueOf[j]], j)
         /\ job[j].status # "failed" => Absent(failed[QueueOf[j]], j)
    /\ requeues[j]["failed"] = 0 =>
         /\ dlq[j] <= 1
         /\ job[j].status # "failed" => dlq[j] = 0

MostAttempts(j) == IF MaxAttempts[j] = 0 THEN 1 ELSE MaxAttempts[j]

(* A job that is queued or delayed has an attempt left; one that is not    *)
(* delayed has been due.  n is 0 here; DurableQueue has n restarts, each   *)
(* of which may be worth an attempt.                                       *)
Paced(j, n) ==
    /\ job[j].attempts <= MostAttempts(j) + n
    /\ job[j].status \in {"none", "waiting", "delayed"} =>
         job[j].attempts < MostAttempts(j) + n
    /\ job[j].status \notin {"none", "delayed"} => job[j].due

OneLife(j, n) == Placed(j) /\ Retryable(j) /\ Paced(j, n)

LifeInv == \A j \in Jobs : OneRoute(j) => OneLife(j, 0)

\* A capped buffer is the end of what it was cut from.
LEMMA KeepLastIsEnd ==
    ASSUME NEW S, NEW s \in Seq(S), NEW n \in Nat
    PROVE  \E d \in Nat : /\ Len(KeepLast(s, n)) + d = Len(s)
                          /\ \A i \in 1..Len(KeepLast(s, n)) : KeepLast(s, n)[i] = s[i + d]
<1>1. CASE Len(s) > n
  <2> DEFINE d == Len(s) - n
  <2>1. d \in Nat /\ Len(s) \in Nat
    BY <1>1, LenProperties
  <2>2. \A i \in (d + 1)..Len(s) : s[i] \in S
    BY <2>1, LenProperties
  <2>3. /\ Len(SubSeq(s, d + 1, Len(s))) = n
        /\ \A i \in 1..n : SubSeq(s, d + 1, Len(s))[i] = s[i + d]
    BY <2>1, <2>2, SubSeqProperties
  <2>4. KeepLast(s, n) = SubSeq(s, d + 1, Len(s))
    BY <1>1 DEF KeepLast
  <2>5. n + d = Len(s)
    BY <2>1
  <2> HIDE DEF d
  <2> QED BY <2>1, <2>3, <2>4, <2>5
<1>2. CASE ~(Len(s) > n)
  <2>1. KeepLast(s, n) = s /\ Len(s) \in Nat
    BY <1>2, LenProperties DEF KeepLast
  <2> QED BY <2>1
<1> QED BY <1>1, <1>2

\* A job that enters a buffer it was not in is there once, no other comes in.
LEMMA BufferedOnce ==
    ASSUME NEW s \in Seq(Jobs), NEW n \in Nat, NEW j \in Jobs, NEW k \in Jobs
    PROVE  /\ k # j /\ HeldOnce(s, k) => HeldOnce(KeepLast(Append(s, j), n), k)
           /\ k # j /\ Absent(s, k) => Absent(KeepLast(Append(s, j), n), k)
           /\ Absent(s, j) => HeldOnce(KeepLast(Append(s, j), n), j)
<1> DEFINE a == Append(s, j)
           r == KeepLast(a, n)
<1>1. /\ a \in Seq(Jobs)
      /\ Len(a) = Len(s) + 1 /\ Len(s) \in Nat
      /\ \A i \in 1..Len(s) : a[i] = s[i]
      /\ a[Len(s) + 1] = j
  BY AppendProperties, LenProperties
<1>2. PICK d \in Nat : Len(r) + d = Len(a) /\ \A i \in 1..Len(r) : r[i] = a[i + d]
  BY <1>1, KeepLastIsEnd
<1>3. Len(r) \in Nat
  BY <1>1, KeepLastType, LenProperties
<1> HIDE DEF a, r
<1>4. \A i \in 1..Len(r) : /\ i + d \in 1..(Len(s) + 1)
                           /\ i + d # Len(s) + 1 => i + d \in 1..Len(s) /\ r[i] = s[i + d]
                           /\ i + d = Len(s) + 1 => r[i] = j
  BY <1>1, <1>2, <1>3
<1>5. k # j /\ HeldOnce(s, k) => HeldOnce(r, k)
  <2> SUFFICES ASSUME k # j, HeldOnce(s, k),
                      NEW x \in 1..Len(r), NEW y \in 1..Len(r), r[x] = k, r[y] = k
               PROVE  x = y
    BY DEF HeldOnce
  <2>1. x + d \in 1..Len(s) /\ y + d \in 1..Len(s) /\ s[x + d] = k /\ s[y + d] = k
    BY <1>4
  <2>2. x + d = y + d
    BY <2>1 DEF HeldOnce
  <2> QED BY <1>3, <2>2
<1>6. k # j /\ Absent(s, k) => Absent(r, k)
  BY <1>4 DEF Absent
<1>7. Absent(s, j) => HeldOnce(r, j)
  <2> SUFFICES ASSUME Absent(s, j),
                      NEW x \in 1..Len(r), NEW y \in 1..Len(r), r[x] = j, r[y] = j
               PROVE  x = y
    BY DEF HeldOnce
  <2>1. x + d = Len(s) + 1 /\ y + d = Len(s) + 1
    BY <1>4 DEF Absent
  <2> QED BY <1>3, <2>1
<1> QED BY <1>5, <1>6, <1>7 DEF a, r

\* Taking an element out leaves the others, and none of a job that was there once.
LEMMA TakenOut ==
    ASSUME NEW s \in Seq(Jobs), NEW i \in 1..Len(s), NEW k \in Jobs
    PROVE  /\ HeldOnce(s, k) => HeldOnce(RemoveAt(s, i), k)
           /\ Absent(s, k) => Absent(RemoveAt(s, i), k)
           /\ HeldOnce(s, k) /\ s[i] = k => Absent(RemoveAt(s, i), k)
<1> DEFINE a == SubSeq(s, 1, i - 1)
           b == SubSeq(s, i + 1, Len(s))
           r == RemoveAt(s, i)
<1>1. Len(s) \in Nat /\ i \in Nat /\ 1 <= i /\ i <= Len(s)
  BY LenProperties
<1>2. a \in Seq(Jobs) /\ Len(a) = i - 1 /\ \A x \in 1..(i - 1) : a[x] = s[x]
  <2>1. \A x \in 1..(i - 1) : s[x] \in Jobs
    BY <1>1, LenProperties
  <2> QED BY <1>1, <2>1, SubSeqProperties
<1>3. b \in Seq(Jobs) /\ Len(b) = Len(s) - i /\ \A x \in 1..(Len(s) - i) : b[x] = s[x + i]
  <2>1. \A x \in (i + 1)..Len(s) : s[x] \in Jobs
    BY <1>1, LenProperties
  <2> QED BY <1>1, <2>1, SubSeqProperties
<1>4. r = a \o b
  BY DEF RemoveAt
<1> HIDE DEF a, b, r
<1>5. /\ Len(r) = Len(s) - 1
      /\ \A x \in 1..Len(r) : r[x] = IF x < i THEN s[x] ELSE s[x + 1]
  <2>1. /\ Len(r) = Len(a) + Len(b)
        /\ \A x \in 1..(Len(a) + Len(b)) : r[x] = IF x <= Len(a) THEN a[x] ELSE b[x - Len(a)]
    BY <1>2, <1>3, <1>4, ConcatProperties
  <2>2. Len(r) = Len(s) - 1
    BY <1>1, <1>2, <1>3, <2>1
  <2>3. ASSUME NEW x \in 1..Len(r) PROVE r[x] = IF x < i THEN s[x] ELSE s[x + 1]
    <3>1. CASE x < i
      BY <1>1, <1>2, <1>3, <2>1, <2>2, <3>1
    <3>2. CASE ~(x < i)
      <4>1. r[x] = b[x - (i - 1)] /\ x - (i - 1) \in 1..(Len(s) - i)
        BY <1>1, <1>2, <1>3, <2>1, <2>2, <3>2
      <4>2. b[x - (i - 1)] = s[(x - (i - 1)) + i]
        BY <1>3, <4>1
      <4>3. (x - (i - 1)) + i = x + 1
        BY <1>1, <2>2
      <4> QED BY <3>2, <4>1, <4>2, <4>3
    <3> QED BY <3>1, <3>2
  <2> QED BY <2>2, <2>3
<1>6. HeldOnce(s, k) => HeldOnce(r, k)
  <2> SUFFICES ASSUME HeldOnce(s, k),
                      NEW x \in 1..Len(r), NEW y \in 1..Len(r), r[x] = k, r[y] = k
               PROVE  x = y
    BY DEF HeldOnce
  <2> DEFINE u == IF x < i THEN x ELSE x + 1
             v == IF y < i THEN y ELSE y + 1
  <2>1. u \in 1..Len(s) /\ v \in 1..Len(s) /\ s[u] = k /\ s[v] = k
    BY <1>1, <1>5
  <2>2. u = v
    BY <2>1 DEF HeldOnce
  <2> QED BY <1>1, <1>5, <2>2
<1>7. Absent(s, k) => Absent(r, k)
  <2> SUFFICES ASSUME Absent(s, k), NEW x \in 1..Len(r) PROVE r[x] # k
    BY DEF Absent
  <2>1. x \in 1..Len(s) /\ x + 1 \in 1..Len(s)
    BY <1>1, <1>5
  <2> QED BY <1>5, <2>1 DEF Absent
<1>8. HeldOnce(s, k) /\ s[i] = k => Absent(r, k)
  <2> SUFFICES ASSUME HeldOnce(s, k), s[i] = k, NEW x \in 1..Len(r), r[x] = k PROVE FALSE
    BY DEF Absent
  <2> DEFINE u == IF x < i THEN x ELSE x + 1
  <2>1. u \in 1..Len(s) /\ s[u] = k /\ u # i
    BY <1>1, <1>5
  <2> QED BY <2>1 DEF HeldOnce
<1> QED BY <1>6, <1>7, <1>8 DEF r

-----------------------------------------------------------------------------
\* The facts about types that the steps below need.
Facts ==
    /\ job \in [Jobs -> JobFields]
    /\ heap \in [Jobs -> Nat]
    /\ delayed \in [Jobs -> Nat]
    /\ dlq \in [Jobs -> Nat]
    /\ active \in [Slots -> Jobs \cup {NoJob}]
    /\ failed \in [Queues -> Seq(Jobs)]
    /\ requeues \in [Jobs -> [Routes -> Nat]]

LEMMA ShapeFacts ==
    Shape => Facts /\ NoJob \notin Jobs /\ QueueOf \in [Jobs -> Queues]
                   /\ MaxKept \in Nat /\ MaxAttempts \in [Jobs -> Nat]
BY JobQueueAssumption DEF Shape, QueueTypeOK, Facts

(* A step that leaves k's own fields and references alone, and its place   *)
(* in the buffer, leaves k's life as it is.                                *)
LEMMA Untouched ==
    ASSUME NEW k \in Jobs, NEW n \in Nat, OneLife(k, n),
           job'[k] = job[k], heap'[k] = heap[k], delayed'[k] = delayed[k],
           ActiveSlots(k)' = ActiveSlots(k), dlq'[k] = dlq[k], requeues'[k] = requeues[k],
           HeldOnce(failed[QueueOf[k]], k) => HeldOnce(failed'[QueueOf[k]], k),
           Absent(failed[QueueOf[k]], k) => Absent(failed'[QueueOf[k]], k)
    PROVE  OneLife(k, n)'
BY DEF OneLife, Placed, Retryable, Paced, MostAttempts

\* Of a step that ends an active entry of j, what the others see.
LEMMA RemovalOf ==
    ASSUME Facts, NoJob \notin Jobs, NEW j \in Jobs, RemoveFromActive(j), NEW k \in Jobs
    PROVE  /\ k # j => ActiveSlots(k)' = ActiveSlots(k)
           /\ \A s \in Slots : ActiveSlots(j) = {s} => ActiveSlots(j)' = {}
           /\ ActiveSlots(j) # {}
<1>1. PICK s \in Slots : active[s] = j /\ active' = [active EXCEPT ![s] = NoJob]
  BY DEF RemoveFromActive, IsFirstEntry
<1> QED BY <1>1 DEF ActiveSlots, Facts

\* fail() of j, for every job k.
LEMMA FailBodyLife ==
    ASSUME Shape, NEW j \in Jobs, FailBody(j), NEW k \in Jobs, NEW n \in Nat, OneLife(k, n)
    PROVE  OneLife(k, n)'
<1>a. /\ Facts /\ NoJob \notin Jobs /\ QueueOf \in [Jobs -> Queues]
      /\ MaxKept \in Nat /\ MaxAttempts \in [Jobs -> Nat]
  BY ShapeFacts
<1>b. /\ k # j => ActiveSlots(k)' = ActiveSlots(k)
      /\ \A s \in Slots : ActiveSlots(j) = {s} => ActiveSlots(j)' = {}
      /\ ActiveSlots(j) # {}
  BY <1>a, RemovalOf DEF FailBody
<1>c. heap' = heap /\ requeues' = requeues
  BY DEF FailBody
<1>d. failed[QueueOf[j]] \in Seq(Jobs)
  BY <1>a DEF Facts
<1>1. CASE k # j
  <2>1. job'[k] = job[k] /\ delayed'[k] = delayed[k] /\ dlq'[k] = dlq[k]
    BY <1>a, <1>1 DEF FailBody, RetryLater, Exhaust, Facts
  <2>2. /\ HeldOnce(failed[QueueOf[k]], k) => HeldOnce(failed'[QueueOf[k]], k)
        /\ Absent(failed[QueueOf[k]], k) => Absent(failed'[QueueOf[k]], k)
    <3>1. CASE failed' = failed
      BY <3>1
    <3>2. CASE failed' = [failed EXCEPT ![QueueOf[j]] = KeepLast(Append(@, j), MaxKept)]
      <4>1. CASE QueueOf[k] = QueueOf[j]
        <5>1. failed'[QueueOf[k]] = KeepLast(Append(failed[QueueOf[j]], j), MaxKept)
          BY <1>a, <3>2, <4>1 DEF Facts
        <5> QED BY <1>1, <1>a, <1>d, <4>1, <5>1, BufferedOnce
      <4>2. CASE QueueOf[k] # QueueOf[j]
        <5>1. failed'[QueueOf[k]] = failed[QueueOf[k]]
          BY <1>a, <3>2, <4>2 DEF Facts
        <5> QED BY <5>1
      <4> QED BY <4>1, <4>2
    <3> QED BY <3>1, <3>2 DEF FailBody, RetryLater, Exhaust
  <2> QED BY <1>1, <1>b, <1>c, <2>1, <2>2, Untouched
<1>2. CASE k = j /\ RetryLater(j)
  <2>1. job[j].status = "active" /\ ActiveSlots(j)' = {} /\ heap[j] = 0 /\ delayed[j] = 0
    BY <1>2, <1>b DEF OneLife, Placed
  <2>2. /\ job'[j].status = "delayed" /\ job'[j].attempts = job[j].attempts
        /\ job[j].attempts < MaxAttempts[j]
        /\ delayed'[j] = 1 /\ dlq' = dlq /\ failed' = failed
    BY <1>2, <1>a, <2>1 DEF RetryLater, Facts, JobFields
  <2>3. Placed(j)'
    BY <1>c, <2>1, <2>2 DEF Placed
  <2>4. Retryable(j)'
    BY <1>2, <1>c, <2>1, <2>2 DEF OneLife, Retryable
  <2>5. Paced(j, n)'
    <3>1. job[j].attempts \in Nat /\ MaxAttempts[j] \in Nat
      BY <1>a DEF Facts, JobFields
    <3> QED BY <2>2, <3>1 DEF Paced, MostAttempts
  <2> QED BY <1>2, <2>3, <2>4, <2>5 DEF OneLife
<1>3. CASE k = j /\ Exhaust(j)
  <2>1. job[j].status = "active" /\ ActiveSlots(j)' = {} /\ heap[j] = 0 /\ delayed[j] = 0
    BY <1>3, <1>b DEF OneLife, Placed
  <2>2. /\ job'[j].status = "failed" /\ job'[j].attempts = job[j].attempts
        /\ job'[j].due = job[j].due
        /\ delayed' = delayed
        /\ failed'[QueueOf[j]] = KeepLast(Append(failed[QueueOf[j]], j), MaxKept)
        /\ dlq'[j] \in {dlq[j], dlq[j] + 1}
    BY <1>3, <1>a, <2>1 DEF Exhaust, Facts, JobFields
  <2>3. Placed(j)'
    BY <1>c, <2>1, <2>2 DEF Placed
  <2>4. Retryable(j)'
    <3>1. Absent(failed[QueueOf[j]], j) =>
            HeldOnce(KeepLast(Append(failed[QueueOf[j]], j), MaxKept), j)
      BY <1>a, <1>d, BufferedOnce
    <3>2. requeues[j]["dlq"] = 0 => HeldOnce(failed'[QueueOf[j]], j)
      BY <1>3, <2>1, <2>2, <3>1 DEF OneLife, Retryable
    <3>3. requeues[j]["failed"] = 0 => dlq'[j] <= 1
      BY <1>3, <2>1, <2>2 DEF OneLife, Retryable
    <3> QED BY <1>c, <2>2, <3>2, <3>3 DEF Retryable
  <2>5. Paced(j, n)'
    BY <1>3, <2>1, <2>2 DEF OneLife, Paced, MostAttempts
  <2> QED BY <1>3, <2>3, <2>4, <2>5 DEF OneLife
<1> QED BY <1>1, <1>2, <1>3 DEF FailBody

\* Every step keeps the life of every job that one route at most has re-queued.
LEMMA LifeStep ==
    ASSUME Shape, [NextQueue]_queueVars,
           NEW k \in Jobs, NEW n \in Nat, OneLife(k, n), OneRoute(k)'
    PROVE  OneLife(k, n)'
<1>a. /\ Facts /\ NoJob \notin Jobs /\ QueueOf \in [Jobs -> Queues]
      /\ MaxKept \in Nat /\ MaxAttempts \in [Jobs -> Nat]
  BY ShapeFacts
<1>b. /\ job[k] \in JobFields /\ job[k].attempts \in Nat /\ MaxAttempts[k] \in Nat
      /\ failed[QueueOf[k]] \in Seq(Jobs) /\ QueueOf[k] \in Queues
  BY <1>a DEF Facts, JobFields
<1>1. ASSUME NEW j \in Jobs, NEW d \in BOOLEAN, Add(j, d) PROVE OneLife(k, n)'
  <2>1. UNCHANGED <<active, failed, dlq, requeues>>
    BY <1>1 DEF Add
  <2>2. CASE k = j
    <3>1. job[k].status = "none" /\ heap[k] = 0 /\ delayed[k] = 0 /\ ActiveSlots(k) = {}
      BY <1>1, <2>2 DEF Add, Created, OneLife, Placed
    <3>2. /\ job'[k].status = IF d THEN "delayed" ELSE "waiting"
          /\ job'[k].attempts = 0 /\ (~d => job'[k].due)
      <4>1. PICK t : job' = [job EXCEPT ![j] =
                       [NewJob EXCEPT !.status = IF d THEN "delayed" ELSE "waiting",
                                      !.due = ~d, !.born = t]]
        BY <1>1 DEF Add
      <4>2. job'[k] = [NewJob EXCEPT !.status = IF d THEN "delayed" ELSE "waiting",
                                     !.due = ~d, !.born = t]
        BY <1>a, <2>2, <4>1 DEF Facts
      <4>3. CASE d = TRUE
        BY <4>2, <4>3 DEF NewJob
      <4>4. CASE d = FALSE
        BY <4>2, <4>4 DEF NewJob
      <4> QED BY <4>3, <4>4
    <3>3. /\ heap'[k] = IF d THEN 0 ELSE 1
          /\ delayed'[k] = IF d THEN 1 ELSE 0
      BY <1>a, <1>1, <2>2, <3>1 DEF Add, Facts
    <3>4. ActiveSlots(k)' = {}
      BY <2>1, <3>1 DEF ActiveSlots
    <3>5. Placed(k)'
      BY <3>2, <3>3, <3>4 DEF Placed
    <3>6. Retryable(k)'
      BY <2>1, <3>1 DEF OneLife, Retryable
    <3>7. Paced(k, n)'
      BY <1>b, <3>2 DEF Paced, MostAttempts
    <3> QED BY <3>5, <3>6, <3>7 DEF OneLife
  <2>3. CASE k # j
    <3>1. job'[k] = job[k] /\ heap'[k] = heap[k] /\ delayed'[k] = delayed[k]
      BY <1>a, <1>1, <2>3 DEF Add, Facts
    <3>2. ActiveSlots(k)' = ActiveSlots(k)
      BY <2>1 DEF ActiveSlots
    <3> QED BY <2>1, <3>1, <3>2, Untouched
  <2> QED BY <2>2, <2>3
<1>2. ASSUME NEW j \in Jobs, Claim(j) PROVE OneLife(k, n)'
  <2>1. PICK s \in Slots : active[s] = NoJob /\ active' = [active EXCEPT ![s] = j]
    BY <1>2 DEF Claim
  <2>2. UNCHANGED <<delayed, failed, dlq, requeues>>
    BY <1>2 DEF Claim
  <2>3. CASE k = j
    <3>1. /\ job[k].status = "waiting" /\ heap[k] = 1 /\ delayed[k] = 0
          /\ ActiveSlots(k) = {}
      BY <1>2, <2>3 DEF Claim, Poppable, OneLife, Placed
    <3>2. /\ job'[k].status = "active" /\ job'[k].attempts = job[k].attempts + 1
          /\ job'[k].due = job[k].due /\ heap'[k] = 0
      BY <1>a, <1>2, <2>3, <3>1 DEF Claim, Facts, JobFields
    <3>3. ActiveSlots(k)' = {s}
      BY <1>a, <2>1, <2>3, <3>1 DEF ActiveSlots, Facts
    <3>4. Placed(k)'
      BY <2>2, <3>1, <3>2, <3>3 DEF Placed
    <3>5. Retryable(k)'
      BY <2>2, <3>1, <3>2 DEF OneLife, Retryable
    <3>6. Paced(k, n)'
      BY <1>b, <3>1, <3>2 DEF OneLife, Paced, MostAttempts
    <3> QED BY <3>4, <3>5, <3>6 DEF OneLife
  <2>4. CASE k # j
    <3>1. job'[k] = job[k] /\ heap'[k] = heap[k]
      BY <1>a, <1>2, <2>4 DEF Claim, Facts
    <3>2. ActiveSlots(k)' = ActiveSlots(k)
      BY <1>a, <2>1, <2>4 DEF ActiveSlots, Facts
    <3> QED BY <2>2, <3>1, <3>2, Untouched
  <2> QED BY <2>3, <2>4
<1>3. ASSUME NEW j \in Jobs, Complete(j) PROVE OneLife(k, n)'
  <2>1. /\ k # j => ActiveSlots(k)' = ActiveSlots(k)
        /\ \A s \in Slots : ActiveSlots(j) = {s} => ActiveSlots(j)' = {}
        /\ ActiveSlots(j) # {}
    BY <1>a, <1>3, RemovalOf DEF Complete
  <2>2. UNCHANGED <<heap, delayed, failed, dlq, requeues>>
    BY <1>3 DEF Complete
  <2>3. CASE k = j
    <3>1. /\ job[k].status = "active" /\ ActiveSlots(k)' = {}
          /\ heap[k] = 0 /\ delayed[k] = 0
      BY <2>1, <2>3 DEF OneLife, Placed
    <3>2. /\ job'[k].status = "completed" /\ job'[k].attempts = job[k].attempts
          /\ job'[k].due = job[k].due
      BY <1>a, <1>3, <2>3 DEF Complete, Facts, JobFields
    <3>3. Placed(k)'
      BY <2>2, <3>1, <3>2 DEF Placed
    <3>4. Retryable(k)'
      BY <2>2, <3>1, <3>2 DEF OneLife, Retryable
    <3>5. Paced(k, n)'
      BY <3>1, <3>2 DEF OneLife, Paced, MostAttempts
    <3> QED BY <3>3, <3>4, <3>5 DEF OneLife
  <2>4. CASE k # j
    <3>1. job'[k] = job[k]
      BY <1>a, <1>3, <2>4 DEF Complete, Facts
    <3> QED BY <2>1, <2>2, <2>4, <3>1, Untouched
  <2> QED BY <2>3, <2>4
<1>4. ASSUME NEW j \in Jobs, Fail(j) PROVE OneLife(k, n)'
  BY <1>4, FailBodyLife DEF Fail
<1>5. ASSUME ReaperVisits PROVE OneLife(k, n)'
  <2>1. PICK s \in reaping : FailBody(active[s])
    BY <1>5 DEF ReaperVisits
  <2>2. active[s] \in Jobs
    BY <2>1 DEF Shape, ReapingOccupied
  <2> QED BY <2>1, <2>2, FailBodyLife
<1>6. ASSUME NEW j \in Jobs, Heartbeat(j) \/ HeartbeatAges(j) \/ RunAtPasses(j)
      PROVE  OneLife(k, n)'
  <2>1. /\ job'[k].status = job[k].status
        /\ job'[k].attempts = job[k].attempts
        /\ job[k].due => job'[k].due
    <3>1. CASE job' = [job EXCEPT ![j].due = TRUE]
      BY <1>a, <1>b, <3>1 DEF JobFields, Facts
    <3>2. CASE \E h \in Heartbeats : job' = [job EXCEPT ![j].hb = h]
      BY <1>a, <1>b, <3>2 DEF JobFields, Facts
    <3> QED
      BY <1>6, <3>1, <3>2 DEF Heartbeat, HeartbeatAges, RunAtPasses, Heartbeats
  <2>2. UNCHANGED <<heap, delayed, active, failed, dlq, requeues>>
    BY <1>6 DEF Heartbeat, HeartbeatAges, RunAtPasses
  <2>3. ActiveSlots(k)' = ActiveSlots(k)
    BY <2>2 DEF ActiveSlots
  <2>4. Placed(k)'
    BY <2>1, <2>2, <2>3 DEF OneLife, Placed
  <2>5. Retryable(k)'
    BY <2>1, <2>2 DEF OneLife, Retryable
  <2>6. Paced(k, n)'
    BY <2>1 DEF OneLife, Paced, MostAttempts
  <2> QED BY <2>4, <2>5, <2>6 DEF OneLife
<1>7. ASSUME PromoteDelayed PROVE OneLife(k, n)'
  <2>1. UNCHANGED <<active, failed, dlq, requeues>>
    BY <1>7 DEF PromoteDelayed
  <2>2. ActiveSlots(k)' = ActiveSlots(k)
    BY <2>1 DEF ActiveSlots
  <2>3. CASE k \in Ready
    <3>1. /\ job[k].status = "delayed" /\ delayed[k] = 1 /\ heap[k] = 0
          /\ ActiveSlots(k) = {} /\ job[k].due
      BY <2>3 DEF Ready, OneLife, Placed
    <3>2. /\ job'[k].status = "waiting" /\ job'[k].attempts = job[k].attempts
          /\ job'[k].due = job[k].due /\ heap'[k] = 1 /\ delayed'[k] = 0
      <4>1. job'[k] = [job[k] EXCEPT !.status = "waiting"]
        BY <1>7, <2>3 DEF PromoteDelayed
      <4>2. heap'[k] = 1 /\ delayed'[k] = 0
        BY <1>7, <2>3, <3>1 DEF PromoteDelayed
      <4> QED BY <1>b, <4>1, <4>2 DEF JobFields
    <3>3. Placed(k)'
      BY <2>2, <3>1, <3>2 DEF Placed
    <3>4. Retryable(k)'
      BY <2>1, <3>1, <3>2 DEF OneLife, Retryable
    <3>5. Paced(k, n)'
      BY <3>1, <3>2 DEF OneLife, Paced, MostAttempts
    <3> QED BY <3>3, <3>4, <3>5 DEF OneLife
  <2>4. CASE k \notin Ready
    <3>1. job'[k] = job[k] /\ heap'[k] = heap[k] /\ delayed'[k] = delayed[k]
      BY <1>7, <2>4 DEF PromoteDelayed
    <3> QED BY <2>1, <2>2, <3>1, Untouched
  <2> QED BY <2>3, <2>4
<1>8. ASSUME NEW j \in Jobs, RetryJob(j) PROVE OneLife(k, n)'
  <2>1. UNCHANGED <<active, dlq, delayed>>
    BY <1>8 DEF RetryJob
  <2>2. ActiveSlots(k)' = ActiveSlots(k)
    BY <2>1 DEF ActiveSlots
  <2>3. PICK i \in DOMAIN failed[QueueOf[j]] :
          /\ failed[QueueOf[j]][i] = j
          /\ failed' = [failed EXCEPT ![QueueOf[j]] = RemoveAt(@, i)]
    BY <1>8 DEF RetryJob
  <2>4. failed[QueueOf[j]] \in Seq(Jobs) /\ QueueOf[j] \in Queues
    BY <1>a DEF Facts
  <2>5. i \in 1..Len(failed[QueueOf[j]])
    BY <2>3, <2>4, LenProperties
  <2>6. failed'[QueueOf[j]] = RemoveAt(failed[QueueOf[j]], i)
    BY <1>a, <2>3, <2>4 DEF Facts
  <2>7. CASE k = j
    <3>1. requeues'[k]["failed"] > 0 /\ requeues'[k]["dlq"] = requeues[k]["dlq"]
      BY <1>a, <1>8, <2>7 DEF RetryJob, Facts, Routes
    <3>2. requeues[k]["dlq"] = 0
      BY <3>1 DEF OneRoute
    <3>3. HeldOnce(failed[QueueOf[k]], k) /\ ~Absent(failed[QueueOf[k]], k)
      BY <2>3, <2>5, <2>7, <3>2 DEF OneLife, Retryable, Absent
    <3>4. job[k].status = "failed" /\ heap[k] = 0 /\ delayed[k] = 0 /\ ActiveSlots(k) = {}
      BY <3>2, <3>3 DEF OneLife, Retryable, Placed
    <3>5. /\ job'[k].status = "waiting" /\ job'[k].attempts = 0
          /\ job'[k].due = job[k].due /\ heap'[k] = 1
      BY <1>a, <1>8, <2>7, <3>4 DEF RetryJob, Requeued, Facts, JobFields
    <3>6. Absent(failed'[QueueOf[k]], k) /\ HeldOnce(failed'[QueueOf[k]], k)
      BY <2>3, <2>4, <2>5, <2>6, <2>7, <3>3, TakenOut
    <3>7. Placed(k)'
      BY <2>1, <2>2, <3>4, <3>5 DEF Placed
    <3>8. Retryable(k)'
      BY <3>1, <3>6 DEF Retryable
    <3>9. Paced(k, n)'
      BY <1>b, <3>4, <3>5 DEF OneLife, Paced, MostAttempts
    <3> QED BY <3>7, <3>8, <3>9 DEF OneLife
  <2>8. CASE k # j
    <3>1. job'[k] = job[k] /\ heap'[k] = heap[k] /\ requeues'[k] = requeues[k]
      BY <1>a, <1>8, <2>8 DEF RetryJob, Facts
    <3>2. /\ HeldOnce(failed[QueueOf[k]], k) => HeldOnce(failed'[QueueOf[k]], k)
          /\ Absent(failed[QueueOf[k]], k) => Absent(failed'[QueueOf[k]], k)
      <4>1. CASE QueueOf[k] = QueueOf[j]
        BY <2>4, <2>5, <2>6, <4>1, TakenOut
      <4>2. CASE QueueOf[k] # QueueOf[j]
        <5>1. failed'[QueueOf[k]] = failed[QueueOf[k]]
          BY <1>a, <2>3, <4>2 DEF Facts
        <5> QED BY <5>1
      <4> QED BY <4>1, <4>2
    <3> QED BY <2>1, <2>2, <3>1, <3>2, Untouched
  <2> QED BY <2>7, <2>8
<1>9. ASSUME NEW q \in Queues, RetryDLQ(q) PROVE OneLife(k, n)'
  <2>1. UNCHANGED <<active, delayed, failed>>
    BY <1>9 DEF RetryDLQ
  <2>2. ActiveSlots(k)' = ActiveSlots(k)
    BY <2>1 DEF ActiveSlots
  <2>3. CASE k \in DeadLetters(q)
    <3>1. requeues'[k]["dlq"] > 0 /\ requeues'[k]["failed"] = requeues[k]["failed"]
      BY <1>a, <1>9, <2>3 DEF RetryDLQ, Facts, Routes
    <3>2. requeues[k]["failed"] = 0
      BY <3>1 DEF OneRoute
    <3>3. /\ dlq[k] = 1 /\ job[k].status = "failed"
          /\ heap[k] = 0 /\ delayed[k] = 0 /\ ActiveSlots(k) = {}
      BY <1>a, <2>3, <3>2 DEF DeadLetters, OneLife, Retryable, Placed, Facts
    <3>4. /\ job'[k].status = "waiting" /\ job'[k].attempts = 0
          /\ job'[k].due = job[k].due /\ heap'[k] = 1 /\ dlq'[k] = 0
      <4>1. job'[k] = [job[k] EXCEPT !.status = "waiting", !.attempts = 0]
        BY <1>9, <2>3 DEF RetryDLQ, Requeued
      <4>2. heap'[k] = 1 /\ dlq'[k] = 0
        BY <1>9, <2>3, <3>3 DEF RetryDLQ
      <4> QED BY <1>b, <4>1, <4>2 DEF JobFields
    <3>5. Placed(k)'
      BY <2>1, <2>2, <3>3, <3>4 DEF Placed
    <3>6. Retryable(k)'
      BY <3>1, <3>4 DEF Retryable
    <3>7. Paced(k, n)'
      BY <1>b, <3>3, <3>4 DEF OneLife, Paced, MostAttempts
    <3> QED BY <3>5, <3>6, <3>7 DEF OneLife
  <2>4. CASE k \notin DeadLetters(q)
    <3>1. /\ job'[k] = job[k] /\ heap'[k] = heap[k] /\ dlq'[k] = dlq[k]
          /\ requeues'[k] = requeues[k]
      BY <1>9, <2>4 DEF RetryDLQ
    <3> QED BY <2>1, <2>2, <3>1, Untouched
  <2> QED BY <2>3, <2>4
<1>10. ASSUME UNCHANGED <<job, heap, delayed, active, failed, dlq, requeues>>
       PROVE  OneLife(k, n)'
  <2>1. ActiveSlots(k)' = ActiveSlots(k)
    BY <1>10 DEF ActiveSlots
  <2> QED BY <1>10, <2>1, Untouched
<1> QED
  BY <1>1, <1>2, <1>3, <1>4, <1>5, <1>6, <1>7, <1>8, <1>9, <1>10
  DEF NextQueue, ReaperFires, ClearCompleted, queueVars

\* The routes already used stay used.
LEMMA RoutesStay ==
    ASSUME Shape, [NextQueue]_queueVars, NEW k \in Jobs, OneRoute(k)'
    PROVE  OneRoute(k)
<1>1. \A r \in Routes : requeues[k][r] \in Nat /\ requeues[k][r] <= requeues'[k][r]
  <2>a. Facts
    BY ShapeFacts
  <2>1. ASSUME NEW j \in Jobs, RetryJob(j) PROVE <1>1
    BY <2>a, <2>1 DEF RetryJob, Facts, Routes
  <2>2. ASSUME NEW q \in Queues, RetryDLQ(q) PROVE <1>1
    BY <2>a, <2>2 DEF RetryDLQ, Facts, Routes
  <2>3. ASSUME requeues' = requeues PROVE <1>1
    BY <2>a, <2>3 DEF Facts
  <2> QED
    BY <2>1, <2>2, <2>3
    DEF NextQueue, Add, Claim, Complete, Fail, FailBody, Heartbeat, HeartbeatAges,
        RunAtPasses, ClearCompleted, PromoteDelayed, ReaperFires, ReaperVisits, queueVars
<1> QED BY <1>1 DEF OneRoute, Routes

LEMMA LifeInit == InitQueue => LifeInv
<1> SUFFICES ASSUME InitQueue, NEW j \in Jobs PROVE OneLife(j, 0)
  BY DEF LifeInv
<1>1. job[j] = NewJob /\ heap[j] = 0 /\ delayed[j] = 0 /\ dlq[j] = 0
  BY DEF InitQueue
<1>2. failed[QueueOf[j]] = <<>> /\ MaxAttempts[j] \in Nat
  BY JobQueueAssumption DEF InitQueue
<1>3. ActiveSlots(j) = {}
  BY JobQueueAssumption DEF InitQueue, ActiveSlots
<1>4. Placed(j)
  BY <1>1, <1>3 DEF Placed, NewJob
<1>5. Retryable(j)
  BY <1>1, <1>2 DEF Retryable, HeldOnce, Absent
<1>6. Paced(j, 0)
  BY <1>1, <1>2 DEF Paced, MostAttempts, NewJob
<1> QED BY <1>4, <1>5, <1>6 DEF OneLife

LEMMA LifeHolds == QueueSpec => []LifeInv
<1>1. Shape /\ LifeInv /\ [NextQueue]_queueVars => LifeInv'
  BY LifeStep, RoutesStay DEF LifeInv
<1> QED BY <1>1, LifeInit, ShapeHolds, PTL DEF QueueSpec

(* No job is handed out twice, for any jobs, slots and caps: one that an   *)
(* operator re-queued by at most one of retryJob() and retryDLQ() is in    *)
(* exactly the one live place its status names.                            *)
THEOREM OnePlaceHolds == QueueSpec => []OnePlace
<1>1. LifeInv => OnePlace
  <2> SUFFICES ASSUME LifeInv, NEW j \in Jobs, OneRoute(j)
               PROVE  /\ Placed(j)
                      /\ Cardinality(ActiveSlots(j)) =
                           IF job[j].status = "active" THEN 1 ELSE 0
    BY DEF OnePlace, Placed
  <2>1. Placed(j)
    BY DEF LifeInv, OneLife
  <2>2. CASE job[j].status = "active"
    BY <2>1, <2>2, FS_Singleton DEF Placed
  <2>3. CASE job[j].status # "active"
    BY <2>1, <2>3, FS_EmptySet DEF Placed
  <2> QED BY <2>1, <2>2, <2>3
<1> QED BY <1>1, LifeHolds, PTL

(* Such a job is executed at most maxAttempts times (once when that is 0)  *)
(* between two manual re-queues, and never before its runAt.               *)
THEOREM AttemptsAndRunAtHolds == QueueSpec => []AttemptsAndRunAt
<1>1. Shape /\ LifeInv => AttemptsAndRunAt
  <2> SUFFICES ASSUME Shape, LifeInv, NEW j \in Jobs, OneRoute(j)
               PROVE  /\ job[j].attempts <= MostAttempts(j)
                      /\ job[j].status \in {"waiting", "active"} => job[j].due
    BY DEF AttemptsAndRunAt, MostAttempts
  <2>1. Paced(j, 0)
    BY DEF LifeInv, OneLife
  <2>2. MostAttempts(j) \in Nat
    BY ShapeFacts DEF MostAttempts
  <2> QED BY <2>1, <2>2 DEF Paced
<1> QED BY <1>1, ShapeHolds, LifeHolds, PTL
=============================================================================
