----------------------------- MODULE MCJobQueue -----------------------------
(* Three jobs in one queue and two slots.  j1 and j2 belong to one tenant  *)
(* whose cap of two is reached by the slots that retries leak, so that     *)
(* pop() skips them and hands out j3, of another tenant and of lower       *)
(* priority.  j1 may be added with a delay and sends heartbeats, it may be *)
(* retried once before it is exhausted, and an operator may re-queue it    *)
(* twice, by either route, and j2 once.  One entry is kept in the          *)
(* completed and failed buffers: both overflow.                            *)
EXTENDS JobQueue

CONSTANTS j1, j2, j3, q1, t1, t2, none

MCJobs == {j1, j2, j3}
MCQueues == {q1}
MCTenants == {t1, t2}
MCQueueOf == [j \in MCJobs |-> q1]
MCTenantOf == [j \in MCJobs |-> IF j = j3 THEN t2 ELSE t1]
MCPriority == [j \in MCJobs |-> IF j = j3 THEN 1 ELSE 5]
MCMaxAttempts == [j \in MCJobs |-> IF j = j1 THEN 2 ELSE 1]
MCMaxRequeues == [j \in MCJobs |-> IF j = j1 THEN 2 ELSE IF j = j2 THEN 1 ELSE 0]
MCSlots == 1..2
MCMayDelay == {j1}
MCBeating == [j \in MCJobs |-> IF j = j1 THEN {"none", "silent"} ELSE {}]
=============================================================================
