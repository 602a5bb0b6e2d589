--------------------------- MODULE MCDurableQueue ---------------------------
(* One job, retried once before it is exhausted, re-queued once by hand    *)
(* and sending one heartbeat per life: what its log entries, the table and *)
(* a restart do to each other is per job, and WalClients mixes the entries *)
(* of two.  Two entries fill the buffer, a fourth is rejected at its cap.  *)
(* A retry leaks a slot, and two leaks end the tenant until the restart.   *)
EXTENDS DurableQueue

CONSTANTS j1, q1, t1, none

MCJobs == {j1}
MCQueues == {q1}
MCTenants == {t1}
MCQueueOf == [j \in MCJobs |-> q1]
MCTenantOf == [j \in MCJobs |-> t1]
MCPriority == [j \in MCJobs |-> 5]
MCMaxAttempts == [j \in MCJobs |-> 2]
MCMaxRequeues == [j \in MCJobs |-> 1]
MCSlots == 1..1
MCMayDelay == {}
MCBeating == [j \in MCJobs |-> {"none"}]
=============================================================================
