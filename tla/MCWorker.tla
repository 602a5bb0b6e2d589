------------------------------ MODULE MCWorker ------------------------------
EXTENDS Worker

CONSTANTS j1, w1, w2, q1, t1, none

MCJobs == {j1}
MCQueues == {q1}
MCTenants == {t1}
MCQueueOf == [j \in MCJobs |-> q1]
MCTenantOf == [j \in MCJobs |-> t1]
MCPriority == [j \in MCJobs |-> 5]
MCMaxAttempts == [j \in MCJobs |-> 2]
MCMaxRequeues == [j \in MCJobs |-> 0]
MCSlots == 1..1
MCBeating == [j \in MCJobs |-> {"none"}]
MCWorkers == {w1, w2}
MCDual == {w1}
MCLoops == 1..2
MCMaxFaults == [w \in MCWorkers |-> IF w = w1 THEN 1 ELSE 0]
MCMaxStops == [w \in MCWorkers |-> IF w = w1 THEN 1 ELSE 0]
=============================================================================
