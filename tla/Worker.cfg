SPECIFICATION FairSpec
CONSTANTS
    j1 = j1
    w1 = w1
    w2 = w2
    q1 = q1
    t1 = t1
    none = none
    Jobs <- MCJobs
    Queues <- MCQueues
    Tenants <- MCTenants
    QueueOf <- MCQueueOf
    TenantOf <- MCTenantOf
    Priority <- MCPriority
    MaxAttempts <- MCMaxAttempts
    MaxParallel = 3
    DlqEnabled = TRUE
    MaxKept = 1
    Slots <- MCSlots
    MaxRequeues <- MCMaxRequeues
    MayDelay = {}
    Beating <- MCBeating
    NoJob = none
    Workers <- MCWorkers
    Dual <- MCDual
    MaxConcurrent = 1
    Loops <- MCLoops
    MaxStops <- MCMaxStops
    MaxFaults <- MCMaxFaults
    NoLoop = none
INVARIANT HandlerOwnsJob
INVARIANT PollsWhileRunning
PROPERTY HandlerKeepsBeating
PROPERTY StoppedWorkerRests
