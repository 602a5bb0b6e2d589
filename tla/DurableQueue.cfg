SPECIFICATION Spec
CONSTANTS
    j1 = j1
    q1 = q1
    t1 = t1
    none = none
    Jobs <- MCJobs
    Queues <- MCQueues
    Tenants <- MCTenants
    QueueOf <- MCQueueOf
    TenantOf <- MCTenantOf
    Priority <- MCPriority
    MaxAttempts <- MCMaxAttempts
    MaxParallel = 2
    DlqEnabled = TRUE
    MaxKept = 1
    Slots <- MCSlots
    MaxRequeues <- MCMaxRequeues
    MayDelay <- MCMayDelay
    Beating <- MCBeating
    NoJob = none
    MaxBufferSize = 2
    MaxBufferCap = 3
    MaxRetries = 1
    MaxRows = 2
    MaxFaults = 1
    MaxRestarts = 1
INVARIANT LogCaughtUp
INVARIANT NoResurrection
INVARIANT AttemptsAcrossRestarts
PROPERTY CrashKeepsUnfinished
CHECK_DEADLOCK FALSE
