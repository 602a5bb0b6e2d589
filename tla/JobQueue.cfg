SPECIFICATION FairQueueSpec
CONSTANTS
    j1 = j1
    j2 = j2
    j3 = j3

    t2 = t2
    q1 = q1
    t1 = t1
    none = none
    Jobs <- MCJobs
    Queues <- MCQueues
    Tenants <- MCTenants
    QueueOf <- MCQueueOf
    TenantOf <- MCTenantOf
    Priority <- MCPriority
    MaxAttempts <- MCMaxAttempts
    MaxParallel = 2
    DlqEnabled = TRUE
    MaxKept = 1
    Slots <- MCSlots
    MaxRequeues <- MCMaxRequeues
    MayDelay <- MCMayDelay
    Beating <- MCBeating
    NoJob = none
INVARIANT QueueTypeOK
INVARIANT TenantCap
INVARIANT NoJobLost
INVARIANT OnePlace
INVARIANT AttemptsAndRunAt
PROPERTY SilentClaimsEnd
CHECK_DEADLOCK FALSE
