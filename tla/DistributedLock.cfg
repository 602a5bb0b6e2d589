SPECIFICATION FairSpec
CONSTANTS
    k1 = k1
    m1 = m1
    m2 = m2
    m3 = m3
    r1 = r1
    r2 = r2
    w1 = w1
    w2 = w2
    p1 = p1
    p2 = p2
    a1 = a1
    none = none
    Keys <- MCKeys
    Tokens <- MCTokens
    KeyOf <- MCKeyOf
    KindOf <- MCKindOf
    LimitOf <- MCLimitOf
    AutoRenewed <- MCAutoRenewed
    Casts <- MCCasts
    Waiters <- MCWaiters
    AwaitedBy <- MCAwaitedBy
    MaxRenewals = 1
    MaxRestarts = 1
    NoToken = none
INVARIANT Exclusion
INVARIANT ReleaseStopsRenewal
INVARIANT WakeupsReachWaiters
CHECK_DEADLOCK FALSE
PROPERTY AbandonedLockFreed
