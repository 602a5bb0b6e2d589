SPECIFICATION Spec
CONSTANTS
    ApiKeys = {"ext", "int", "old", "odd", ""}
    Tenants = {"t1", "t2", ""}
    Lane <- MCLane
    InternalKeys = {"int"}
    Owner <- MCOwner
    r1 = r1
    r2 = r2
    f1 = f1
    f2 = f2
    Requests = {r1, r2}
    CacheTtl = 2
    MaxTime = 3
    LimitKeys = {"k1"}
    Limit = 2
    Window = 2
    MaxTick = 6
    MaxCalls = 3
    MaxImports = 1
    Counters = {"c1", "c2"}
    Flushes = {f1, f2}
    MaxEvents = 2
    Members = {1, 2, 3}
    Scores = {1, 2, 3}
    Deltas = {1}
    MaxLevel = 3
    Priorities = {1, 2}
    MaxQueued = 5
    MaxSeq = 5
INVARIANT RevocationTakesEffect
INVARIANT TenantMatches
INVARIANT CountedOnce
INVARIANT WindowBounded
INVARIANT RangesExact
INVARIANT ServedInOrder
SYMMETRY Symmetry
