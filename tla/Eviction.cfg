SPECIFICATION Spec
CONSTANTS
    k1 = k1
    k2 = k2
    k3 = k3
    f1 = f1
    f2 = f2
    none = none
    nothing = nothing
    Keys = {k1, k2, k3}
    Fields = {f1}
    Collections = {"hash"}
    Additions <- MCOne
    Caps = {2, 3}
    Policies = {"allkeys-lru", "volatile-lru"}
    Header = 1
    MaxText = 2
    EntryCost = 1
    None = none
    NoObject = nothing
CONSTRAINT Exact
SYMMETRY Symmetry
CHECK_DEADLOCK FALSE
PROPERTY CapKept
PROPERTY EvictionOrder
