SPECIFICATION Spec
CONSTANTS
    k1 = k1
    k2 = k2
    k3 = k3
    f1 = f1
    f2 = f2
    none = none
    nothing = nothing
    Keys = {k1, k2}
    Fields = {f1, f2}
    Collections <- MCCollections
    Additions <- MCAdditions
    Caps = {3}
    Policies = {"noeviction", "allkeys-lru", "volatile-lru"}
    Header = 1
    MaxText = 2
    EntryCost = 1
    None = none
    NoObject = nothing
CONSTRAINT Whole
SYMMETRY Symmetry
CHECK_DEADLOCK FALSE
INVARIANT BytesExact
INVARIANT OneOwner
INVARIANT Evictable
