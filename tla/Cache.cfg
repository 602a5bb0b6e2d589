SPECIFICATION Spec
CONSTANTS
    k1 = k1
    k2 = k2
    t1 = t1
    none = none
    Keys = {k1, k2}
    Tags = {t1}
    MaxFetches = 2
    Patterns <- MCPatterns
    LoadOptions <- MCLoads
    WriteOptions <- MCWrites
    Size <- MCSize
    MaxVersion = 1
    MaxSaves = 1
    MaxSize = 4
    MaxEntries = 2
    Strategy = "LRU"
    None = none
INVARIANT SizeExact
INVARIANT SingleFlight
INVARIANT InvalidationHolds
CONSTRAINT Snapshots
SYMMETRY Symmetry
