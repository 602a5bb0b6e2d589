SPECIFICATION SessionSpec
CONSTANTS
    r1 = r1
    b1 = b1
    s1 = s1
    Single = {r1}
    Batch = {b1}
    Stream = {s1}
    MaxDrops = 2
INVARIANT WaitingTracked
INVARIANT AtMostOnce
PROPERTY EveryRequestEnds
CHECK_DEADLOCK FALSE
