SPECIFICATION Spec
CONSTANTS
    p1 = p1
    p2 = p2
    s1 = s1
    s2 = s2
    Producers <- MCProducers
    Subscribers <- MCSubscribers
    Capacity = 2
    ChanCap = 1
    MaxEntries = 2
SYMMETRY Symmetry
INVARIANT
    NoSendOnClosed
CHECK_DEADLOCK FALSE
