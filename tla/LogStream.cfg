SPECIFICATION FairStreamSpec
CONSTANTS
    p1 = p1
    p2 = p2
    s1 = s1
    s2 = s2
    Producers <- MCProducers
    Subscribers <- MCSubscribers
    Capacity = 2
    ChanCap = 1
    MaxEntries = 3
    ReplayLimit = 1
INVARIANTS
    SnapshotIsLatest
    StreamKeepsProducerOrder
    NothingTwice
    GapOnlyAtJoin
PROPERTIES
    ImplementsBoundedLog
    ProducerNotBlocked
    HandlerUnsubscribes
CHECK_DEADLOCK FALSE
