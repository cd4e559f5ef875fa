SPECIFICATION FairSpec
CONSTANTS
    Addrs <- MCAddrs
    Initial <- MCInitial
    Contents <- MCContents
    Bursts <- MCBursts
    FailAddrs <- MCFailAddrs
    Requests <- MCRequests
    IdleAddrs <- MCIdleAddrs
    Sets = 2
    LineWords = 2
    Tags = {0, 1, 2}
    UncachedTags = {3}
    None = None
INVARIANTS TypeOK CacheOpsReachMemory ReadyWhenIdle PortInTurn ErrorIsOwn
PROPERTIES ImplementsFlat Answered
