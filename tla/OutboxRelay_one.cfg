\* One worker; event 2 cannot be decoded; failures and restarts at every point.
SPECIFICATION FairSpec
CONSTANTS
    Workers = {"w1"}
    Events = {1, 2, 3}
    SharedLock <- MCSharedLock
    Undecodable = {2}
    BatchSize = 2
INVARIANTS
    TypeOK
PROPERTIES
    PublishedIsFinal
    EveryEventPublished
CHECK_DEADLOCK FALSE
