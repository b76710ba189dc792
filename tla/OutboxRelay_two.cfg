\* Two processes of the service, and so two workers on one outbox.
SPECIFICATION Spec
CONSTANTS
    Workers = {"w1", "w2"}
    Events = {1, 2, 3, 4}
    SharedLock <- MCSharedLock
    Undecodable = {3}
    BatchSize = 2
INVARIANTS
    AtLeastOnce
    SkippedOnlyAfterFailure
CHECK_DEADLOCK FALSE
