\* Movements, balance reads, outages of Redis and crashes; requests end and copies converge.
SPECIFICATION FairSpec
CONSTANTS
    h1 = h1
    h2 = h2
    h3 = h3
    Handlers <- MCHandlers
    NoEntry = NoEntry
    MaxCommits = 2
INVARIANTS
    TypeOK
    OnlyCommitted
PROPERTIES
    CopyConverges
    EveryRequestEnds
