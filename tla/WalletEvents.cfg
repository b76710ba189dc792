\* Movements and reversals of one wallet, their events, rollbacks, and one worker that may be restarted.
SPECIFICATION EventsSpec
SYMMETRY HandlerSymmetry
CONSTANTS
    h1 = h1
    h2 = h2
    Handlers <- MCHandlers
    Wallets = {0, 1}
    WalletRefs = {0, 1}
    System = 0
    Patchable = {}
    Amounts = {1}
    Keys = {}
    NoKey = NoKey
    MaxMinor = 7
    MaxTransactions = 3
    Workers = {"w1"}
    MaxEvents = 3
    BatchSize = 2
INVARIANTS
    EventPerMovement
    StampedInOrder
    WalletOrder
    StreamReplays
CHECK_DEADLOCK FALSE
