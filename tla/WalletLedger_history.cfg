\* Reversals of the same transaction, and requests that share a key.
SPECIFICATION Spec
SYMMETRY HandlerSymmetry
CONSTANTS
    h1 = h1
    h2 = h2
    Handlers <- MCHandlers
    Wallets = {0, 1}
    WalletRefs = {0, 1}
    System = 0
    Patchable = {}
    Amounts = {1}
    Keys = {"k1"}
    NoKey = NoKey
    MaxMinor = 7
    MaxTransactions = 4
INVARIANTS
    ReversedOnce
    KeyedOnce
    CreatedIsServed
    RefusalsAreTrue
PROPERTIES
    HistoryImmutable
    ImplementsAtomicLedger
CHECK_DEADLOCK FALSE
