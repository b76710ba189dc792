\* Movements race each other and status updates of wallet 1; 9 is no wallet; totals reach past the largest int64.
SPECIFICATION Spec
SYMMETRY HandlerSymmetry
CONSTANTS
    h1 = h1
    h2 = h2
    Handlers <- MCHandlers
    Wallets = {0, 1, 2}
    WalletRefs = {0, 1, 2, 9}
    System = 0
    Patchable = {1, 9}
    Amounts = {1}
    Keys = {}
    NoKey = NoKey
    MaxMinor = 2
    MaxTransactions = 3
INVARIANTS
    TypeOK
    FreshCopies
    NonNegative
    LedgerExact
    OrderedWaits
PROPERTIES
    ChecksHoldAtCommit
CHECK_DEADLOCK FALSE
