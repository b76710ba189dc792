\* A reversal moves the money of a suspended wallet.
SPECIFICATION Spec
CONSTANTS
    h1 = h1
    h2 = h2
    Handlers <- MCHandlers
    Wallets = {0, 1}
    WalletRefs = {0, 1}
    System = 0
    Patchable = {1}
    Amounts = {1}
    Keys = {}
    NoKey = NoKey
    MaxMinor = 7
    MaxTransactions = 2
PROPERTIES
    SuspendedBlocksMovement
CHECK_DEADLOCK FALSE
