\* Every request is answered, with lock waits, failures and status updates of the settlement wallet, which every top-up locks.
SPECIFICATION FairSpec
CONSTANTS
    h1 = h1
    h2 = h2
    Handlers <- MCHandlers
    Wallets = {0, 1}
    WalletRefs = {0, 1}
    System = 0
    Patchable = {0}
    Amounts = {1}
    Keys = {"k1"}
    NoKey = NoKey
    MaxMinor = 7
    MaxTransactions = 2
PROPERTIES
    EveryRequestAnswered
CHECK_DEADLOCK FALSE
