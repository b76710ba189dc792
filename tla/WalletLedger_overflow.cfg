\* Two large top-ups overflow the balance.
SPECIFICATION Spec
CONSTANTS
    h1 = h1
    h2 = h2
    Handlers <- MCHandlers
    Wallets = {0, 1}
    WalletRefs = {0, 1}
    System = 0
    Patchable = {}
    Amounts = {2}
    Keys = {}
    NoKey = NoKey
    MaxMinor = 3
    MaxTransactions = 2
INVARIANTS
    UserNeverOverdrawn
CHECK_DEADLOCK FALSE
