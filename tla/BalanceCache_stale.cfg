\* A stale copy is served.
SPECIFICATION Spec
SYMMETRY HandlerSymmetry
CONSTANTS
    h1 = h1
    h2 = h2
    h3 = h3
    Handlers <- MCHandlers
    NoEntry = NoEntry
    MaxCommits = 2
INVARIANTS
    ReturnsCurrentBalance
