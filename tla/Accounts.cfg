\* Two processes start, crash, and serve requests about the system user and three others.
SPECIFICATION Spec
SYMMETRY ProcessSymmetry
CONSTANTS
    p1 = p1
    p2 = p2
    Processes <- MCProcesses
    Users = {1, 2, 3, 4}
    SystemUser = 1
    Profiles <- MCProfiles
    SystemProfile <- MCSystemProfile
    NoRef = "null"
    Limits = {0, 5}
    DefaultLimit = 1
    MaxLimit = 2
    MaxInt = 7
INVARIANTS
    TypeOK
    SystemWalletReady
    WalkMissesNobody
PROPERTIES
    DeletionSettles
