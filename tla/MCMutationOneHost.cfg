SPECIFICATION LiveSpec
CONSTANTS
    p1 = p1
    p2 = p2
    h1 = h1
    h2 = h2
    c1 = c1
    c2 = c2
    None = None
    Procs = {p1, p2}
    Hosts = {h1}
    Cases = {c1}
    HostOf <- OneHost
    CasesOf <- AllCases
    Coordinated = TRUE
    PidsAreReused = FALSE
    MaxAbandoned = 1
    OrphansLive = FALSE
INVARIANTS
    MutationIsRecoverable
    SealedPreStateIsOriginal
PROPERTIES
    OnlyVerifiedRollbackClears
    LockIsGivenBack
    MutationIsRestored
