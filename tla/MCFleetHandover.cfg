SPECIFICATION Spec
CONSTANTS
    w1 = w1
    w2 = w2
    j1 = j1
    None = None
    Workers = {w1, w2}
    Jobs = {j1}
    Services = {TRUE}
    Decisions = {}
    MaxAttempts = 2
    MaxGeneration = 1
    MaxAbandoned = 1
SYMMETRY WorkerSymmetry
INVARIANTS
    ResultOfLatestLease
PROPERTIES
    TerminalIsFinal
