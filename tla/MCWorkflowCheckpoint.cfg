CONSTANTS
    c1 = c1  c2 = c2
    p1 = p1  p2 = p2
    None = None
    Cases = {c1, c2}
    Procs = {p1, p2}
    Plans <- MCProtocolPlan
    N = 2
    NeedsCapture = {1}
    MaxRuns = 2
SYMMETRY MCSymmetry
SPECIFICATION Spec
INVARIANT ChangeHasItsCheckpoint
CHECK_DEADLOCK FALSE
