SPECIFICATION Spec
CONSTANTS
    p1 = p1
    p2 = p2
    i1 = i1
    None = None
    Procs = {p1, p2}
    InstanceOf <- OwnIds
    LeaseMs = 1
    MaxTime = 4
    MaxFence = 3
SYMMETRY ProcSymmetry
INVARIANTS
    AtMostOneLeader
    FenceHasOneOwner
PROPERTIES
    CommitsFollowFences
