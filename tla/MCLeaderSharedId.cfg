SPECIFICATION Spec
CONSTANTS
    p1 = p1
    p2 = p2
    i1 = i1
    None = None
    Procs = {p1, p2}
    InstanceOf <- SharedId
    LeaseMs = 1
    MaxTime = 4
    MaxFence = 3
INVARIANTS
    AtMostOneLeader
