SPECIFICATION Spec
CONSTANTS
    p1 = p1
    p2 = p2
    h1 = h1
    h2 = h2
    c1 = c1
    c2 = c2
    None = None
    Procs = {p1, p2}
    Hosts = {h1, h2}
    Cases = {c1}
    HostOf <- TwoHosts
    CasesOf <- SharedCases
    Coordinated = TRUE
    PidsAreReused = FALSE
    MaxAbandoned = 0
    OrphansLive = FALSE
INVARIANT NamespaceStaysBlocked
