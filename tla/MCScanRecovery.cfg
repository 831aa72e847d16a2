\* The approval of a recovery that is running.
CONSTANTS
    s1 = s1
    s2 = s2
    NoScan = NoScan
    Scans <- MCScans
    Mutating <- MCMutating
    CrashLimit = 2
    MaxStops = 1
    MaxIncidents = 2
SPECIFICATION MCSpec
INVARIANT RecoveryKeepsApproval
CHECK_DEADLOCK FALSE
