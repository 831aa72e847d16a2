\* Two scans, one of them mutating, from the situations of MCInit.
CONSTANTS
    s1 = s1
    s2 = s2
    NoScan = NoScan
    Scans <- MCScans
    Mutating <- MCMutating
    CrashLimit = 2
    MaxStops = 1
    MaxIncidents = 2
SPECIFICATION MCLiveSpec
INVARIANTS
    UnfinishedIsHeld
    CancellationNotLost
    SupervisorsExclude
    MutationHasApproval
PROPERTIES
    StoppedIsNotComplete
    LifecycleHolds
    LeavesNothingOpen
CHECK_DEADLOCK FALSE
