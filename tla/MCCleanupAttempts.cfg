SPECIFICATION LiveSpec
CONSTANTS
    a1 = a1
    a2 = a2
    k1 = k1
    Attempts = {a1, a2}
    CaseOf <- SameCase
    ScanApprovals = {a1}
    Windows = TRUE
    MaxRequests = 1
    MaxIncarnations = 2
INVARIANTS
    NotExecutedMeansUntouched
    EveryRequestIsRecorded
    OneWorkerPerCase
    VerdictAfterCustody
    SummaryAgrees
PROPERTIES
    AttemptsEnd
\* Every attempt may have its verdict.
CHECK_DEADLOCK FALSE
