SPECIFICATION LiveSpec
CONSTANTS
    w1 = w1
    w2 = w2
    j1 = j1
    None = None
    Workers = {w1}
    Jobs = {j1}
    Services = {TRUE, FALSE}
    Decisions = {"ONLINE", "DRAINING", "QUARANTINED", "REVOKED"}
    MaxAttempts = 2
    MaxGeneration = 3
    MaxAbandoned = 0
PROPERTIES
    JobsEnd
    RevokedLeaseIsDead
    OutOfServiceStays
