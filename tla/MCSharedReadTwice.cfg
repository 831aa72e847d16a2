CONSTANTS
    r1 = r1  r2 = r2  r3 = r3  r4 = r4
    scanB = scanB  attackB = attackB  cleanB = cleanB
    u1 = u1  u2 = u2
    NoOwner = NoOwner
    Requests = {r1, r2, r3, r4}
    Brokers = {scanB, attackB, cleanB}
    Urls = {u1, u2}
    Plans <- MCSharedReads
    Lane <- MCLane
    BrokerMax <- MCBrokerMax
    QueueSlots <- MCQueueSlots
    ScanCapacity = 2
    CleanupReserve = 1
    Concurrency = 1
    AuthMax = 3
    AuthRate = 2
    RateWindow = 2
    MaxAttempts = 1
    MaxRedirects = 0
SPECIFICATION Spec
SYMMETRY MCSymmetry
INVARIANT OneFlight
