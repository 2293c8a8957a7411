SPECIFICATION FairSpec
CONSTANTS
    None = None
    a1 = a1
    a2 = a2
    r1 = r1
    r2 = r2
    k1 = k1
    w1 = w1
    Artifacts = {a1}
    Requests = {r1}
    Readers = {k1}
    Sweepers = {}
    Reserved = 2
    MaxObjects = 3
    MaxEpoch = 2
    MaxFaults = 0
PROPERTIES QuotaReturns
CHECK_DEADLOCK FALSE
