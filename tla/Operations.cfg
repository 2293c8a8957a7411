SPECIFICATION Spec
CONSTANTS
    None = None
    Machines = {m1, m2}
    c1 = c1
    c2 = c2
    Canaries <- TwoCanaries
    MaxRolloutFaults = 1
    Releases = {r1, r2}
    Legacy = {s1}
    Fenced = {s2}
    MaxRuns = 3
    MaxWrites = 2
    MaxOrders = 2
    Bridges = {s1, s2}
    Configs = {k1, k2}
    Contents = {x, y}
    MaxRequests = 2
    MaxMishaps = 2
    MaxTries = 2
    Devices = {d1}
    Runners = {w1, w2}
    MaxFaults = 1
    MaxClaims = 2
    MaxLaunches = 2
    MaxDisconnects = 1
    MaxStale = 1
    MaxTraktMishaps = 1
    Hosts = {m1, m2, m3}
    Intervals = 3
    Polls = 2
    MaxMeddles = 2
    Codes = {a1}
    MaxEpochs = 4
    MaxGenerates = 2
    MaxAttempts = 2
    MaxSends = 2
    MaxReloads = 1
    MaxOperations = 1
    MaxChanges = 1
INVARIANTS RolloutHolds RollbackHolds ReleaseHolds TokensHold GoneForGood ConsentHolds PageHolds
CHECK_DEADLOCK FALSE
