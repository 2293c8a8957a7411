SPECIFICATION AllSpec
CONSTANTS
    None = None
    g1 = g1
    k1 = k1
    k2 = k2
    w1 = w1
    w2 = w2
    p1 = p1
    place1 = place1
    place2 = place2
    place3 = place3
    Grants = {g1}
    Keys = {k1, k2}
    Workers = {w1, w2}
    Events = {"progress", "pause", "resume", "stop"}
    Kinds = {"canonical", "local", "negative"}
    MaxGeneration = 2
    MaxBreaks = 2
    MaxAttempts = 2
SYMMETRY Interchangeable
INVARIANTS SentOnce AppliedOnce RowsAgree QueriesHold SessionsHold DiscoveryHolds
PROPERTIES SentWhileCurrent
CHECK_DEADLOCK FALSE
