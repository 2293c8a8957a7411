SPECIFICATION AllSpec
CONSTANTS
    None = None
    g1 = g1
    g2 = g2
    r1 = r1
    r2 = r2
    Grants = {g1, g2}
    Requests = {r1, r2}
    Keys = {k1}
    Events = {}
    Kinds = {"canonical", "negative"}
    Negative = {"not_found"}
    MaxGeneration = 1
    MaxInvalidations = 2
    Retries = 2
    MaxBreaks = 1
    Callers = {r1, r2}
    ka = ka
    kb = kb
    Prefixes <- TwoPrefixes
    Bodies = {x, y}
    Marker = Marker
    PageSize = 1
    MaxRounds = 3
    MaxCalls = 3
    MaxMishaps = 1
    Readiness = {c1, c2}
    MaxUpsets = 3
SYMMETRY Interchangeable
INVARIANTS ToldStands ObjectsHold ServerSound
CHECK_DEADLOCK FALSE
