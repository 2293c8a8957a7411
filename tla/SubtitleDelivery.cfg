SPECIFICATION Spec
CONSTANTS
    None = None
    a1 = a1
    a2 = a2
    r1 = r1
    r2 = r2
    k1 = k1
    w1 = w1
    Artifacts = {a1, a2}
    Requests = {r1, r2}
    Readers = {k1}
    Sweepers = {w1}
    Reserved = 2
    MaxObjects = 3
    MaxEpoch = 2
    MaxFaults = 1
SYMMETRY Interchangeable
INVARIANTS NothingBlocks ObjectsHeld
PROPERTIES DeliveredIsCurrent
CHECK_DEADLOCK FALSE
