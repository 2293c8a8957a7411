SPECIFICATION FairSpec
CONSTANTS
    None = None
    p1 = p1
    d1 = d1
    a1 = a1
    w1 = w1
    w2 = w2
    Profiles = {p1}
    Devices = {d1}
    Owner <- OneOwner
    Artifacts = {a1}
    DeviceOf <- OneDevice
    Parts = {1, 2}
    Workers = {w1, w2}
    UploadTtl = 2
    Settlement = 1
    LateBy = 2
    SecondPass = 2
    LeaseTime = 2
    RetryDelay = 1
    MaxFaults = 2
INVARIANTS NoOrphan ActiveIsStored EndedIsErased
PROPERTIES DeletionEnds
CHECK_DEADLOCK FALSE
