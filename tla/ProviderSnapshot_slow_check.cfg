SPECIFICATION Spec
CONSTANTS
    w1 = w1
    w2 = w2
    r1 = r1
    r2 = r2
    c1 = c1
    Writers <- TwoWriters
    Readers <- OneReader
    Clearers <- Nobody
    MaxAttempts = 2
    MaxMutations = 2
    MaxFaults = 1
    PromptChecks = FALSE
SYMMETRY Interchangeable
INVARIANTS SnapshotsAgree
