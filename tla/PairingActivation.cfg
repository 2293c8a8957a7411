SPECIFICATION Spec
CONSTANTS
    None = None
    b1 = b1
    b2 = b2
    q1 = q1
    p1 = p1
    p2 = p2
    t1 = t1
    t2 = t2
    k1 = k1
    f1 = f1
    f2 = f2
    Browsers <- TwoBrowsers
    Pollers <- OnePoller
    Profiles <- TwoProfiles
    Tokens <- TwoTokens
    Pairings <- OnePairing
    Configs <- TwoConfigs
    ProfileOf <- TwoIdentities
    Requests <- RivalRetries
    PairingTtl = 3
    RetryTtl = 3
    TombstoneTtl = 1
    MaxPairings = 1
    SessionTtl = 3
    ReplayTtl = 3
    MaxSessions = 2
    MaxSessionsPerProfile = 1
    MaxTime = 3
SYMMETRY Interchangeable
INVARIANTS OutcomeStands RegisteredBeforeRedeemable RetryReachesAnswer
