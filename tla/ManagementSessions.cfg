SPECIFICATION Spec
CONSTANTS
    None = None
    c1 = c1
    c2 = c2
    p1 = p1
    p2 = p2
    t1 = t1
    t2 = t2
    k1 = k1
    k2 = k2
    f1 = f1
    f2 = f2
    Callers <- TwoCallers
    Profiles <- TwoProfiles
    Tokens <- TwoTokens
    Pairings <- TwoPairings
    Configs <- TwoConfigs
    ProfileOf <- OneIdentity
    Requests <- Browsers
    RetryUntil <- Windows
    SessionTtl = 2
    ReplayTtl = 3
    MaxSessions = 2
    MaxSessionsPerProfile = 1
    MaxIssues = 2
    MaxTime = 3
SYMMETRY Interchangeable
INVARIANTS RetryMintsOnce AnswersHold NoSessionOfRevoked NoStaleAuthentication
