SPECIFICATION Spec
CONSTANTS
    None = None
    g1 = g1
    g2 = g2
    k1 = k1
    w1 = w1
    w2 = w2
    a1 = a1
    r1 = r1
    d1 = d1
    h1 = h1
PROPERTIES CurrentSettles QuotaReturns RevocationEnds ShutdownEnds
CHECK_DEADLOCK FALSE
