SPECIFICATION MCSpec
CONSTANTS
    RlCallers = {a1, a2}
    RlNone = RlNone
    RlEmission = 2
    RlBurst = 2
    RlSlack = 1
    RlSkew = 1
    RlAttempts = 2
    RlMaxClock = 6
    SsRequests = {w1, w2}
    SsIds = {i1, i2}
    SsNoId = SsNoId
    SsMaxOps = 1
    SsMaxTroubles = 1
SYMMETRY MCSymmetry
INVARIANTS
    StoresCoherent
    RateHolds
CHECK_DEADLOCK FALSE
