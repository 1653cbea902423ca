SPECIFICATION MCSpec
CONSTANTS
    ObJobs = {j1, j2}
    ObRelays = {r1, r2}
    ObBatch = 2
    ObMaxFaults = 1
    ScProcesses = {p1, p2}
    ScNobody = ScNobody
    ScPeriod = 2
    ScStale = 1
    ScLimit = 2
    ScLease = 2
    ScEnd = 6
    ScMaxFaults = 1
    BkCallers = {b1, b2}
    BkThreshold = 2
    BkBase = 1
    BkCeiling = 3
    BkJitter = 1
    BkMaxFailures = 4
    BkMaxDropped = 1
    RtCallers = {c1, c2, c3}
    RtNone = RtNone
    RtMaxVersion = 1
    RtMaxTroubles = 1
    SdTasks = {t1}
    SdServer = SdServer
    SdDeadline = SdDeadline
    SdGuards = {g1}
    SdGrace = 2
INVARIANTS
    LoopsTypeOK
    DeliveredBounded
    InOrderOnce
    OneProbe
    OneComputation
    FreshUnlessOverlapped
PROPERTIES
    ReachedUnlessBlocked
    FiresUnlessFault
    Recovers
    WaitersEnd
    ShutsDown
CHECK_DEADLOCK FALSE
