SPECIFICATION MCSpec
CONSTANTS
    ObJobs = {j1}
    ObRelays = {r1}
    ObBatch = 1
    ObMaxFaults = 0
    ScProcesses = {p1, p2}
    ScNobody = ScNobody
    ScPeriod = 2
    ScStale = 1
    ScLimit = 2
    ScLease = 2
    ScEnd = 6
    ScMaxFaults = 1
    BkCallers = {b1}
    BkThreshold = 1
    BkBase = 1
    BkCeiling = 1
    BkJitter = 0
    BkMaxFailures = 1
    BkMaxDropped = 0
    RtCallers = {c1}
    RtNone = RtNone
    RtMaxVersion = 1
    RtMaxTroubles = 0
    SdTasks = {t1}
    SdServer = SdServer
    SdDeadline = SdDeadline
    SdGuards = {g1, g2}
    SdGrace = 2
INVARIANTS
    NeverDuplicated
CHECK_DEADLOCK FALSE
