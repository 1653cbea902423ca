SPECIFICATION MCSpec
CONSTANTS
    q1 = q1
    q2 = q2
    NoKey = NoKey
    NoToken = NoToken
    Jobs = {1, 2}
    Tokens = {t1, t2}
    Names = {n1, n2}
    SerialNames = {n1}
    QueueNames = {q1, q2}
    Keys = {k1}
    QueueOf <- MCQueueOf
    Priority <- MCPriority
    Sessions = {s1, s2}
    LeaseLen = 1
    MaxBatch = 2
    MaxDelay = 1
    MaxCrossings = 0
    MgRunners = {r1, r2}
    MgNobody = MgNobody
    MgVersions = 2
    MgStatements = 2
    MgLease = 1
    MgMaxTroubles = 1
    MgMaxRollbacks = 1
    OnCallers = {c1, c2, c3}
    OnNone = OnNone
    OrphanAfter = 2
    OnMaxTroubles = 2
    TxSavepoints = 2
    TxMaxRetries = 1
    TxMaxFaults = 1
    TkClients = {u1, u2}
    TkTokens = 3
    KsIds = {1, 2, 3}
    KsValues = {1, 2}
    KsNull = KsNull
    KsMaxLimit = 2
    KsMaxChanges = 2
SYMMETRY MCSymmetry
INVARIANTS
    ClaimsCoherent
    LedgerTruth
    OneAtATime
    CommitsWhatReturnedOk
    OneHeir
    WalkIsExact
PROPERTIES
    SerialPullUnlessOverlapped
    ImplementsLeaseQueue
    BodiesApart
CHECK_DEADLOCK FALSE
