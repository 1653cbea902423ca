SPECIFICATION Spec
CONSTANTS
    j1 = j1
    j2 = j2
    j3 = j3
    n1 = n1
    n2 = n2
    q1 = q1
    q2 = q2
    k1 = k1
    NoKey = NoKey
    NoToken = NoToken
    Jobs <- MCJobs
    Tokens = {t1, t2, t3}
    Names = {n1, n2}
    SerialNames = {n2}
    QueueNames = {q1, q2}
    Keys = {k1}
    NameOf <- MCNameOf
    QueueOf <- MCQueueOf
    KeyOf <- MCKeyOf
    Priority <- MCPriority
    MaxAttempts <- MCMaxAttempts
    MaxJobs = 3
    LeaseLen = 1
    MaxDelay = 1
    MaxOverdue = 0
SYMMETRY TokenSymmetry
INVARIANTS
    TypeOK
    LeaseCoherent
    UniqueUnlessRevived
PROPERTIES
    SerialPull
    ImplementsLeaseQueue
CHECK_DEADLOCK FALSE
