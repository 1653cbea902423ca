SPECIFICATION FairSpecW
CONSTANTS
    j1 = j1
    j2 = j2
    n1 = n1
    n2 = n2
    q1 = q1
    q2 = q2
    w1 = w1
    w2 = w2
    k1 = k1
    NoKey = NoKey
    NoToken = NoToken
    Jobs = {j1, j2}
    Tokens = {t1, t2, t3}
    Names = {n1, n2}
    SerialNames = {}
    QueueNames = {q1, q2}
    Keys = {k1}
    NameOf <- MixedNameOf
    QueueOf <- MCQueueOf
    KeyOf <- MCKeyOf
    Priority <- MCPriority
    MaxAttempts <- MCMaxAttempts
    MaxJobs = 2
    LeaseLen = 2
    MaxDelay = 0
    MaxOverdue = 0
    Workers = {w1}
    Slots <- SoloSlots
    Serves <- SoloServes
    Weight <- MCWeight
    Knows <- SoloKnows
    PanickyJobs = {}
    Requeues = {w1}
    MaxFaults = 1
    MaxDeploys = 1
PROPERTIES
    EverySettles
CHECK_DEADLOCK FALSE
