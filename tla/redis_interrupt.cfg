SPECIFICATION Spec
CONSTANTS
    j1 = j1
    j2 = j2
    j3 = j3
    n1 = n1
    n2 = n2
    k1 = k1
    NoKey = NoKey
    NoToken = NoToken
    NoJob = NoJob
    Jobs = {j1}
    Tokens = {t1, t2, t3}
    Names = {n1, n2}
    SerialNames <- NoName
    Keys = {k1}
    NameOf <- OneName
    KeyOf <- NoneKeyed
    MaxAttempts <- OneAttempt
    Priority <- Normal
    PriorityWeight = 1
    LeaseLen = 2
    MaxDelay = 0
    MaxOverdue = 0
    Callers = {p1, p2}
    Reclaimers = {p1}
    Ops <- Buries
    Mishaps = {"error"}
    MaxMishaps = 1
INVARIANTS
    AtLeastOnce
