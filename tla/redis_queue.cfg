SPECIFICATION Spec
CONSTANTS
    j1 = j1
    j2 = j2
    j3 = j3
    n1 = n1
    n2 = n2
    k1 = k1
    NoKey = NoKey
    NoToken = NoToken
    NoJob = NoJob
    Jobs = {j1, j2, j3}
    Tokens = {t1, t2, t3}
    Names = {n1, n2}
    SerialNames = {n1}
    Keys = {k1}
    NameOf <- LastOther
    KeyOf <- EndsKeyed
    MaxAttempts <- MixedAttempts
    Priority <- Normal
    PriorityWeight = 1
    LeaseLen = 2
    MaxDelay = 0
    MaxOverdue = 0
    Callers = {p1, p2}
    Reclaimers = {p1}
    Ops <- Buries
    Mishaps = {"error", "crash"}
    MaxMishaps = 1
SYMMETRY TokenSymmetry
INVARIANTS
    IndexCoherent
    SerialOneHolder
    UniqueInFlight
PROPERTIES
    ImplementsLeaseQueue
