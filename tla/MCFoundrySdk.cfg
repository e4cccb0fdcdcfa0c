SPECIFICATION Spec
CONSTANTS
    s1 = s1
    s2 = s2
    s3 = s3
    c1 = c1
    c2 = c2
    c3 = c3
    sw = sw
    usr = usr
    NoSession = NoSession
    Nobody = Nobody
    Threads = {c1, c2}
    Sweepers = {}
    Sessions = {s1, s2, s3}
    Owner <- MCOwner
    MaxActive = 1
    MaxPerUser = 1
    SoftLimit = 1
    MaxCost = 2
    CallCosts = {1}
    Forces = {FALSE}
    Backends = {"sdk"}
    Stuck = {}
    CostBound = 2
    Ageing = {}
SYMMETRY ClientSymmetry
INVARIANTS
    TypeOK
    NeverOrphaned
    QuotaOvershoot
PROPERTIES
    TornDownMeansGone
CHECK_DEADLOCK FALSE
