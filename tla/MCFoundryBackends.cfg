SPECIFICATION BackendsSpec
CONSTANTS
    s1 = s1
    s2 = s2
    s3 = s3
    c1 = c1
    c2 = c2
    c3 = c3
    sw = sw
    usr = usr
    NoSession = NoSession
    Nobody = Nobody
    Threads = {c1, c2, c3, sw}
    Sweepers = {sw}
    Sessions = {s1, s2}
    Owner <- Anonymous
    MaxActive = 2
    MaxPerUser = 1
    SoftLimit = 1
    MaxCost = 2
    CallCosts = {0, 1}
    Forces = {TRUE, FALSE}
    Backends = {"sdk", "terraform", "dryrun"}
    Stuck = {s1}
    CostBound = 3
    Ageing = {s1, s2}
INVARIANTS
    CapNoticed
PROPERTIES
    ReapedInTheEnd
CHECK_DEADLOCK FALSE
