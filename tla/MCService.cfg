CONSTANTS
    RnRequests = {r1, r2, r3}
    RnProbes = {p1}
    RnParallel = 2
    RnAttempts = 2
    SiRows = {1, 2, 3}
    SiTrigger = 3
    SiBatchSize = 2
    SiAttempts = 2
    SiCrashes = 1
    RlThreads = {q1, q2, q3, q4}
    RlWorkers = 2
    RlKeys = {u}
    RateMax = 2
    RateWindow = 1
    RlHorizon = 3
    BusTopics = {t}
    BusCallbacks = {ca, cb}
    BusPublishers = {pa, pb}
    BusHistory = 1
    BusRounds = 1
    BusChanges = 4
    RgThreads = {t1, t2}
    RgOrder <- Folders
    RgBroken = {"c"}
    RgLate = {"c"}
    RgMax = 1
    ArForbidden = {"c"}
    ArDraws = 2
    MrLocal = {"b"}
    MrLatency <- Latencies
    MrCost <- Costs
    InRetries = 2
    InFallback = TRUE
    StRequests = 3
    StNotes = 3
    StNoteMethods = {"notifications/initialized", "ping", "tools/call", "no_object"}
    PlLength = 3
    PlDepends <- DependLists
    AgMaxRounds = 2
    AgCallTime = 3
    AgWorkers = 2
    AgMaxCalls = 2
    AgMaxQueue = 1
    CtTurn = 8
    CtReserve = 2
    CtSearchTimes = {0, 5, 9}
    AnRequests = {a1, a2}
    AnFrames = 2
    AnBatch = 2
    FcCalls = {g1, g2}
    FcRetries = 1
    FcSoft = 1
    FcHard = 2
SPECIFICATION Spec
CHECK_DEADLOCK FALSE
INVARIANTS
    ServiceTypes
    RateWindowKept
    SteadySubscriberTold
    RegistryServes
    AnswersOwn
    PlanSound
    ChatKept
    AnalysesSound
    SinkLines
PROPERTIES
    InstancesSettle
    RunnerDrains
    EveryoneAnswered
