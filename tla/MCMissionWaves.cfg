SPECIFICATION Spec
CONSTANTS
    a = a
    b = b
    c = c
    Tasks = {a, b, c}
    Templates <- MCTemplates
    FollowupLists <- MCFollowups
    Priority <- MCPriority
    MaxRetries <- OneRetry
    MaxCandidates = 1
    NoDeadline = {c}
    AttemptBound = 1
    LiveBound = 1
    MaxConcurrency = 2
INVARIANTS
    TypeOK
    AttemptedAfterDeps
    PriorityRespected
    BlockedHasUnmetDependency
    NothingLeftPending
PROPERTIES
    SettledTasksStay
    ImplementsMissionRun
