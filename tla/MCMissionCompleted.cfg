SPECIFICATION Spec
CONSTANTS
    a = a
    b = b
    c = c
    Tasks = {a, b, c}
    Templates <- MCTemplates
    FollowupLists <- MCFollowups
    Priority <- MCPriority
    MaxRetries <- OneRetry
    MaxCandidates = 1
    NoDeadline = {}
    AttemptBound = 1
    LiveBound = 1
    MaxConcurrency = 1
INVARIANTS
    CompletedMeansAllDone
