SPECIFICATION FairSpec
CONSTANTS
    a = a
    b = b
    c = c
    Tasks = {a, b}
    Templates <- LoneTask
    FollowupLists <- SpawnOrBreak
    Priority <- MCPriority
    MaxRetries <- TwoTries
    MaxCandidates = 2
    NoDeadline = {b}
    AttemptBound = 1
    LiveBound = 1
    MaxConcurrency = 1
INVARIANTS
    AttemptBudget
PROPERTIES
    Termination
    CancelIsReported
