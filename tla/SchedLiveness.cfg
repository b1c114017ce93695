SPECIFICATION MCFairSpec
CONSTANTS
    Workers = {w1, w2}
    InitialWorkers = {w1}
    NonWorkers = {c1}
    Tasks = {1, 2}
    PthreadTasks = {}
    Flags = {TRUE, FALSE}
    NLots = 2
    RqCapacity = 1
    RemoteCapacity = 1
    AllowStop = TRUE
    NULL = NULL
    MaxCalls = 2
ACTION_CONSTRAINTS
    InOrder
    FewCallsAndStop
PROPERTIES
    QueuedRuns
    StopEnds
CHECK_DEADLOCK FALSE
