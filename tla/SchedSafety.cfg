SPECIFICATION Spec
CONSTANTS
    Workers = {w1, w2}
    InitialWorkers = {w1, w2}
    NonWorkers = {c1}
    Tasks = {t1, t2, t3}
    PthreadTasks = {t3}
    Flags = {TRUE, FALSE}
    NLots = 1
    RqCapacity = 1
    RemoteCapacity = 1
    AllowStop = FALSE
    NULL = NULL
    MaxCalls = 3
SYMMETRY Symmetry
INVARIANTS
    OnePlace
    NoIdleWithWork
CHECK_DEADLOCK FALSE
