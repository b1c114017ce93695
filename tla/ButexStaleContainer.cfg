SPECIFICATION Spec
CONSTANTS
    Bthreads = {}
    Pthreads = {p1}
    TaskPthreads = {p1}
    TimedWaiters = {}
    Butexes = {b1, b2}
    Values = {0, 1}
    Callers = {c1}
    Workers = {c1}
    TimerThread = tt
    NULL = NULL
    Ops = {"butex_wake", "butex_wake_all", "butex_wake_except"}
    StoreOps = {"butex_wake_all"}
    Excluded = {NULL}
    StaleContainers = {NULL, b2}
    MaxCalls = 4
INVARIANT
    SignalledIsRemoved
CHECK_DEADLOCK FALSE
