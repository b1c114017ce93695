SPECIFICATION Spec
CONSTANTS
    Bthreads = {w1}
    Pthreads = {}
    TaskPthreads = {}
    TimedWaiters = {w1}
    Butexes = {b1}
    Values = {0, 1}
    Callers = {c1}
    Workers = {c1}
    TimerThread = tt
    NULL = NULL
    Ops = {"butex_wake", "butex_wake_all", "butex_wake_except"}
    StoreOps = {"butex_wake_all"}
    Excluded = {NULL}
    StaleContainers = {NULL}
    MaxCalls = 4
INVARIANT
    TimeoutNotLost
CHECK_DEADLOCK FALSE
