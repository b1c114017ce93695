SPECIFICATION FairSpec
CONSTANTS
    Bthreads = {w1, w2}
    Pthreads = {p1, p2}
    TaskPthreads = {p1}
    TimedWaiters = {w1, p1}
    Butexes = {b1}
    Values = {0, 1}
    Callers = {c1, c2}
    Workers = {c1}
    TimerThread = tt
    NULL = NULL
    Ops = {"butex_wake", "butex_wake_all", "butex_wake_except"}
    StoreOps = {"butex_wake_all"}
    Excluded = {NULL, w1}
    StaleContainers = {NULL}
    MaxCalls = 3
INVARIANTS
    ContainerIsList
    AtMostOneWaker
    
    NoLostWake
PROPERTIES
    CancelIsFinal
    WaitsAreSuspensions
    NeverForgotten
    MismatchReturns
    WokenReturns
CHECK_DEADLOCK FALSE
