SPECIFICATION FairSpec
CONSTANTS
    Callers = {t1, t2}
    Pthreads = 2
    Nums = {0, 1, 2}
    MinConc = 1
    MaxConc = 2
    DefaultConc = 1
    Controls = 2
    NULL = NULL
    MaxCalls = 3
INVARIANTS
    WorkersMatch
    OneControl
    GroupFound
PROPERTY
    CallsReturn
CHECK_DEADLOCK FALSE
