SPECIFICATION Spec
CONSTANTS
    Threads = {t1, t2, t3}
    Ranges = {0, 2}
    MaxLives = 1
    MaxCalls = 4
INVARIANT
    WaitersAreWoken
CHECK_DEADLOCK FALSE
