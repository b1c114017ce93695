SPECIFICATION FairSpec
CONSTANTS
    Threads = {t1, t2, t3}
    Ranges = {0, 2}
    MaxLives = 2
    MaxCalls = 4
INVARIANTS
    OneHolder
    IdsKeepTheirLife
    CountedAreWoken
    ErrorsAreHandled
PROPERTIES
    CallsReturn
CHECK_DEADLOCK FALSE
