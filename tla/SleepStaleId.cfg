SPECIFICATION InterruptSpec
CONSTANTS
    Sleepers = {s1}
    Interrupters = {i1}
    MaxSleeps = 2
    SleepsPerLife = 2
    Lives = 1
    MaxInterrupts = 1
PROPERTIES
    InterruptedReturns
CHECK_DEADLOCK FALSE
