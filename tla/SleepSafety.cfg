SPECIFICATION InterruptSpec
CONSTANTS
    Sleepers = {s1}
    Interrupters = {i1, i2}
    MaxSleeps = 3
    SleepsPerLife = 2
    Lives = 2
    MaxInterrupts = 3
INVARIANTS
    SleepArgsAlive
    SleeperNotForgotten
PROPERTIES
    SuspendsCorrectly
    SleepReturns
    InterruptWakes
CHECK_DEADLOCK FALSE
