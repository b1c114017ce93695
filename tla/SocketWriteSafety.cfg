SPECIFICATION FairSpec
CONSTANTS
    Writers = {w1, w2}
    Keepers = {k1, k2}
    NReq = 3
    Size = 2
    NULL = NULL
    UNCONNECTED = UNCONNECTED
INVARIANTS
    OneWriter
    NoUseAfterRelease
    ChecksHold
    SetupInOrder
PROPERTIES
    WritesAreQueued
    EveryRequestEnds
