SPECIFICATION FairSpec
CONSTANTS
    Slots = {s1, s2}
    Workers = {w1, w2}
    Stacks = {k1, k2}
    Joiners = {j1}
    Stoppers = {p1}
    NVersions = 4
    NULL = NULL
    MaxStarts = 3
INVARIANTS
    StacksOwned
    ExecutesOnOwnStack
    TidsAnswerTruly
PROPERTIES
    JoinIsSound
    JoinReturns
CHECK_DEADLOCK FALSE
