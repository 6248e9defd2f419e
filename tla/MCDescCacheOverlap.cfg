SPECIFICATION Spec
CONSTANTS
    t1 = t1
    t2 = t2
    b1 = b1
    b2 = b2
    b3 = b3
    NULL = NULL
    Threads <- TwoThreads
    Blocks <- MCBlocks
    AllocMayFail = FALSE
    BusMayFail = FALSE
INVARIANT
    DeliversComplete
