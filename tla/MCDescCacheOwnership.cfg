SPECIFICATION FairSpec
CONSTANTS
    t1 = t1
    t2 = t2
    b1 = b1
    b2 = b2
    b3 = b3
    NULL = NULL
    Threads <- TwoThreads
    Blocks <- MCBlocks
    AllocMayFail = TRUE
    BusMayFail = TRUE
INVARIANTS
    TypeOK
    CachedBlocksLive
    NoLeak
    PointerNeverNull
PROPERTY
    RequestReturns
CHECK_DEADLOCK FALSE
