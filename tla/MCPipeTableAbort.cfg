SPECIFICATION Spec
CONSTANTS
    t1 = t1
    t2 = t2
    b1 = b1
    b2 = b2
    e1 = e1
    e2 = e2
    a0 = a0
    a1 = a1
    NULL = NULL
    Threads <- OneThread
    Blocks <- MCBlocks
    Addrs <- MCAddrs
    Alts <- MCAlts
    Alt0 = a0
    PipesOf <- MCPipesOf
    MaxSelects = 2
    AllocMayFail = FALSE
    BusMayFail = FALSE
PROPERTY
    AbortsAll
