SPECIFICATION FairSpec
CONSTANTS
    t1 = t1
    t2 = t2
    b1 = b1
    b2 = b2
    p1 = p1
    p2 = p2
    e1 = e1
    e2 = e2
    a0 = a0
    a1 = a1
    a2 = a2
    NULL = NULL
    Alt0 = a0
    Threads <- TwoThreads
    DescBlocks <- TwoDescBlocks
    PipeBlocks <- OnePipeBlock
    Addrs <- OneAddr
    Alts <- OneAlt
    PipesOf <- OnePipesOf
    Layouts <- OneLayout
    Requests <- MutexRequests
    MaxSelects = 1
    DescAllocMayFail = FALSE
    DescBusMayFail = FALSE
    PipeAllocMayFail = FALSE
    PipeBusMayFail = FALSE
INVARIANT
    DescriptorNeverNull
PROPERTY
    RequestReturns
CHECK_DEADLOCK FALSE
