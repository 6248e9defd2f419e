SPECIFICATION Spec
CONSTANTS
    t1 = t1
    t2 = t2
    b1 = b1
    b2 = b2
    p1 = p1
    p2 = p2
    e1 = e1
    e2 = e2
    a0 = a0
    a1 = a1
    a2 = a2
    NULL = NULL
    Alt0 = a0
    Threads <- OneThread
    DescBlocks <- TwoDescBlocks
    PipeBlocks <- TwoPipeBlocks
    Addrs <- MCAddrs
    Alts <- ThreeAlts
    PipesOf <- ThreePipesOf
    Layouts <- MCLayouts
    Requests <- AllRequests
    MaxSelects = 2
    DescAllocMayFail = TRUE
    DescBusMayFail = FALSE
    PipeAllocMayFail = FALSE
    PipeBusMayFail = TRUE
INVARIANTS
    DeliversComplete
    CacheIsComplete
    TableMatchesDevice
    UrbNamesPipe
    NoBugcheck
    SearchFinds
    DescriptorHeld
PROPERTY
    MarksOwnPipe
CHECK_DEADLOCK FALSE
