SPECIFICATION FairSpec
CONSTANTS
    i1 = i1
    i2 = i2
    Irps <- TwoIrps
    CodesOf <- MCCodesOf
    AllocMayFail = TRUE
    BusMayFail = TRUE
    UserMayFault = TRUE
    SystemMayFail = TRUE
INVARIANTS
    TypeOK
    ResourcesReturned
    DeviceOutlivesRequests
    StartIsWoken
PROPERTIES
    ImplementsContract
    ImplementsSyncCall
    EveryRequestAnswered
    PnpEnds
CHECK_DEADLOCK FALSE
