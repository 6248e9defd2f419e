SPECIFICATION FairSpec
CONSTANTS
    c1 = c1
    c2 = c2
    i1 = i1
    i2 = i2
    i3 = i3
    Callers <- MCCallers
    Irps <- MCIrps
    NULL = NULL
INVARIANTS
    TypeOK
    EventFrameAlive
    FailureFreesIrp
    WaitIsWoken
PROPERTIES
    ImplementsSyncCall
    CallReturnsEventually
