SPECIFICATION FairSpec
CONSTANTS
    u1 = u1
    u2 = u2
    NULL = NULL
    Users <- TwoUsers
    DStates <- OnOff
    SystemIrps <- MCSystemIrps
    PoMayFail = TRUE
    BusMayFail = TRUE
INVARIANTS
    TypeOK
    SetPwrFrameAlive
    SystemIrpCompletedOnce
    PwrStateFollows
PROPERTIES
    SetPwrEnds
    SystemIrpEnds
    SystemSetReachesDevice
