SPECIFICATION Spec
CONSTANTS
    u1 = u1
    u2 = u2
    NULL = NULL
    Users <- OneUser
    DStates <- OnOff
    SystemIrps <- NoSystemIrp
    PoMayFail = FALSE
    BusMayFail = FALSE
PROPERTY
    SetPwrSets
