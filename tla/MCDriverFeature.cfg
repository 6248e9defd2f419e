SPECIFICATION Spec
CONSTANTS
    i1 = i1
    i2 = i2
    Irps <- OneIrp
    CodesOf <- FeatureCodes
    AllocMayFail = FALSE
    BusMayFail = FALSE
    UserMayFault = FALSE
    SystemMayFail = FALSE
PROPERTY
    ClearFeatureClears
CHECK_DEADLOCK FALSE
