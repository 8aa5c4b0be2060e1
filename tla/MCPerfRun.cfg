SPECIFICATION FairSpec
CONSTANTS
    NPorts = 2
    Steps = 2
    MaxRuns = 2
    MaxPkts = 2
    PDR = 0
    QFullResolution = 0
    InitQF = {0, 1}
    CanSteal = TRUE
    CanCrash = TRUE
INVARIANTS
    StoppedOnReturn
    VerdictExact
PROPERTIES
    MeasurementReturns
CHECK_DEADLOCK FALSE
