SPECIFICATION Spec
CONSTANTS
    NPorts = 2
    Steps = 2
    MaxRuns = 1
    MaxPkts = 2
    PDR = 0
    QFullResolution = 0
    InitQF = {0}
    CanSteal = FALSE
    CanCrash = FALSE
INVARIANTS
    PassMeansWithinLimits
CHECK_DEADLOCK FALSE
