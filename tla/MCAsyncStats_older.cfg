SPECIFICATION Spec
CONSTANTS
    MaxCtr = 1
    MaxEvents = 3
    PubCap = 4
    MaxGen = 2
    MaxCmds = 2
INVARIANTS
    BarrierFresh
CHECK_DEADLOCK FALSE
