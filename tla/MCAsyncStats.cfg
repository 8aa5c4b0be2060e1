SPECIFICATION FairSpec
CONSTANTS
    MaxCtr = 1
    MaxEvents = 3
    PubCap = 4
    MaxGen = 2
    MaxCmds = 2
INVARIANTS
    BarrierFreshWhenQuiet
    DeltaSinceClear
    EventsAccounted
PROPERTIES
    BarrierEnds
CHECK_DEADLOCK FALSE
