SPECIFICATION FairSpec
CONSTANTS
    Ports <- MCPorts
    PortLists <- BothPorts
    Profiles = {"two", "one"}
    StreamsFor <- MCStreamsFor
    MaxCmds = 3
    MaxRuns = 2
    MaxProcs = 2
INVARIANTS
    LoadedExactly
    StoppedMeansIdle
    MeasuresOwnTraffic
    NoOrphanPorts
PROPERTIES
    CommandReturns
CHECK_DEADLOCK FALSE
