SPECIFICATION Spec
CONSTANTS
    Ports <- MCPorts
    PortLists <- BothPorts
    Profiles = {"two", "one"}
    StreamsFor <- MCStreamsFor
    MaxCmds = 1
    MaxRuns = 1
    MaxProcs = 1
INVARIANTS
    ExitLeavesNoPort
CHECK_DEADLOCK FALSE
