SPECIFICATION FairSpec
CONSTANTS
    Ports <- MCPorts
    Waiters <- MCWaiters
    Assignments <- MCAssignments
    BufCap = 2
    MaxRuns = 2
PROPERTIES
    NeverMissed
CHECK_DEADLOCK FALSE
