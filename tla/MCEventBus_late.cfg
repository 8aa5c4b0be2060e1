SPECIFICATION FairSpec
CONSTANTS
    Ports <- MCPorts
    Waiters <- MCWaiters
    Assignments <- MCAssignments
    BufCap = 2
    MaxRuns = 1
PROPERTIES
    LateWaitReturns
CHECK_DEADLOCK FALSE
