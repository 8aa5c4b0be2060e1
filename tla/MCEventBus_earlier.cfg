SPECIFICATION Spec
CONSTANTS
    Ports <- MCPorts
    Waiters <- MCWaiters
    Assignments <- MCAssignments
    BufCap = 2
    MaxRuns = 2
INVARIANTS
    DoneMeansOwnRun
CHECK_DEADLOCK FALSE
