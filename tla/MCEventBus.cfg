SPECIFICATION FairSpec
CONSTANTS
    Ports <- MCPorts
    Waiters <- MCWaiters
    Assignments <- MCAssignments
    BufCap = 2
    MaxRuns = 2
INVARIANTS
    NoSendOnClosed
    DoneMeansFinished
PROPERTIES
    NoGoroutineLeak
    WaitReturns
CHECK_DEADLOCK FALSE
