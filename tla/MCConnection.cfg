SPECIFICATION FairSpec
CONSTANTS
    Pollers = {"poll"}
    MaxCalls = 4
    MaxMsgs = 2
    Interrupts = {"connect", "command"}
INVARIANTS
    LockStep
PROPERTIES
    ImplementsRpcService
    CloseReturns
CHECK_DEADLOCK FALSE
