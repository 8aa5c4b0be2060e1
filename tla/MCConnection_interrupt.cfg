SPECIFICATION Spec
CONSTANTS
    Pollers = {"poll"}
    MaxCalls = 5
    MaxMsgs = 2
    Interrupts = {"command"}
INVARIANTS
    SubscriberOutlivesCommand
CHECK_DEADLOCK FALSE
