SPECIFICATION Spec
CONSTANTS
    TicksPerMicro = 2
    Ports <- MCPorts
    Captures = {}
    Options <- MCOptions
    Files <- MCFiles
    Snapshots = {}
    Profiles = {}
INVARIANTS
    WritesBehindSegments
CHECK_DEADLOCK FALSE
