SPECIFICATION Spec
CONSTANTS
    TicksPerMicro = 2
    Ports <- MCPorts
    Captures = {}
    Options <- MCOptions
    Files <- MCFiles
    Snapshots = {}
    Profiles = {}
INVARIANTS
    GroupsUnique
CHECK_DEADLOCK FALSE
