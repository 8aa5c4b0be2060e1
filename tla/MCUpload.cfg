SPECIFICATION FairSpec
CONSTANTS
    TicksPerMicro = 2
    Ports <- MCPorts
    Captures <- MCCaptures
    Options <- MCOptions
    Files <- MCFiles
    Snapshots <- MCSnapshots
    Profiles <- MCProfiles
INVARIANTS
    WireConsistent
    TagsDistinct
    ReplayOnTime
    ImixFrameSize
    WritesWhereNamed
    SnapshotFaithful
PROPERTIES
    ReplayCompletes
CHECK_DEADLOCK FALSE
