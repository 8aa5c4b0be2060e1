SPECIFICATION FairSpec
CONSTANTS
    Full = 12
    Configs <- MCConfigs
INVARIANTS
    BracketSound
    ReportSeparates
    AccurateReport
PROPERTIES
    BracketShrinks
    Terminates
