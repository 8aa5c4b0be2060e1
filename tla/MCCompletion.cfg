SPECIFICATION Spec
CONSTANTS
    FrontEnds = {"bash", "shell", "tui"}
    Grammar <- MCGrammar
    Files <- MCFiles
    Typed <- MCTyped
    Unfinished <- MCUnfinished
    MaxWords = 4
INVARIANTS
    OffersFit
CHECK_DEADLOCK FALSE
