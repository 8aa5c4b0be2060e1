SPECIFICATION Spec
CONSTANTS
    Letters = {"a", " "}
    Words <- MCWords
    Builtins <- MCBuiltins
    ConsoleMax = 2
    Widths = {3, 6, 10}
    Heights = {5, 6}
    MaxKeys = 6
    MaxQueue = 2
    MaxOutput = 2
    MaxStarts = 2
PROPERTIES
    EnterEndsRecall
CHECK_DEADLOCK FALSE
