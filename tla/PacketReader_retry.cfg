SPECIFICATION Spec
CHECK_DEADLOCK FALSE
CONSTANTS
    FileLen = 68
    MaxFiles = 1
    Symbols = 3
    MinSps = 20
    MaxSps = 21
    MaxOrig = 22
    Prelude = 10
    MaxSkip = 1
    CacheSize = 47
INVARIANT BitInPlace
