SPECIFICATION Spec
CHECK_DEADLOCK FALSE
CONSTANTS
    FileLen = 68
    MaxFiles = 2
    Symbols = 3
    MinSps = 20
    MaxSps = 21
    MaxOrig = 22
    Prelude = 10
    MaxSkip = 1
    CacheSize = 35
INVARIANT TypeOK
INVARIANT FirstAttemptInPlace
INVARIANT FirstAttemptFits
INVARIANT CacheMirrorsFile
INVARIANT BreaksOnlyAtEndOrFull
PROPERTY AnalysisEnds
