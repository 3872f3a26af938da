SPECIFICATION FairSpec
CONSTANTS
    BUF_SIZE = 3
    MaxInt = 15
    Data <- MCData
    Algos = {"any"}
    Skips <- MCSkips
    Lengths <- MCLengths
    ErrorModes = {"stop", "silent"}
    None = None
    MaxSize = 5
    StickyEof = FALSE
    ReadErrors = FALSE
    H_starts <- MCCountStarts
    H_update <- MCCountUpdate
    H_finish <- MCCountFinish
    H_memory <- MCCountMemory
    Garbage <- MCGarbage
    ZeroByte <- MCZero
PROPERTY
    Terminates
