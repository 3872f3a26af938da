SPECIFICATION Spec
CONSTANTS
    BUF_SIZE = 3
    MaxInt = 15
    Data <- MCData
    Algos = {"md5", "sha256", "sha512", "murmur32", "blake3",
             "xxhash32", "xxh3_64"}
    Skips <- MCSkips
    Lengths <- MCLengths
    ErrorModes = {"stop", "silent"}
    None = None
    MaxSize = 7
    StickyEof = TRUE
    ReadErrors = FALSE
    H_starts <- MCStarts
    H_update <- MCUpdate
    H_finish <- MCFinish
    H_memory <- MCMemory
    Garbage <- MCGarbage
    ZeroByte <- MCZero
INVARIANTS
    TypeOK
    Contiguous
PROPERTIES
    ImplementsAtomicDigest
    FileEqualsMemory
