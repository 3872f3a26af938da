SPECIFICATION AnySpec
CONSTANTS
    W = 2
    Base = 2
    Text <- MCText
    IV0 <- MCIV
    Counter0 <- MCCounters
    Cuts = {1, 2, 3, 4, 6}
    AnySubset = FALSE
    TextLen = 9
    AUTO = AUTO
    Prefix = Prefix
    Other = Other
    BlockSize <- MCBlock
    DigestSize <- MCDigest
    KeyData <- MCKeyData
    Keys = {0, 3, 4, 5, 8, 9}
    Messages <- MCMessages
    OldFormats = {TRUE, FALSE}
    Objects <- MCObjects
    Skips <- MCSkips
    HeaderLength = 14
    AsciiHeader = 18
    Window = 5
    Ten = Ten
    Tens <- MCTens
    ErrorModes = {"stop", "warn", "silent"}
INVARIANTS
    TypeOK
    Sequential
    RoundTrip
    CountersDiffer
    HmacIsRFC2104
    Elementwise
CHECK_DEADLOCK FALSE
