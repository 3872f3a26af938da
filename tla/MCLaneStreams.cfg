SPECIFICATION AnySpec
CONSTANTS
    Wide = FALSE
    S = 4
    Word = 16
    Data <- MCData
    Zero <- MCZero
    MaxFed = 38
    MaxUpdate = 13
    S64 = 4
    Stripe = 2
    Buffer = 4
    Block = 3
    MidSize = 3
    Garbage <- MCGarbage
    ByteValues = 3
    Poly <- MCPoly
    Unroll = 2
    Group = 1
    Horizon = 20
    UInt = 32
    Lengths <- MCLengths
    Longest <- MCLongest
    Piece <- MCPiece
INVARIANTS
    TypeOK
    Lossless
    LanesWhenLong
    FileIsMemory
    StreamsTyped
    Xxh64Stream
    LastStripeAtHand
    StripesInPlace
    Xxh3FileIsMemory
    CarryHoldsTail
    MurmurOfWhole
    FletcherOfWhole
    CrcOfMessage
