SPECIFICATION AnySpec
CONSTANTS
    B = 6
    Short = 3
    Word = 24
    BitsOf = 2
    Data <- MCData
    Mixed <- MCMixed
    MaxFed = 62
    MaxUpdate = 15
    BLOCK_LEN = 2
    CHUNK_LEN = 4
    Degrees = {1, 4}
    MAX_DEPTH = 5
    Bits = 7
    MaxTree = 70
    BlockSize = 3
    Uint8 = 8
    HeaderLength = 5
    Versions = {2, 3}
    HeaderWrites <- MCHeader
    AUTO = AUTO
    Skips = {AUTO, 0, 1, 2, 5, 6}
    Asciis = {TRUE, FALSE}
    MaxWritten = 24
    MaxWrite = 9
INVARIANTS
    TypeOK
    Lossless
    DigestOfPaddedMessage
    Typed
    StackIsCanonical
    RootIsOpen
    DigestOfTree
    SpookyLossless
    DigestOfRest
    AutoNeverFails
PROPERTY
    ImplementsMessageDigest
