SPECIFICATION Spec
CONSTANTS
    B = 4
    L = 2
    Word = 8
    BitsOf = 2
    Data <- MCData
    Garbage <- MCGarbage
    MaxFed = 38
    MaxUpdate = 7
    BigEndian = FALSE
INVARIANTS
    TypeOK
    Lossless
    CountsBytes
    DigestOfPaddedMessage
PROPERTY
    ImplementsMessageDigest
