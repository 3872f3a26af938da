SPECIFICATION Spec
CONSTANTS
    B = 4
    L = 2
    Word = 8
    BitsOf = 2
    Data <- MCData
    Garbage <- MCGarbage
    MaxFed = 24
    MaxUpdate = 24
    BigEndian = TRUE
INVARIANT
    DigestOfPaddedMessage
