SPECIFICATION Spec
CONSTANTS
    BlockSize = 3
    Uint8 = 8
    HeaderLength = 5
    Versions = {2, 3}
    HeaderWrites <- MCHeader
    Skips <- MCSkips
    AUTO = AUTO
    Asciis = {FALSE}
    Data <- MCData
    Garbage <- MCGarbage
    MaxWritten = 24
    MaxWrite = 9
INVARIANT
    DigestOfRest
