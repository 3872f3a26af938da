SPECIFICATION Spec
CONSTANTS
    W = 2
    Base = 2
    Text <- MCText
    IV0 <- MCIV
    Counter0 <- MCCounters
    Cuts = {0, 2}
    AnySubset = TRUE
    TextLen = 4
INVARIANT Sequential
CHECK_DEADLOCK FALSE
