CONSTANTS
    p1 = p1
    p2 = p2
    Ids <- MCIds2
    Pollers <- TwoPollers
    BatchSize = 2
    SlowPollers = TRUE
    MaxCopies = 2
SPECIFICATION Unconfirmed
INVARIANT NoEventLost
CHECK_DEADLOCK FALSE
