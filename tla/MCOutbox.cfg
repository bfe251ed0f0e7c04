CONSTANTS
    p1 = p1
    p2 = p2
    Ids <- MCIds2
    Pollers <- TwoPollers
    BatchSize = 2
    SlowPollers = TRUE
    MaxCopies = 2
SPECIFICATION Spec
INVARIANTS NoEventLost
PROPERTIES Delivery TableDrains
CHECK_DEADLOCK FALSE
