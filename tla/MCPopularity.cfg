CONSTANTS
    p1 = p1
    w1 = w1
    q1 = q1
    NoEvent = NoEvent
    Ids <- MCIds1
    Pollers <- OnePoller
    Workers <- OneWorker
    ProjPollers <- OneProjPoller
    Delta <- Gains
    BatchSize = 2
    SlowPollers = TRUE
    MaxCopies = 2
SPECIFICATION PSpec
INVARIANTS EventNotLost ProjectionNotLost
PROPERTIES MySQLExactlyOnce RedisExactlyOnce EventuallyRanked
CHECK_DEADLOCK FALSE
