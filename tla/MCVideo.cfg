CONSTANTS
    k1 = k1
    k2 = k2
    r1 = r1
    r2 = r2
    p1 = p1
    None = None
    Videos <- OneVideo
    Keys <- TwoKeys
    Requests <- TwoRequests
    Reporters <- OneReporter
    MaxDrafts = 1
    Radix = 2
    Word = 1024
    mixMultiplier = 91
    maxShareTextBytes = 40
SPECIFICATION Spec
INVARIANTS PublishedOnce DecisionsExplained PublicWasAnnounced
PROPERTIES Reviewed
CHECK_DEADLOCK FALSE
