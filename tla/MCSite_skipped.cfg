CONSTANTS
    JsSafe = 8
    LookupWindow = 4
    MaxId = 24
    w1 = w1
    w2 = w2
    a1 = a1
    a2 = a2
    r1 = r1
    r2 = r2
    r3 = r3
    u1 = u1
    u2 = u2
    u3 = u3
    m1 = m1
    i1 = i1
    i2 = i2
    c1 = c1
    c2 = c2
    Parts = {"latest"}

    Authors <- TwoAuthors
    Videos <- OneVideo
    Author <- ByFirst
    FanoutWorkers <- OneWorker
    Readers <- OneReader
    MaxPull = 1
    Movers <- OneAuthor
    Tiers <- OnlyMany
    None = None
    Faults <- AllFaults

    Likers <- ThreeUsers
    LikeRequests <- TwoRequests
    MaxStored = 2
    MaxCounted = 3
    NoNotice = NoNotice
    NoLiker = NoLiker

    CommentIds <- ThreeComments
    Talkers <- TwoUsers
    VideoAuthor = u2
    Mentioned <- Names
    MaxDeletes = 1
    Brokerless <- FirstOnly
    MayFail <- RootEvents
    NoComment = NoComment

    DmRequests <- TwoRequests
    StrangerQuota = 1
    MaxSent = 3
    NoConversation = NoConversation

    Fans <- TwoUsers
    FanEvents <- ThreeEvents
    NoFanEvent = NoFanEvent

    MediaTasks <- OneTask
    MediaWorkers <- TwoWorkers
    MaxTranscodeEvents = 3
    NoTask = NoTask

    Instances <- TwoInstances
    DetailReaders <- OneReader
    Writers <- OneWriter
    MaxVersion = 2
    Uncached = Uncached

    LastVideo = 4
    Walkers <- OneWalker
    PageLimit = 1
    ReadCount = 4
    MaxPageVersion = 4
    MaxPages = 0
    Withdrawable = {}
    RedisFails = FALSE
    Top = Top

    SessionRequests <- ThreeRequests
    UserNames <- TwoNames
    FirstName = "ann"
    NoToken = NoToken

    SignUpRequests <- TwoRequests
    AccountNames <- NamesToTry
    MaxCodes = 2
    NoName = NoName

    PasskeyRequests <- TwoRequests
    Credentials <- ThreeCredentials
    Ceremonies <- ThreeCeremonies
    MaxPasskeys = 1
    NoCeremony = NoCeremony

    TrafficRequests <- ThreeRequests
    Dimensions <- OneAddress
    Ceiling = 1
    PenaltyCeiling = 1
    DenyThreshold = 1
    MaxInFlight = 2

    HotClients <- TwoClients
    HotVideos <- TwoVideos
    HotCached <- FirstPage
    HotPagesRead <- PagesOfClients
    MinUsable = 2
    LastMoment = 1
    NoSnapshot = NoSnapshot

    RecVideos <- FiveVideos
    RecAuthor <- AuthorsOfFive
    SmallAuthors <- OneSmall
    Alike <- OnePairAlike
    RecLimit = 3
    AuthorWindow = 1
    MaxExclude = 2
    MaxCandidates = 4
    Movable <- TwoMovable

    Acts <- TwoRequests
    KindsOf <- AnyAndNoLike
    TastedVideos <- TwoVideos
    TagsOf <- TheirTags
    MaxTags = 2
    NoVector = NoVector

    WatchedVideos <- TwoVideos
    SeenBefore <- FirstOnly
    End = 2
    Upserts <- TwoRequests
    LastMilli = 2
    NoEntry = NoEntry
    MaxRuns = 2
    MaxForms = 1
    MaxSaves = 1
    MaxPublishes = 2
    Stored = 3
SPECIFICATION SiteSafety
INVARIANT NothingSkipped
CHECK_DEADLOCK FALSE
