CONSTANTS
    Feeds <- AllFeeds
    TsBytes = 1
    ShortBytes = 1
    LongBytes = 2
    AcBytes = 1
    RidBytes = 2
    NowBytes = 2
    UuidDigits = 4
    BufMax = 40
    RestMax = 30
    GARBAGE_THRESHOLD = 20
    GarbageRelief = 3
    MaxItems = 3
    MaxGaps = 1
    Conversions <- AllConversions
    Fields <- AllFields
    BadCallsigns = {"BAD_1"}
    MaxFields = 2
    Nodes <- AllNodes
    MaxHops = 4
    TsDigits = 4
    AcDigits = 2
    ShortDigits = 3
    LongDigits = 6
    Wrap = 64
    PingInterval = 20
    RecentPoints = 4
    CachePoints = 8
    EntryRoom = 2
    ReferenceLimit = 5
    Lifetime = 2
    Pauses = {3}
    MaxTime = 12
SPECIFICATION RelaySpec
CHECK_DEADLOCK FALSE
INVARIANTS
    EveryMessageDelivered
    ContentAsSent
    MarksSurvive
    DelayMeasured
