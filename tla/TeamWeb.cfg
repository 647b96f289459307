CONSTANTS
    task1 = task1
    task2 = task2
    w1 = w1
    w2 = w2
    p1 = p1
    p2 = p2
    d1 = d1
    Task = {task1, task2}
    Reader = {r1}
    Legacy <- OneLegacy
    MaxVersion = 3
    MaxCompactions = 1
    MaxStops = 2
    Workers = {w1, w2}
    Policies <- TwoPolicies
    ArtifactWindow = 1
    MaxPosts <- SomePosts
    MaxRequests <- SomeRequests
    Agents = {"x", "y"}
    Channels = {"c"}
    FileUsers = {"u", "v"}
    MaxFileRequests = 2
    MaxFileStops = 1
    EventKinds = {"message"}
    Deliveries = {1, 2}
    KeepDeliveries = 1
    MaxAttempts = 2
    StreamRoom = 1
    MaxHookStops = 1
    Proofs = {p1, p2}
    Days = {d1}
    DayOf <- OneDay
    Old = {d1}
    Savers = {"g1"}
    Readers = {"r1"}
    CacheTTL = 1
    MaxToolRuns = 2
    MaxCreditCrashes = 1
    Events = {"h1", "h2", "m1"}
    Heartbeats = {"h1", "h2"}
    Writers = {"a", "b"}
    Pages = {"p"}
    KeepHeartbeats = 1
    MaxLiveCrashes = 1
    Cached = {1, 2, 3}
    ChannelOf <- TheChannels
    TopicsOf <- TheTopics
    Cachers = {"g", "h"}
    MaxCached = 1
    TTL = 2
    MaxCuts = 1
SPECIFICATION WebSpec
INVARIANTS StoreSound ReadsMissNothing NoEventLost
    ArchiveIsCausal NewestDeliveriesKept CacheHoldsTogether
PROPERTIES IsTaskMap ClosedStaysClosed NoSecondDistil
    NoLateUndo StoredUnderPolicy
CHECK_DEADLOCK FALSE
