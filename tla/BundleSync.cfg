CONSTANTS
    a = a
    b = b
    m = m
    Refs = {a, b, m}
    Manifests = {m}
    Listed = {b}
    Direct <- NoDirect
    MaxPerPass = 1
    Rounds = 2
    MaxArrivals = 1
    MaxQueueCrashes = 1
    b1 = b1
    b2 = b2
    b3 = b3
    n1 = n1
    n2 = n2
    Bundles = {b1, b2, b3}
    Own = {b1}
    Names = {n1, n2}
    DirName <- TwoNames
    CreatedAt <- Ages
    MaxStoreCrashes = 1
    MaxPublishFailures = 2
    StaleAfter = 3
    Window = 3
    Threshold = 3
    Cooldown = 3
    MaxEvents = 1
    Sources = {"bundles", "decisions"}
    Deep = {"bundles"}
    Decisions = "decisions"
    Builders = {"g", "h"}
    Requests = {"r", "s"}
    MaxChanges = 1
    MaxIndexFailures = 1
SPECIFICATION Spec
INVARIANTS NoRefLost WorkersBounded
PROPERTIES CompleteStays NothingIsPassedOver SupervisorLetsWork PagesCatchUp
CHECK_DEADLOCK FALSE
