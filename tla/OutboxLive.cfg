SPECIFICATION PSpec
CONSTANTS
  k1 = k1  k2 = k2  s1 = s1  None = None
  Key = {k1, k2}
  LocalKey = {k1, k2}
  StateKey = {s1}
  Bucket = {s1}
  AppendOnly = {s1}
  PrimeOnSuccess = {}
  Peer = {}
  StateKeyOf <- MCStateKeyOf
  BucketOf <- MCBucketOf
  VersionOf <- MCVersionOf
  PendingMaxRetry = 1
  MaxRestarts = 1
  MaxFaults = 0
  Above <- NoneAbove
  Posts = {1, 2}
  About <- TwoPosts
  RuleSets <- OneTopic
  Project = "aip2p"
  PageSize = 2
  MaxSubs = 5
  MaxAir = 1
  MaxLinkCuts = 1
INVARIANTS NothingSkippedWhileRunning
PROPERTIES OutboxProgresses SelectedPostArrives
