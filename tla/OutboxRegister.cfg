SPECIFICATION EarlyFaultsSpec
CONSTANTS
  k1 = k1  k2 = k2  s1 = s1  None = None
  Key = {k1, k2}
  LocalKey = {k1}
  StateKey = {s1}
  Bucket = {s1}
  AppendOnly = {}
  PrimeOnSuccess = {s1}
  Peer = {p1}
  StateKeyOf <- MCStateKeyOf
  BucketOf <- MCBucketOf
  VersionOf <- MCVersionOf
  PendingMaxRetry = 1
  MaxRestarts = 1
  MaxFaults = 1
INVARIANTS OutboxSound
