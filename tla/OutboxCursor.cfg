SPECIFICATION Spec
CONSTANTS
  k1 = k1  k2 = k2  s1 = s1  None = None
  Key = {k1, k2}
  LocalKey = {k1, k2}
  StateKey = {s1}
  Bucket = {s1}
  AppendOnly = {s1}
  PrimeOnSuccess = {}
  Peer = {p1}
  StateKeyOf <- MCStateKeyOf
  BucketOf <- MCBucketOf
  VersionOf <- MCVersionOf
  PendingMaxRetry = 2
  MaxRestarts = 1
  MaxFaults = 0
PROPERTY CursorCatchesUp
