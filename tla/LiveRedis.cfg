CONSTANTS
    Events = {"h1", "h2", "m1", "m2"}
    Heartbeats = {"h1", "h2"}
    Writers = {"a"}
    Pages = {"p"}
    KeepHeartbeats = 1
    MaxLiveCrashes = 0
SPECIFICATION LiveSpec
INVARIANTS RedisIsOnlyACache
CHECK_DEADLOCK FALSE
