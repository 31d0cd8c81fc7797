SPECIFICATION Spec
CONSTANTS
    ShardCount = 2
    shard_index <- MCShardIndex
    SizeMax = 15
    MaxVectorSize = 12
    MinLongLong <- MCMinLongLong
    MaxLongLong = 1
    Text = Text
    NoEntry = NoEntry
    NoExpiry = NoExpiry
    NoKey = NoKey
    NoThread = NoThread
    NoRequest = NoRequest
    Keys = {"a", "b"}
    Threads = {t1, t2}
    MaxKeys = 0
    Requests <- MapRequests
    MaxCalls = 5
    MaxTime = 1
INVARIANTS
    KeyCount
    AbortsOnlyAfterDrift
PROPERTY ImplementsKVStore
SYMMETRY ThreadSymmetry
