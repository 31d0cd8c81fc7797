SPECIFICATION FairSpec
CONSTANTS
    ShardCount = 2
    shard_index <- MCShardIndex
    SizeMax = 15
    MaxVectorSize = 12
    MinLongLong <- MCMinLongLong
    MaxLongLong = 1
    Text = Text
    NoEntry = NoEntry
    NoExpiry = NoExpiry
    NoKey = NoKey
    NoThread = NoThread
    NoRequest = NoRequest
    Keys = {"a", "b", "c"}
    Threads = {t1, t2}
    MaxKeys = 1
    Requests <- EvictionRequests
    MaxCalls = 4
    MaxTime = 1
INVARIANTS
    TypeOK
    KeyCount
    EvictsOldest
    WithinLimit
PROPERTY CallsReturn
