SPECIFICATION Spec
CONSTANTS
    SortedKeys <- AB
    Commands <- EvictionCommands
    fsync_policy_ = "always"
    AofModes = {TRUE}
    MaxKeys = 1
    MaxLongLong = 7
    TicksPerMilli = 2
    MillisPerSecond = 2
    ClockBits = 6
    DiskMayFail = FALSE
    Stray = Stray
    Text = Text
    NoEntry = NoEntry
    NoExpiry = NoExpiry
    Garbled = Garbled
    MaxCommands = 3
    MaxRestarts = 1
    MaxTime = 0
INVARIANT RestartRestores
