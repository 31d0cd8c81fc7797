SPECIFICATION Spec
CONSTANTS
    SortedKeys <- AB
    Commands <- RestartCommands
    fsync_policy_ = "everysec"
    AofModes = {TRUE}
    MaxKeys = 0
    MaxLongLong = 7
    TicksPerMilli = 2
    MillisPerSecond = 2
    ClockBits = 6
    DiskMayFail = FALSE
    Stray = Stray
    Text = Text
    NoEntry = NoEntry
    NoExpiry = NoExpiry
    Garbled = Garbled
    MaxCommands = 4
    MaxRestarts = 1
    MaxTime = 4
INVARIANTS
    TypeOK
    RestartRestoresUnedited
    TtlAcrossRestart
