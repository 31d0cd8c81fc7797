SPECIFICATION Spec
CONSTANTS
    SortedKeys <- AB
    Commands <- ExtendCommands
    fsync_policy_ = "always"
    AofModes = {TRUE}
    MaxKeys = 0
    MaxLongLong = 999
    TicksPerMilli = 2
    MillisPerSecond = 2
    ClockBits = 6
    DiskMayFail = FALSE
    Stray = Stray
    Text = Text
    NoEntry = NoEntry
    NoExpiry = NoExpiry
    Garbled = Garbled
    MaxCommands = 3
    MaxRestarts = 0
    MaxTime = 4
INVARIANT NeverExtends
