SPECIFICATION Spec
CONSTANTS
    SortedKeys <- ABStray
    Commands <- FaultCommands
    fsync_policy_ = "always"
    AofModes = {TRUE, FALSE}
    MaxKeys = 0
    MaxLongLong = 999
    TicksPerMilli = 2
    MillisPerSecond = 2
    ClockBits = 6
    DiskMayFail = TRUE
    Stray = Stray
    Text = Text
    NoEntry = NoEntry
    NoExpiry = NoExpiry
    Garbled = Garbled
    MaxCommands = 3
    MaxRestarts = 2
    MaxTime = 0
INVARIANTS
    AckedOnDisk
    Separated
