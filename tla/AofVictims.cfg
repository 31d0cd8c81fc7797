SPECIFICATION FairSpec
CONSTANTS
    SortedKeys <- ABC
    Commands <- VictimCommands
    fsync_policy_ = "everysec"
    AofModes = {TRUE, FALSE}
    MaxKeys = 2
    MaxLongLong = 7
    TicksPerMilli = 2
    MillisPerSecond = 2
    ClockBits = 6
    DiskMayFail = FALSE
    Stray = Stray
    Text = Text
    NoEntry = NoEntry
    NoExpiry = NoExpiry
    Garbled = Garbled
    MaxCommands = 5
    MaxRestarts = 0
    MaxTime = 0
INVARIANT RestartRestores
PROPERTY EventuallySynced
