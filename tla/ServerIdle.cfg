SPECIFICATION FairSpec
CONSTANTS
    WorkerThreads = 1
    None = None
    MaxConns = 2
    MaxLines = 0
PROPERTY IdleCannotBlock
