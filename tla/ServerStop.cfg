SPECIFICATION FairSpec
CONSTANTS
    WorkerThreads = 2
    None = None
    MaxConns = 2
    MaxLines = 2
INVARIANTS
    TypeOK
    RepliesInOrder
    RefusedOnlyEarly
    ExecutesWhileOpen
    EndsClean
    AbortsOnlyAfterRace
PROPERTIES
    RequestsAnswered
    SignalEnds
