SPECIFICATION FairSpec
CONSTANTS
    Relays = {r1}
    MaxCalls = 2
    MaxConns = 2
    MaxPorts = 2
    ClientQueueSize = 1
    BrowserQueueSize = 1
    Nil = Nil
INVARIANTS
    TypeOK
    OutcomeSound
    OwnResponse
    NoRequestCut
    RouterNeverWaits
    OverlapOnlyAfterUnknown
    WriterIsHeard
PROPERTIES
    AtMostOnce
    CallsReturn
    PendingDrains
CHECK_DEADLOCK FALSE
