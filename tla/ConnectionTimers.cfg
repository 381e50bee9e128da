SPECIFICATION FairSpec
CONSTANTS
    Sessions = {s1}
    Ports = {p1, p2}
    ReconnectDelay = 2
    ReleaseDelay = 9
    MaxFaults = 2
    MaxPanels = 1
    MaxReleases = 2
    Nil = Nil
INVARIANTS
    TypeOK
    OnePort
    NeverStranded
PROPERTIES
    Reconnects
    AbandonedExpires
