SPECIFICATION FairSpec
CONSTANTS
    Sessions = {s1}
    Ports = {p1, p2}
    ReconnectDelay = 2
    ReleaseDelay = 15
    MaxFaults = 1
    MaxPanels = 0
    MaxReleases = 2
    Nil = Nil
PROPERTIES
    LeaseInUseKept
