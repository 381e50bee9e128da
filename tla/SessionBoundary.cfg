SPECIFICATION Spec
SYMMETRY Alike
CONSTANTS
    h1 = h1
    u1 = u1
    Sessions = {s1, s2}
    Hosts = {h1}
    HostOf <- OneHost
    Tabs = {u1, t1}
    UserTabs = {u1}
    Origins = {}
    MaxCalls = 2
    MaxTimeouts = 1
    MaxClicks = 1
    Commands = {"control_tab", "revoke_lease"}
    Nil = Nil
INVARIANTS
    TypeOK
    Boundary
    TargetInBoundary
    CleanReleaseIsFinal
CHECK_DEADLOCK FALSE
