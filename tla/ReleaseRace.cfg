SPECIFICATION Spec
SYMMETRY Alike
CONSTANTS
    h1 = h1
    u1 = u1
    Sessions = {s1}
    Hosts = {h1}
    HostOf <- OneHost
    Tabs = {u1, t1}
    UserTabs = {u1}
    Origins = {}
    MaxCalls = 3
    MaxTimeouts = 0
    MaxClicks = 1
    Commands = {"revoke_lease"}
    Nil = Nil
INVARIANTS
    ReleaseIsFinal
CHECK_DEADLOCK FALSE
