SPECIFICATION Spec
SYMMETRY Alike
CONSTANTS
    h1 = h1
    u1 = u1
    Sessions = {s1, s2}
    Hosts = {h1}
    HostOf <- OneHost
    Tabs = {u1, t1}
    UserTabs = {u1}
    Origins = {o1}
    MaxCalls = 2
    MaxTimeouts = 0
    MaxClicks = 0
    Commands = {}
    Nil = Nil
INVARIANTS
    AuditComplete
CHECK_DEADLOCK FALSE
