SPECIFICATION Spec
SYMMETRY Alike
CONSTANTS
    h1 = h1
    u1 = u1
    Sessions = {s1}
    Hosts = {h1}
    HostOf <- OneHost
    Tabs = {u1, t1, t2}
    UserTabs = {u1}
    Origins = {o1}
    MaxCalls = 3
    MaxTimeouts = 0
    MaxClicks = 1
    Commands = {"clear_log"}
    Nil = Nil
INVARIANTS
    AuditComplete
CHECK_DEADLOCK FALSE
