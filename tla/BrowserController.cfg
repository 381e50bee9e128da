SPECIFICATION Spec
SYMMETRY Alike
CONSTANTS
    Tabs = {u1, t1, t2}
    u1 = u1
    t1 = t1
    t2 = t2
    UserTab = u1
    Calls = {c1, c2}
    Sessions = {s1, s2}
    Default = Default
    Labels = {"host", "label"}
    HostLabel = "host"
    Requests <- SomeRequests
    MaxRequests = 3
    MaxOutside = 1
    MaxLogRecords = 2
    PageSizes = {1}
    Targets = {"plain", "critical"}
    Nil = Nil
INVARIANTS
    TypeOK
    AttachedIsEnabled
    AttachmentEndsWithLease
    RecordsCovered
    
    CreatedTabsKept
    GroupsApart
    RenameKeepsGroup
    
CHECK_DEADLOCK FALSE
