SPECIFICATION Spec
CONSTANTS
    a = a
    b = b
    c = c
    Elements = {a, b, c}
    Selected = {a, b}
    Pages <- LoadedPages
    MaxNodes = 2
    MaxDocuments = 2
    MaxChanges = 1
    MaxReads = 2
    MaxRestarts = 1
    Nil = Nil
INVARIANTS
    TypeOK
    RefKeepsElement
    CountedRefGoesStale
    FindCoversMatches
    NodesOnce
CHECK_DEADLOCK FALSE
