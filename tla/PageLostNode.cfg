SPECIFICATION Spec
CONSTANTS
    a = a
    b = b
    c = c
    Elements = {a, b, c}
    Selected = {a, b}
    Pages <- LoadedPages
    MaxNodes = 2
    MaxDocuments = 2
    MaxChanges = 0
    MaxReads = 2
    MaxRestarts = 0
    Nil = Nil
INVARIANTS
    ReadCoversPage
CHECK_DEADLOCK FALSE
