SPECIFICATION Spec
CONSTANTS
    Processes = {p1, p2, p3}
    Extensions = {x1, x2}
    Brokers = {b1, b2}
    MaxCrashes = 1
    Nil = Nil
    NoBroker = NoBroker
    Cut = Cut
SYMMETRY Symmetry
INVARIANTS
    TypeOK
    SecretStands
    OriginsKept
    LoneBrokerReachable
    LoneStartSucceeds
CHECK_DEADLOCK FALSE
