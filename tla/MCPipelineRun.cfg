SPECIFICATION Spec
CONSTANTS
    q1 = q1
    q2 = q2
    w1 = w1
    k1 = k1
    s1 = s1
    NoKey = NoKey
    NoSession = NoSession
    Requests = {q1, q2}
    Keys = {k1}
    Sessions = {s1}
    Leases = {}
    Arrivals <- SomeArrivals
    Patches = {"working", "cancelled"}
    MaxOutside = 1
    MaxExits = 1
INVARIANTS
    ReleaseSafe
    KeyKept
    RowsTruthful
PROPERTIES
    OutcomeKept
CHECK_DEADLOCK FALSE
