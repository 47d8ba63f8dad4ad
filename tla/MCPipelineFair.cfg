SPECIFICATION FairSpec
CONSTANTS
    q1 = q1
    q2 = q2
    w1 = w1
    k1 = k1
    s1 = s1
    NoKey = NoKey
    NoSession = NoSession
    Requests = {q1}
    Keys = {k1}
    Sessions = {s1}
    Leases = {w1}
    Arrivals <- SomeArrivals
    Patches = {"working", "cancelled"}
    MaxOutside = 2
    MaxExits = 1
PROPERTIES
    Answered
    RowsSettle
CHECK_DEADLOCK FALSE
