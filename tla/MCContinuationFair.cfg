SPECIFICATION FairSpec
CONSTANTS
    Runs = {r1}
    Tasks = {t1}
    Handlers = {h1}
    Tokens = {w1, w2}
    MaxRows = 1
    MaxCycles = 1
    LeaseTime = 1
PROPERTIES
    LeaseReturned
    SessionReleased
CHECK_DEADLOCK FALSE
