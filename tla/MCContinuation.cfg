SPECIFICATION Spec
CONSTANTS
    Runs = {r1, r2}
    Tasks = {t1, t2}
    Handlers = {h1, h2}
    Tokens = {w1, w2}
    MaxRows = 2
    MaxCycles = 1
    LeaseTime = 1
SYMMETRY Symmetry
CONSTRAINT OneAxis
INVARIANTS
    TypeOK
    UniqueAttempt
PROPERTIES
    ClosedForever
    LeaseKept
CHECK_DEADLOCK FALSE
