SPECIFICATION Spec
CONSTANTS
    f1 = f1
    f2 = f2
    r1 = r1
    r2 = r2
    Files = {f1}
    Runs = {r1, r2}
    Posts = {p1}
    MaxRevisions = 0
    MaxEdits = 2
SYMMETRY Symmetric
INVARIANT TypeOK
PROPERTIES
    AbortReaches
    RollbackPointKept
    CompletesActive
CHECK_DEADLOCK FALSE
