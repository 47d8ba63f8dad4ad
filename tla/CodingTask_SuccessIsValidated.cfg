SPECIFICATION Spec
CONSTANTS
    Files = {f1}
    Runs = {r1}
    Posts = {p1}
    f1 = f1
    f2 = f2
    r1 = r1
    r2 = r2
    MaxRevisions = 0
    MaxEdits = 0
PROPERTY SuccessIsValidated
CHECK_DEADLOCK FALSE
