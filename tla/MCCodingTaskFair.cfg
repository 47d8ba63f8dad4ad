SPECIFICATION FairSpec
CONSTANTS
    f1 = f1
    f2 = f2
    r1 = r1
    r2 = r2
    Files = {f1}
    Runs = {r1, r2}
    Posts = {}
    MaxRevisions = 1
    MaxEdits = 2
PROPERTIES
    HandRecorded
    LoopEnds
CHECK_DEADLOCK FALSE
