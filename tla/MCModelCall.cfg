SPECIFICATION FairCallSpec
CONSTANTS
    c1 = c1
    c2 = c2
    o1 = o1
    Requests = {c1, c2}
    Hosts = {}
    Plans <- OnePlan
    PlanOf <- SamePlan
    Estimates = {1}
    Reports = {1, 5}
    Slack = 1
    Least = 2
    Ttl = 1
    Retention = 1
    Others = {o1}
    Attempts <- TwoAttempts
    Json = {c1}
    Cli = {o1}
    Plausible = 3
    Threshold = 2
INVARIANTS
    CallsAccounted
    OpenedByFailures
PROPERTIES
    CallEnds
CHECK_DEADLOCK FALSE
