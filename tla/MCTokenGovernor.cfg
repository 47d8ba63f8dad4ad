SPECIFICATION Spec
CONSTANTS
    c1 = c1
    c2 = c2
    h1 = h1
    Requests = {c1, c2, h1}
    Hosts = {h1}
    Plans <- TwoPlans
    Estimates = {1, 2}
    Reports = {0, 3, 5}
    Slack = 1
    Least = 2
    Ttl = 1
    Retention = 1
SYMMETRY Symmetry
INVARIANTS
    TypeOK
    WriteThrough
    NoOverdraft
PROPERTY Implements
