SPECIFICATION Spec
CONSTANTS
    Requests <- MCRequests
    Passports <- MCPassports
    LowTierModes = {"shadow", "canary", "enabled"}
    Approved = {"repo_question", "coding_change"}
    MinSamples = 30
INVARIANTS
    RolesAgree
    WishesKept
    PlansFit
PROPERTIES
    AuthorityKept
