SPECIFICATION Spec
CONSTANTS
    Decisions <- MCDecisions
    MaxPending = 1
INVARIANTS
    VerifiedOnEvidence
