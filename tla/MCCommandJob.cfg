SPECIFICATION Spec
CONSTANTS
    Decisions <- MCDecisions
    MaxPending = 1
INVARIANTS
    TypeOK
    StepOrder
    CompletedAllCommitted
    ActiveNeverSkips
    CancelledQuiesced
    ParkedQuiesced
PROPERTIES
    DoneIsForever
CHECK_DEADLOCK TRUE
