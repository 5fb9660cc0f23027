\* One trade with marks that move, no crash: the history explains the state.
CONSTANTS
    Trade = {t1}
    Time = {1, 2}
    Price = {1, 2}
    Qty = {1}
    SubmittedAt = 2
    MaxEvents = 3
    OutcomeId = {1}
    None = None
    AllowCrash = FALSE
SPECIFICATION Spec
INVARIANTS TypeOK FilesAgree
CHECK_DEADLOCK FALSE
