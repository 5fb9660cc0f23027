CONSTANTS
    Trade = {t1}
    Time = {1, 2}
    Price = {1, 2}
    Qty = {1}
    SubmittedAt = 2
    MaxEvents = 3
    OutcomeId = {1}
    None = None
    AllowCrash = FALSE
SPECIFICATION Spec
INVARIANT QuantityHasEntryPrice
CHECK_DEADLOCK FALSE
