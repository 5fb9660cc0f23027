\* One trade, every prefix of every operation's writes.
CONSTANTS
    Trade = {t1}
    Time = {1}
    Price = {1}
    Qty = {1}
    SubmittedAt = 1
    OutcomeId = {1}
    MaxEvents = 2
    None = None
    AllowCrash = TRUE
SPECIFICATION Spec
INVARIANTS NoOrphans OutcomesDescribeTheEnd NoInventedPnl
PROPERTIES TerminalIsFinal ImplementsLifecycle
CHECK_DEADLOCK FALSE
