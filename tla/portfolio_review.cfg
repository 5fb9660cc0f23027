CONSTANTS
    None = None
    Stock <- Stocks
    Late <- LateSignals
    Request <- Requests
    Backtest <- Backtests
    FirstDay = 3
    MaxRuns = 2
    MaxReviews = 1
    MayDie = TRUE
SPECIFICATION Spec
INVARIANTS
    TypeOK
    SelectionIsDefensible
    ApprovalCoversContent
    TradesComeFromApprovals
PROPERTY ConclusionsAreBorneOut
CHECK_DEADLOCK FALSE
