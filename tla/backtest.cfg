CONSTANTS
    NumBars = 4
    CloseAt <- Closes
    Price = {1, 2}
    Lags = {1, 2}
    Buffer = 1
    CostRate = 3
    StartingCash = 0
    Inputs <- PairsOfSignals
    None = None
SPECIFICATION Spec
INVARIANTS
    TypeOK
    DecisionsAreExecutedOnce
    ReportIsRight
    PositionFollowsDecisions
    DecisionsMoveForward
CHECK_DEADLOCK FALSE
