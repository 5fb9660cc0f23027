CONSTANTS
    None = None
    NumBars = 5
    CloseAt <- Closes
    Buffer = 0
    CostRate = 3
    StartingCash = 0
    Slice <- AllDay
    Now = 60
    VariantOrder <- Order
    Scenarios <- Asked
    MaxFaults = 1
SPECIFICATION Spec
INVARIANTS
    CompletedExperimentsAreWhole
    NoVariantReadsAhead
    ComparisonIsHonest
CHECK_DEADLOCK FALSE
