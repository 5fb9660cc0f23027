CONSTANTS
    NumSteps = 8
    MaxAttempts <- DailyMaxAttempts
    AutoRetry <- DailyAutoRetry
    FailureAction <- DailyFailureAction
    Returns <- DailyReturns
    WritesMayFail = TRUE
    MayDie = TRUE
    None = None
    Refresh <- Batches
    Yesterday <- Pasts
    MaxRejections = 1
SPECIFICATION FairChainSpec
INVARIANTS
    TypeOK
    StepsStartInOrder
    VerdictExplained
    AttentionCarriesARequirement
    OutputsAreLinked
    MonitoringAgrees
    FailsOnlyAfterItsAttempts
    SignalsTraceToEvidence
    StepsVouchForTheirOutputs
PROPERTY RunConcludes
CHECK_DEADLOCK FALSE
