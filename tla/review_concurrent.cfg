CONSTANTS
    brief = brief
    signal = signal
    proposal = proposal
    trade = trade
    Brief = {}
    Signal = {signal}
    Proposal = {proposal}
    Trade = {trade}
    Parent <- OneTrade
    Request = {1, 2}
    Asked <- Actions
    MaxOpen = 2
    MayDie = TRUE
    None = None
SPECIFICATION Spec
INVARIANTS
    DecisionsBackStatuses
    ApprovedIsNeverBlocked
    PositionsWereApproved
CHECK_DEADLOCK FALSE
