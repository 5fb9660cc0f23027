CONSTANTS
    brief = brief
    signal = signal
    proposal = proposal
    trade = trade
    Brief = {}
    Signal = {}
    Proposal = {proposal}
    Trade = {trade}
    Parent <- OneTrade
    Request = {1, 2, 3}
    Asked <- Verdicts
    MaxOpen = 2
    MayDie = FALSE
    None = None
SPECIFICATION Spec
PROPERTY TradeApprovalsHaveParents
CHECK_DEADLOCK FALSE
