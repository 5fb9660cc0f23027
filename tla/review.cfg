CONSTANTS
    brief = brief
    signal = signal
    proposal = proposal
    trade = trade
    Brief = {brief}
    Signal = {}
    Proposal = {proposal}
    Trade = {trade}
    Parent <- OneTrade
    Request = {1, 2, 3}
    Asked <- Everyday
    MaxOpen = 1
    MayDie = TRUE
    None = None
SPECIFICATION Spec
CONSTRAINT OneDeath
INVARIANTS
    TypeOK
    
PROPERTIES
    TradeApprovalsHaveParents
    AdmittedOnce
CHECK_DEADLOCK FALSE
