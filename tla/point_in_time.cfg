CONSTANTS
    None = None
    early = early
    session = session
    undated = undated
    NumDays = 4
    Weekend <- OffDays
    Document = {early, session, undated}
    Published <- Publication
    Clock <- Runs
    Cutoff <- AsOf
SPECIFICATION Spec
INVARIANTS
    TypeOK
    CutoffsAreHonoured
    NoLookAhead
CHECK_DEADLOCK FALSE
