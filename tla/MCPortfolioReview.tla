-------------------------- MODULE MCPortfolioReview --------------------------
(***************************************************************************)
(* Small instances of PortfolioReview: a dozen kinds of signal, each one   *)
(* an interesting case of the ranking, in ones, twos and threes.           *)
(***************************************************************************)
EXTENDS PortfolioReview

Signal(id, status, validation, stance, score, effective, grade) ==
    [id |-> id, status |-> status, validation |-> validation, stance |-> stance,
     score |-> score, effective |-> effective, created |-> 1, support |-> {id},
     grade |-> grade, uncertainty |-> 30, confidence |-> 70, family |-> "text",
     lineage |-> TRUE, links |-> TRUE]

Long == Signal(1, "candidate", "pending_validation", "positive", 40, 1, "strong")
Short == Signal(2, "candidate", "pending_validation", "negative", -40, 1, "strong")
Mature == Signal(3, "approved", "validated", "positive", 80, 2, "strong")
Mixed == Signal(4, "approved", "validated", "mixed", 10, 1, "moderate")
Weak == Signal(5, "candidate", "pending_validation", "positive", 60, 1, "weak")
Future == Signal(6, "approved", "validated", "negative", -90, 5, "strong")
Repeat == [Long EXCEPT !.id = 7, !.support = {1}]
Broken == [Long EXCEPT !.id = 8, !.lineage = FALSE]
Unlinked == [Long EXCEPT !.id = 9, !.links = FALSE, !.uncertainty = None]
Expired == Signal(10, "expired", "validated", "negative", -80, 1, "strong")
Later == [Signal(11, "approved", "validated", "negative", -80, 2, "strong") EXCEPT !.created = 3]

Stocks == {{Weak}, {Broken}, {Future}, {Mixed, Unlinked}, {Long, Repeat},
           {Mature, Future, Expired}, {Mixed, Long, Short}, {Mature, Long, Short}}
LateSignals == {Later}

Limit(single, gross) ==
    [single_name |-> single, gross_exposure |-> gross, net_exposure |-> 1000, turnover |-> None]
Asked(asOf, verdict, limits, priced) ==
    [asOf |-> asOf, verdict |-> verdict, limits |-> limits, priced |-> priced,
     ticker |-> TRUE, sector |-> IF asOf = None THEN "tech" ELSE None]
Requests == {Asked(None, "approve", default_portfolio_constraints, FALSE),
             Asked(2, None, Limit(0, 400), TRUE),
             Asked(2, "needs_revision", Limit(300, 1500), TRUE),
             Asked(2, "approve", Limit(300, 1500), TRUE),
             [Asked(2, "approve", Limit(None, 1500), TRUE) EXCEPT !.ticker = FALSE]}

Backtests == {[created |-> 2, cutoff |-> 1, lag |-> 1, cost |-> 5, slippage |-> 2]}
=============================================================================
