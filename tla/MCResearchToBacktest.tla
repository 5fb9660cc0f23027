----------------------- MODULE MCResearchToBacktest -----------------------
(* Four days, the second one without a session.  One document comes before *)
(* the first open, one during the first session, one has no date.          *)
EXTENDS ResearchToBacktest, TLC

CONSTANTS early, session, undated

Publication == early :> 1 @@ session :> 3 @@ undated :> None

OffDays == {1}
Runs == {5, 17, 23}
AsOf == {None, 5}
=============================================================================
