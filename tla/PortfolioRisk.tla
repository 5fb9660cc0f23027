---------------------------- MODULE PortfolioRisk ----------------------------
(***************************************************************************)
(* What is said of a proposal before a reviewer sees it: the attribution   *)
(* and the five stress scenarios of services/portfolio_analysis and the    *)
(* rules of services/risk_engine.  A check names its rule and its subject  *)
(* (the proposal or the signal of an idea) and says whether it blocks.     *)
(***************************************************************************)
EXTENDS PortfolioConstruction

(* One idea per company, so the idea's signal identifies it.               *)
SignalOf(in, idea) == {s \in in.signals : s.id = idea.signal}

-----------------------------------------------------------------------------
(* Attribution.                                                            *)

(* What contributes to one idea, beyond its weight and its evidence.       *)
build_position_attribution(in, idea, selection, limits, sector) ==
    [signal |-> idea.signal,
     arbitrated |-> in.bundle # None /\ in.decision # None,
     headroom |-> IF limits["single_name"] = None THEN None
                  ELSE limits["single_name"] - idea.weight,
     binding |-> {r.type : r \in {x \in selection.results :
                    x.subject = idea.signal /\ x.status # "pass"}},
     sector |-> sector]

ConstraintHeadroom(ideas, limits) ==
    [t \in ActiveTypes(limits, ConstraintType) |-> limits[t] - Observed(ideas)[t]]

build_portfolio_attribution(in, selection, limits, sector) ==
    [positions |-> {build_position_attribution(in, i, selection, limits, sector) :
                        i \in selection.ideas},
     candidates |-> Cardinality(selection.summary.candidates),
     rejected |-> Cardinality(selection.summary.rejected),
     headroom |-> ConstraintHeadroom(selection.ideas, limits),
     binding |-> {r.type : r \in {x \in selection.results :
                    x.subject = TheProposal /\ x.status # "pass"}},
     topSector |-> IF selection.ideas = {} THEN None ELSE sector]

-----------------------------------------------------------------------------
(* Stress tests: each scenario passes or warns.                            *)

Warns(b) == IF b THEN "warn" ELSE "pass"

(* A return shock in percent: a short position gains what a long one       *)
(* loses, and either way 25 basis points of the portfolio are a warning.   *)
ReturnImpact(ideas, percent) ==   \* in hundredths of a basis point
    percent * (Exposure(ideas, "long") - Exposure(ideas, "short"))
ReturnShock(ideas, percent) == Warns(Abs(ReturnImpact(ideas, percent)) >= 2500)

BroadMarketDrawdown(ideas) == ReturnShock(ideas, -10)

(* Without a known sector the scenario cannot be applied, and says so.     *)
SectorSpecificShock(ideas, sector) ==
    IF sector = None \/ ideas = {} THEN "warn" ELSE ReturnShock(ideas, -15)

VolatilityIncrease(ideas) == Warns(\E i \in ideas : 2 * i.weight > MaxWeight)

ConcentrationBreach(ideas) == Warns(\E i \in ideas : i.weight > 250)

(* Confidence and uncertainty are hundredths, each worsened by 25.         *)
DegradedBelowFloor(s) ==
    \/ s.uncertainty = None
    \/ s.confidence - 25 < 40
    \/ s.uncertainty + 25 > 70
ConfidenceDegradation(in, ideas) ==
    Warns(\E i \in ideas : \E s \in SignalOf(in, i) : DegradedBelowFloor(s))

build_scenario_definitions ==
    {"broad_market_drawdown", "sector_specific_shock", "volatility_increase",
     "concentration_breach_stress", "confidence_degradation"}

run_stress_tests(in, ideas, sector) == [scenario \in build_scenario_definitions |->
    CASE scenario = "broad_market_drawdown" -> BroadMarketDrawdown(ideas)
      [] scenario = "sector_specific_shock" -> SectorSpecificShock(ideas, sector)
      [] scenario = "volatility_increase" -> VolatilityIncrease(ideas)
      [] scenario = "concentration_breach_stress" -> ConcentrationBreach(ideas)
      [] OTHER -> ConfidenceDegradation(in, ideas)]

-----------------------------------------------------------------------------
(* Risk checks.                                                            *)

Check(rule, subject, blocking) == [rule |-> rule, subject |-> subject, blocking |-> blocking]
Checks(rule, subjects, blocking) == {Check(rule, x, blocking) : x \in subjects}
When(b) == IF b THEN {TheProposal} ELSE {}

(* Whether the reasoning that built the proposal came with it.             *)
ContextChecks(selection) ==
    LET missing == DOMAIN selection.decisions = {} \/ selection.results = {}
        ours == {TheProposal} \cup {i.signal : i \in selection.ideas}
        binding == \E r \in selection.results : r.status # "pass" /\ r.subject \in ours
    IN  Checks("portfolio_construction_context_missing", When(missing), FALSE)
        \cup Checks("portfolio_construction_binding_constraints",
                    When(~missing /\ binding), FALSE)

ArbitrationChecks(in, conflicts) ==
    LET missing == in.bundle = None \/ in.decision = None
    IN  Checks("signal_arbitration_missing", When(missing), FALSE)
        \cup Checks("signal_arbitration_conflicts_present",
                    When(~missing /\ conflicts # {}), FALSE)

(* Ideas with a property of their signal.                                  *)
IdeasWhere(in, ideas, Test(_)) ==
    {i.signal : i \in {x \in ideas : \E s \in SignalOf(in, x) : Test(s)}}

IdeaChecks(in, ideas, limits) ==
    Checks("single_name_weight_limit",
           {i.signal : i \in {x \in ideas : /\ limits["single_name"] # None
                                            /\ x.weight > limits["single_name"]}}, TRUE)
    \cup Checks("missing_signal", {i.signal : i \in {x \in ideas : SignalOf(in, x) = {}}}, TRUE)
    \cup Checks("signal_review_maturity",
                IdeasWhere(in, ideas, LAMBDA s : s.status = "candidate"
                                              \/ s.validation # "validated"), FALSE)
    \cup Checks("weak_research_support",
                IdeasWhere(in, ideas, LAMBDA s : s.grade \in {"weak", "insufficient"}), TRUE)
    \cup Checks("moderate_research_support",
                IdeasWhere(in, ideas, LAMBDA s : s.grade = "moderate"), FALSE)

Exceeds(observed, limit) == limit # None /\ observed > limit
ExposureChecks(ideas, limits) ==
    LET o == Observed(ideas)
    IN  Checks("gross_exposure_limit",
               When(Exceeds(o["gross_exposure"], limits["gross_exposure"])), TRUE)
        \cup Checks("net_exposure_limit",
                    When(Exceeds(o["net_exposure"], limits["net_exposure"])), TRUE)
        \cup Checks("flat_start_turnover_limit",
                    When(Exceeds(o["turnover"], limits["turnover"])), TRUE)

(* Fewer than three positions, or one of half the gross exposure.          *)
ConcentrationFragile(ideas) ==
    /\ ideas # {}
    /\ \/ Cardinality(ideas) < 3
       \/ \E i \in ideas : 2 * i.weight >= build_exposure_summary(ideas).gross

FragilityChecks(ideas, stress) ==
    Checks("portfolio_concentration_fragility", When(ConcentrationFragile(ideas)), FALSE)
    \cup Checks("portfolio_stress_fragility",
                When(\E sc \in DOMAIN stress : stress[sc] # "pass"), FALSE)

evaluate_portfolio_risk(in, selection, limits, conflicts, stress) ==
    ContextChecks(selection)
    \cup ArbitrationChecks(in, conflicts)
    \cup IdeaChecks(in, selection.ideas, limits)
    \cup ExposureChecks(selection.ideas, limits)
    \cup FragilityChecks(selection.ideas, stress)

blocking_issues(checks) == {c \in checks : c.blocking}
=============================================================================
