------------------------ MODULE PortfolioConstruction ------------------------
(***************************************************************************)
(* From the signals of one company to a portfolio proposal                 *)
(* (services/portfolio): what the loader lets construction see, which      *)
(* candidates are rejected and why, which one gets the company's single    *)
(* slot, and at what weight under which limits.                            *)
(*                                                                         *)
(* `in` is what load_portfolio_inputs returns: the visible signals, the    *)
(* signal bundle and its decision (or None), and whether the company's     *)
(* metadata names a ticker.  `limits` gives each constraint type its hard  *)
(* limit in basis points, or None without an active constraint.            *)
(***************************************************************************)
EXTENDS SignalArbitration, FiniteSetsExt

ConstraintType == {"single_name", "gross_exposure", "net_exposure", "turnover"}

default_portfolio_constraints ==
    [single_name |-> 500, gross_exposure |-> 1500,
     net_exposure |-> 1000, turnover |-> 1500]

-----------------------------------------------------------------------------
(* The loader.                                                             *)

\* Mutant: a signal that has not taken effect yet counts.
VisibleByCreation(signals, asOf) ==
    {s \in signals : asOf = None \/ s.created <= asOf}

(* Point in time: a signal counts once it exists and has taken effect.     *)
VisibleSignals(signals, asOf) ==
    {s \in signals : asOf = None \/ (s.created <= asOf /\ s.effective <= asOf)}

(* Without a bundle and its decision every signal is used; with them, the  *)
(* company's signals stay only while the primary signal is among them.     *)
SelectedSignals(visible, bundle, decision) ==
    IF bundle = None \/ decision = None THEN visible
    ELSE IF \E s \in visible : s.id = decision.primary THEN visible ELSE {}

load_portfolio_inputs(signals, bundle, decision, ticker, asOf) ==
    LET visible == VisibleSignals(signals, asOf)
    IN  [signals |-> SelectedSignals(visible, bundle, decision),
         bundle |-> bundle,
         decision |-> IF bundle = None THEN None ELSE decision,
         ticker |-> ticker]

PrimaryOf(in) == IF in.decision = None THEN None ELSE in.decision.primary
PrimaryWithheld(in) == in.bundle # None /\ in.decision # None /\ PrimaryOf(in) = None

-----------------------------------------------------------------------------
(* Candidates and their order.                                             *)

RejectionReasons == {"signal_status_ineligible", "non_directional_stance",
                     "missing_symbol", "missing_supporting_evidence"}
RejectionReason(in, s) ==
    IF s.status \notin {"candidate", "approved"} THEN "signal_status_ineligible"
    ELSE IF s.stance \in {"mixed", "monitor"} THEN "non_directional_stance"
    ELSE IF ~in.ticker THEN "missing_symbol"
    ELSE IF ~s.links THEN "missing_supporting_evidence"
    ELSE None

Eligible(in) == {s \in in.signals : RejectionReason(in, s) = None}

MaturityBucket(s) ==
    IF s.status = "approved" /\ s.validation = "validated" THEN 4
    ELSE IF s.status = "approved" THEN 3
    ELSE IF s.validation = "validated" THEN 2
    ELSE 1

SubstantiveRankKey(in, s) ==
    <<IF s.id = PrimaryOf(in) THEN 1 ELSE 0, MaturityBucket(s), Abs(s.score), s.effective>>

(* The larger key first, and of equal ones the larger identifier.          *)
RanksBefore(in, s, t) ==
    LexLess(Append(SubstantiveRankKey(in, t), t.id), Append(SubstantiveRankKey(in, s), s.id))

RankedForConstruction(in) ==
    LET E == Eligible(in)
    IN  [i \in 1..Cardinality(E) |->
            CHOOSE s \in E : Cardinality({t \in E : RanksBefore(in, t, s)}) = i - 1]

(* The candidates no substantive key separates from the first one.         *)
TopTied(in) ==
    LET ranked == RankedForConstruction(in)
    IN  {s \in Eligible(in) : SubstantiveRankKey(in, s) = SubstantiveRankKey(in, ranked[1])}

UnresolvedOpposingTie(in) ==
    /\ Eligible(in) # {}
    /\ Cardinality({s.stance : s \in TopTied(in)}) > 1

-----------------------------------------------------------------------------
(* Weights and limits.                                                     *)

Side(s) == IF s.stance = "positive" THEN "long" ELSE "short"
BaseWeight(s) == IF MaturityBucket(s) = 4 THEN 500 ELSE 300
MaxWeight == 500

(* A limit of zero is read as no limit given: `hard_limit or max_weight`.  *)
SingleNameLimit(limits) ==
    IF limits["single_name"] = 0 THEN MaxWeight ELSE limits["single_name"]

FinalWeight(s, limits) ==
    IF limits["single_name"] = None THEN BaseWeight(s)
    ELSE Least(Least(BaseWeight(s), SingleNameLimit(limits)), MaxWeight)

(* A result and a risk check have a signal of the proposal as their        *)
(* subject, or the proposal itself.                                        *)
TheProposal == None

Result(subject, type, observed, limit) ==
    [subject |-> subject, type |-> type,
     status |-> IF observed > limit THEN "fail"
                ELSE IF observed = limit /\ observed > 0 THEN "warn" ELSE "pass"]

(* The cap on one name binds when it lowers the weight or is just met.     *)
SingleNameResult(s, limits) ==
    [subject |-> s.id, type |-> "single_name",
     status |-> IF FinalWeight(s, limits) < BaseWeight(s)
                   \/ FinalWeight(s, limits) = SingleNameLimit(limits)
                THEN "warn" ELSE "pass"]

Exposure(ideas, side) ==
    MapThenSumSet(LAMBDA i : i.weight, {i \in ideas : i.side = side})

build_exposure_summary(ideas) ==
    LET long == Exposure(ideas, "long")  short == Exposure(ideas, "short")
    IN  [gross |-> long + short, net |-> long - short,
         turnover |-> long + short, count |-> Cardinality(ideas)]

Observed(ideas) ==
    LET e == build_exposure_summary(ideas)
    IN  [single_name |-> Max({i.weight : i \in ideas} \cup {0}),
         gross_exposure |-> e.gross, net_exposure |-> Abs(e.net),
         turnover |-> e.turnover]

Idea(s, limits) == [signal |-> s.id, side |-> Side(s), weight |-> FinalWeight(s, limits)]

ActiveTypes(limits, types) == {t \in types : limits[t] # None}

(* The proposal as it would be with the candidate in it.                   *)
ProjectedResults(s, limits) ==
    {Result(s.id, t, Observed({Idea(s, limits)})[t], limits[t]) :
        t \in ActiveTypes(limits, ConstraintType \ {"single_name"})}

CandidateResults(s, limits) ==
    ProjectedResults(s, limits)
        \cup IF limits["single_name"] = None THEN {} ELSE {SingleNameResult(s, limits)}

FinalResults(ideas, limits) ==
    {Result(TheProposal, t, Observed(ideas)[t], limits[t]) :
        t \in ActiveTypes(limits, ConstraintType)}

Breaches(s, limits) == {r \in CandidateResults(s, limits) : r.status = "fail"}

-----------------------------------------------------------------------------
(* build_portfolio_selection.                                              *)

(* The candidates in rank order, and the place of the first one that no    *)
(* limit rejects, 0 when there is none.                                    *)
Survivor(ranked, limits) ==
    LET fits == {i \in 1..Len(ranked) : Breaches(ranked[i], limits) = {}}
    IN  IF fits = {} THEN 0 ELSE Min(fits)

Ranking(in, limits) ==
    [order |-> RankedForConstruction(in), n |-> Survivor(RankedForConstruction(in), limits),
     tie |-> UnresolvedOpposingTie(in)]

Included(weight) == [outcome |-> "included", reason |-> None, weight |-> weight]
Rejected(reason) == [outcome |-> "rejected", reason |-> reason, weight |-> 0]

(* Every candidate in turn; once one is in, the others rank behind it, and *)
(* the file of a decision holds the last one written for its signal.       *)
RankedDecision(ranking, limits, s) ==
    IF ranking.n = 0 THEN Rejected("portfolio_constraint_breach")
    ELSE IF s = ranking.order[ranking.n] THEN Included(FinalWeight(s, limits))
    ELSE Rejected("lower_ranked_same_company_candidate")

TieDecision(in, s) ==
    Rejected(IF s \in TopTied(in) THEN "unresolved_opposing_tie"
             ELSE "higher_priority_conflict_unresolved")

ConstructionDecision(in, ranking, limits, s) ==
    IF RejectionReason(in, s) # None THEN Rejected(RejectionReason(in, s))
    ELSE IF ranking.tie THEN TieDecision(in, s) ELSE RankedDecision(ranking, limits, s)

(* The construction decision of every candidate signal, by its identifier. *)
ConstructionDecisions(in, ranking, limits) ==
    [id \in {s.id : s \in in.signals} |->
        ConstructionDecision(in, ranking, limits, CHOOSE s \in in.signals : s.id = id)]

PositionIdeas(in, decisions, limits) ==
    {Idea(s, limits) : s \in {c \in in.signals : decisions[c.id].outcome = "included"}}

(* The candidates construction tried before it found the survivor.         *)
Tried(ranking) ==
    IF ranking.tie THEN {}
    ELSE {ranking.order[i] :
            i \in 1..(IF ranking.n = 0 THEN Len(ranking.order) ELSE ranking.n)}

SelectionConflicts(ranking, ideas) ==
    IF ranking.tie THEN {"unresolved_opposing_tie"}
    ELSE IF ideas # {} /\ Len(ranking.order) > 1
    THEN {"same_company_candidate_competition"} ELSE {}

SelectionSummary(decisions, ideas, results) ==
    [candidates |-> DOMAIN decisions,
     included |-> {i.signal : i \in ideas},
     rejected |-> {id \in DOMAIN decisions : decisions[id].outcome = "rejected"},
     binding |-> {r.type : r \in {x \in results : x.status # "pass"}}]

(* A withheld primary leaves an empty selection without decisions.         *)
EmptySelection ==
    [decisions |-> <<>>, ideas |-> {}, results |-> {}, conflicts |-> {},
     summary |-> [candidates |-> {}, included |-> {}, rejected |-> {}, binding |-> {}]]

Selection(ranking, limits, decisions, ideas) ==
    LET results == FinalResults(ideas, limits)
                   \cup UNION {CandidateResults(s, limits) : s \in Tried(ranking)}
    IN  [decisions |-> decisions, ideas |-> ideas, results |-> results,
         conflicts |-> SelectionConflicts(ranking, ideas),
         summary |-> SelectionSummary(decisions, ideas, results)]

RankedSelection(in, limits, ranking) ==
    LET decisions == ConstructionDecisions(in, ranking, limits)
    IN  Selection(ranking, limits, decisions, PositionIdeas(in, decisions, limits))

build_portfolio_selection(in, limits) ==
    IF PrimaryWithheld(in) THEN EmptySelection
    ELSE RankedSelection(in, limits, Ranking(in, limits))

(* The proposal leaves construction unreviewed, whatever was on file.      *)
build_portfolio_proposal(in, selection, generatedAt) ==
    [ideas |-> selection.ideas,
     exposure |-> build_exposure_summary(selection.ideas),
     arbitrated |-> in.bundle # None /\ in.decision # None,
     primary |-> PrimaryOf(in),
     status |-> "pending_review", decisions |-> 0,
     checks |-> {}, mapping |-> None, scorecard |-> FALSE, created |-> generatedAt]
=============================================================================
