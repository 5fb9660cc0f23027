---------------------------- MODULE Reconciliation ----------------------------
(***************************************************************************)
(* services/backtest_reconciliation: the assumptions a backtest and a      *)
(* paper proposal run under, and the report that compares them.  Times are *)
(* days.  `run` is the backtest run: its decision cutoff, its lag in bars  *)
(* and its costs in basis points.                                          *)
(***************************************************************************)
EXTENDS PortfolioConstruction

Severity == [info |-> 0, low |-> 1, medium |-> 2, high |-> 3, critical |-> 4]

-----------------------------------------------------------------------------
(* The assumptions of the two sides.                                       *)

build_backtest_execution_timing_rule(run) ==
    [anchor |-> "next_session_open", approval |-> FALSE, lag |-> run.lag]
build_backtest_fill_assumption ==
    [price |-> "synthetic_next_bar_open", quantity |-> "unit_position"]
build_backtest_cost_model(run) == [transaction |-> run.cost, slippage |-> run.slippage]

build_paper_execution_timing_rule ==
    [anchor |-> "no_automatic_execution", approval |-> TRUE, lag |-> None]

(* The price basis and the quantity basis follow what the trades carry.    *)
build_paper_fill_assumption(trades) ==
    [price |-> IF \E t \in trades : t.priced THEN "assumed_reference_price"
               ELSE "no_price_materialized",
     quantity |-> IF \E t \in trades : t.sized THEN "notional_divided_by_reference_price"
                  ELSE "not_materialized"]

(* Every trade estimates the same slippage; without trades there is none.  *)
SlippageEstimate == 5
build_paper_cost_model(trades) ==
    [transaction |-> None, slippage |-> IF trades = {} THEN None ELSE SlippageEstimate]

Warning(kind, severity) == [kind |-> kind, severity |-> severity]

build_backtest_realism_warnings ==
    {Warning("synthetic_price_fixture", "high"),
     Warning("unit_position_simplification", "medium"),
     Warning("fixed_bps_costs", "medium"),
     Warning("no_intraday_microstructure", "medium")}

build_paper_realism_warnings(trades) ==
    {Warning("no_paper_fill_simulation", "high"),
     Warning("estimate_only_paper_cost_model", "medium"),
     Warning(IF \E t \in trades : t.priced THEN "manual_reference_price"
             ELSE "missing_reference_price", "medium")}

(* What propose_trades records of a batch, with or without trades.         *)
build_paper_realism_context(trades) ==
    [timing |-> build_paper_execution_timing_rule,
     fill |-> build_paper_fill_assumption(trades),
     cost |-> build_paper_cost_model(trades),
     warnings |-> build_paper_realism_warnings(trades)]

build_backtest_realism_context(run) ==
    [timing |-> build_backtest_execution_timing_rule(run),
     fill |-> build_backtest_fill_assumption,
     cost |-> build_backtest_cost_model(run),
     warnings |-> build_backtest_realism_warnings]

-----------------------------------------------------------------------------
(* Mismatches.                                                             *)

Mismatch(kind, severity, blocking) == [kind |-> kind, severity |-> severity, blocking |-> blocking]
If(b, m) == IF b THEN {m} ELSE {}

(* A lag is a mismatch of its own, because paper trades have none.         *)
detect_assumption_mismatches(bt, paper) ==
    If(bt.timing.anchor # paper.timing.anchor,
       Mismatch("execution_anchor_mismatch", "high", FALSE))
    \cup If(bt.timing.lag # 0, Mismatch("lag_mismatch", "medium", FALSE))
    \cup If(bt.cost # paper.cost, Mismatch("cost_model_mismatch", "medium", FALSE))
    \cup If(bt.fill.price # paper.fill.price,
            Mismatch("fill_price_basis_mismatch", "high", FALSE))
    \cup If(bt.fill.quantity # paper.fill.quantity,
            Mismatch("quantity_basis_mismatch", "medium", FALSE))
    \cup If(bt.timing.approval # paper.timing.approval,
            Mismatch("approval_requirement_mismatch", "high", FALSE))

(* next_us_equities_open after the proposal's as-of time, one day later.   *)
NextOpen(day) == day + 1

(* The signals of the proposal's ideas, the trades' submission, the review *)
(* decision and the cutoff of the backtest, against one another.           *)
detect_availability_mismatches(proposal, asOf, trades, signals, run, decidedAt) ==
    LET effective == {s.effective : s \in {x \in signals :
                        \E i \in proposal.ideas : i.signal = x.id}}
        latest == Max(effective)
    IN  If(effective # {} /\ asOf < latest,
           Mismatch("proposal_before_signal_effective_at", "critical", TRUE))
        \cup If(\E t \in trades : \E s \in signals :
                    s.id = t.idea.signal /\ t.submitted < s.effective,
                Mismatch("trade_submitted_before_signal_effective_at", "high", TRUE))
        \cup If(decidedAt # None /\ decidedAt > NextOpen(asOf),
                Mismatch("approval_after_backtest_execution_window", "high", FALSE))
        \cup If(effective # {} /\ latest > run.cutoff,
                Mismatch("backtest_timing_inconsistency", "high", TRUE))

highest_severity(items) ==
    IF items = {} THEN "info"
    ELSE CHOOSE s \in {i.severity : i \in items} :
        \A i \in items : Severity[i.severity] <= Severity[s]

(* A review that has not happened, or happened after the as-of time, is a  *)
(* delay the backtest did not model.                                       *)
ApprovalDelay(asOf, decidedAt) ==
    If(decidedAt = None \/ decidedAt > asOf, Warning("approval_delay_unmodeled", "high"))

build_report(proposal, asOf, trades, signals, run, decidedAt, paper) ==
    LET bt == build_backtest_realism_context(run)
        mismatches == detect_assumption_mismatches(bt, paper)
            \cup detect_availability_mismatches(proposal, asOf, trades, signals, run, decidedAt)
        warnings == bt.warnings \cup paper.warnings \cup ApprovalDelay(asOf, decidedAt)
    IN  [mismatches |-> mismatches, warnings |-> warnings,
         severity |-> highest_severity(mismatches \cup warnings),
         consistent |-> ~\E m \in mismatches : m.blocking]

-----------------------------------------------------------------------------
(* What makes the reconciliation give up, with a ValueError.               *)

(* It reads back the files of the pipeline that called it, and with a      *)
(* cutoff only those created by then.  A proposal without ideas belongs to *)
(* no company, and the backtest must be the only one of the company.       *)
VisibleRuns(cutoff, runs) == {r \in runs : cutoff = None \/ r.created <= cutoff}
CannotReconcile(proposal, cutoff, runs) ==
    \/ cutoff # None /\ proposal.created > cutoff
    \/ proposal.ideas = {}
    \/ Cardinality(VisibleRuns(cutoff, runs)) # 1
=============================================================================
