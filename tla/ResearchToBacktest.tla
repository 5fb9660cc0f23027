------------------------- MODULE ResearchToBacktest -------------------------
(***************************************************************************)
(* From a published document to a simulated decision: the pipelines of     *)
(* PointInTime write signals, and a backtest over the sessions of the      *)
(* calendar (BacktestSimulation, with one bar per session) reads those     *)
(* that are on file when it starts.                                        *)
(***************************************************************************)
EXTENDS PointInTime

VARIABLES
    given,               \* the signals the backtest runs on, {} before it starts
    lag, bar, phase, open, close, units, cash, costs, turnover, trades, pending,
    decision, fill, held, summary

backtestVars == <<lag, bar, phase, open, close, units, cash, costs, turnover, trades,
                  pending, decision, fill, held, summary>>
vars == <<pipelineVars, given, backtestVars>>

(* The sessions in their order.                                            *)
Sessions == Day \ Weekend
SessionOf ==
    [b \in 1..Cardinality(Sessions) |->
        CHOOSE d \in Sessions : Cardinality({e \in Sessions : e < d}) = b - 1]

(* Prices do not matter to what a decision may know, so there is one.      *)
Backtest == INSTANCE BacktestSimulation
    WITH signals <- given,
         NumBars <- Cardinality(Sessions),
         CloseAt <- [b \in 1..Cardinality(Sessions) |-> CloseOf(SessionOf[b])],
         Price <- {1}, Lags <- {1}, Buffer <- 0, CostRate <- 0, StartingCash <- 0,
         Inputs <- {{}}

(* load_backtest_inputs: the signals of the company, and its features as   *)
(* they are on file now, which may be later ones than the signal was       *)
(* computed from.                                                          *)
Loaded(t) ==
    [id |-> t, effective |-> t, available |-> t,
     features |-> Max({features[d].available : d \in signals[t].features}),
     stance |-> "positive", score |-> 1, allowed |-> TRUE, traceable |-> TRUE]

RunBacktest ==
    /\ given = {}
    /\ given' = {Loaded(t) : t \in {u \in Time : signals[u] # None}}
    /\ given' # {}
    /\ UNCHANGED <<pipelineVars, backtestVars>>

ResearchInit == Init /\ given = {} /\ Backtest!Init

ResearchNext ==
    \/ given = {} /\ PipelineStep /\ UNCHANGED <<given, backtestVars>>
    \/ RunBacktest
    \/ given # {} /\ Backtest!Next /\ UNCHANGED pipelineVars

Spec == ResearchInit /\ [][ResearchNext]_vars

-----------------------------------------------------------------------------
(* Properties.                                                             *)

(* The rule of docs/research/temporal_correctness.md, said without the     *)
(* calendar's operators: a document may influence the decision at the      *)
(* close of a day only if it was published before that day's open.         *)
DecisionKnows(b, d) == Published[d] # None => Published[d] < OpenOf(SessionOf[b])

Influences(b, d) ==
    /\ given # {} /\ decision[b] # None /\ decision[b].signal # None
    /\ d \in signals[decision[b].signal.effective].content

UsedSignal(b) == signals[decision[b].signal.effective]

(* No decision of a backtest is influenced by a dated document that was    *)
(* published after the session it is taken in had opened, through whatever *)
(* sequence of research, feature and signal runs, as long as none of them  *)
(* had to fall back (which leaves an anomaly) and none was a replay.       *)
NoLookAhead ==
    \A b \in 1..Cardinality(Sessions), d \in Document :
        Influences(b, d) =>
            UsedSignal(b).compatible \/ UsedSignal(b).replayed \/ DecisionKnows(b, d)

(* The same without the exception for replays, as the docs have it.        *)
OnlyFallbacksLookAhead ==
    \A b \in 1..Cardinality(Sessions), d \in Document :
        Influences(b, d) => UsedSignal(b).compatible \/ DecisionKnows(b, d)
=============================================================================
