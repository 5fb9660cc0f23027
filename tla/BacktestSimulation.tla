-------------------------- MODULE BacktestSimulation --------------------------
(***************************************************************************)
(* run_backtest_simulation (services/backtesting/simulation.py): the       *)
(* signals of one company against a path of daily bars.  Every bar opens,  *)
(* which fills the change of position that is due, and closes, which is    *)
(* when the next decision is taken on what is available by then.           *)
(*                                                                         *)
(* The signals are an input; the bars are chosen as they come, so that no  *)
(* decision can depend on a price it has not seen.  Money is counted in    *)
(* basis points of the unit of Price, so that costs stay whole numbers.    *)
(***************************************************************************)
EXTENDS Integers, FiniteSets, FiniteSetsExt

CONSTANTS
    NumBars,       \* bars inside the test window
    CloseAt,       \* the time each bar closes
    Price,         \* prices a bar may open and close at
    Lags,          \* values of ExecutionAssumption.execution_lag_bars
    Buffer,        \* signal_availability_buffer_minutes
    CostRate,      \* transaction cost and slippage together, in basis points
    StartingCash,
    Inputs,        \* the sets of signals a run may be given
    None

Bar == 1..NumBars
Stance == {"positive", "negative", "mixed", "monitor"}
DecisionAction == {"hold_cash", "hold_position", "close_position", "open_long",
                   "open_short", "skip_signal"}

(* A signal or strategy variant signal, as far as its eligibility goes: is  *)
(* its status allowed, is its lineage complete, since when is it available *)
(* (None without a window), and since when are all of its features.        *)
ComparableSignal ==
    [id : Nat, effective : Nat, available : Nat \cup {None}, features : Nat,
     stance : Stance, score : Nat, allowed : BOOLEAN, traceable : BOOLEAN]

StrategyDecision == [signal : ComparableSignal \cup {None}, action : DecisionAction,
                     target : -1..1]
FillEvent == [decision : Bar, quantity : Int, price : Price]
PerformanceSummary == [net : Int, gross : Int, trades : Nat, turnover : Nat, buyAndHold : Int]

ASSUME BacktestAssumption ==
    /\ NumBars \in Nat /\ NumBars >= 2
    /\ CloseAt \in [Bar -> Nat]
    /\ \A b, c \in Bar : b < c => CloseAt[b] < CloseAt[c]
    /\ Price \subseteq Nat \ {0}
    /\ Lags \subseteq Nat \ {0}
    /\ Buffer \in Nat /\ CostRate \in Nat /\ StartingCash \in Nat
    /\ \A given \in Inputs : /\ given \subseteq ComparableSignal /\ IsFiniteSet(given)
                             /\ \A a, b \in given : a.id = b.id => a = b
    /\ None \notin ComparableSignal \cup StrategyDecision \cup FillEvent \cup
                    PerformanceSummary \cup Int

VARIABLES
    signals, lag,        \* what the run is given
    bar, phase,          \* where its loop is
    open, close,         \* the price bars seen so far
    units, cash, costs, turnover, trades,   \* the account
    pending,             \* pending_fills: by bar, the decision to be filled
    decision,            \* StrategyDecision of each bar
    fill,                \* FILL event of each bar that has one
    held,                \* position_after_units of the MARK event of each bar
    summary              \* the performance summary of a run that ended

account == <<units, cash, costs, turnover, trades>>
log == <<decision, fill, held>>
vars == <<signals, lag, bar, phase, open, close, account, pending, log, summary>>

TypeOK ==
    /\ signals \subseteq ComparableSignal /\ lag \in Lags
    /\ bar \in Bar /\ phase \in {"open", "close", "finish", "done", "raised"}
    /\ open \in [Bar -> Price \cup {None}] /\ close \in [Bar -> Price \cup {None}]
    /\ units \in -1..1 /\ cash \in Int /\ costs \in Nat /\ turnover \in Nat /\ trades \in Nat
    /\ pending \in [Bar -> Bar \cup {None}]
    /\ decision \in [Bar -> StrategyDecision \cup {None}]
    /\ fill \in [Bar -> FillEvent \cup {None}]
    /\ held \in [Bar -> -1..1 \cup {None}]
    /\ summary \in PerformanceSummary \cup {None}

Init ==
    /\ signals \in Inputs /\ lag \in Lags
    /\ bar = 1 /\ phase = "open"
    /\ open = [b \in Bar |-> None] /\ close = [b \in Bar |-> None]
    /\ units = 0 /\ cash = StartingCash /\ costs = 0 /\ turnover = 0 /\ trades = 0
    /\ pending = [b \in Bar |-> None]
    /\ decision = [b \in Bar |-> None]
    /\ fill = [b \in Bar |-> None]
    /\ held = [b \in Bar |-> None]
    /\ summary = None

-----------------------------------------------------------------------------
(* The open of a bar.                                                      *)

Magnitude(x) == IF x < 0 THEN 0 - x ELSE x

\* Mutant: the costs of a sale are credited.
FeesOfSide(notional) == notional * CostRate

(* Transaction cost and slippage of a fill.                                *)
Fees(notional) == Magnitude(notional) * CostRate

(* The fill moves the account from the units it has now to the target of   *)
(* the decision that scheduled it.                                         *)
Fill(price) ==
    LET target == decision[pending[bar]].target
        quantity == target - units
        notional == quantity * price
    IN  /\ phase = "open" /\ pending[bar] # None
        /\ open' = [open EXCEPT ![bar] = price]
        /\ units' = target
        /\ cash' = cash - (10000 * notional + Fees(notional))
        /\ costs' = costs + Fees(notional)
        /\ turnover' = turnover + Magnitude(notional)
        /\ trades' = trades + 1
        /\ fill' = [fill EXCEPT ![bar] = [decision |-> pending[bar], quantity |-> quantity,
                                          price |-> price]]
        /\ pending' = [pending EXCEPT ![bar] = None]
        /\ phase' = "close"
        /\ UNCHANGED <<signals, lag, bar, close, decision, held, summary>>

OpenWithoutFill(price) ==
    /\ phase = "open" /\ pending[bar] = None
    /\ open' = [open EXCEPT ![bar] = price]
    /\ phase' = "close"
    /\ UNCHANGED <<signals, lag, bar, close, account, pending, log, summary>>

-----------------------------------------------------------------------------
(* The close of a bar: selection, decision, mark.                          *)

(* _signal_availability_window, is_available_by, _validate_comparable_signal *)
TimingSafe(s) == s.allowed /\ s.available # None
Eligible(s, time) ==
    /\ TimingSafe(s)
    /\ s.available + Buffer <= time
    /\ s.traceable /\ s.features <= time

\* Mutant: the stronger signal wins over the later one.
PreferredByScore(a, b) ==
    \/ a.score > b.score
    \/ a.score = b.score /\ a.effective > b.effective
    \/ a.score = b.score /\ a.effective = b.effective /\ a.id < b.id

(* The later signal, then the stronger one, then the smaller id.           *)
Preferred(a, b) ==
    \/ a.effective > b.effective
    \/ a.effective = b.effective /\ a.score > b.score
    \/ a.effective = b.effective /\ a.score = b.score /\ a.id < b.id

SelectSignal(time) ==
    LET eligible == {s \in signals : Eligible(s, time)} IN
    IF eligible = {} THEN None
    ELSE CHOOSE s \in eligible : \A other \in eligible \ {s} : Preferred(s, other)

TargetUnits(s) ==
    IF s = None THEN 0
    ELSE CASE s.stance = "positive" -> 1 [] s.stance = "negative" -> -1 [] OTHER -> 0

ActionForTarget(target) ==
    IF target = units THEN (IF target = 0 THEN "hold_cash" ELSE "hold_position")
    ELSE CASE target = 0 -> "close_position" [] target > 0 -> "open_long"
           [] OTHER -> "open_short"

\* Mutant: a change that comes too late is scheduled on the last bar.
ExecutesLate(b) == TRUE

(* Is there a bar left to execute on?                                      *)
Executes(b) == b + lag <= NumBars

\* Mutant: the change is executed at the open of the bar it was decided on.
FillBarSame(b) == b + lag - 1

FillBar(b) == b + lag

(* A change of position that no bar is left for is skipped.                *)
Decide(price) ==
    LET selected == SelectSignal(CloseAt[bar])
        proposed == TargetUnits(selected)
        changes == proposed # units
        skipped == changes /\ ~ Executes(bar)
    IN  /\ phase = "close"
        /\ close' = [close EXCEPT ![bar] = price]
        /\ decision' = [decision EXCEPT ![bar] =
             [signal |-> selected,
              action |-> IF skipped THEN "skip_signal" ELSE ActionForTarget(proposed),
              target |-> IF skipped THEN units ELSE proposed]]
        /\ pending' = IF changes /\ ~ skipped
                        THEN [pending EXCEPT ![FillBar(bar)] = bar] ELSE pending
        /\ held' = [held EXCEPT ![bar] = units]
        /\ IF bar < NumBars THEN bar' = bar + 1 /\ phase' = "open"
                            ELSE bar' = bar /\ phase' = "finish"
        /\ UNCHANGED <<signals, lag, open, account, fill, summary>>

-----------------------------------------------------------------------------
(* The summary and the benchmarks.                                         *)

(* The bar on which buy and hold buys its unit.                            *)
FirstExecutableBar == IF lag + 1 <= NumBars THEN lag + 1 ELSE NumBars

\* Mutant: the account is not marked at the final close.
EndingValueOfCash == cash

EndingValue == cash + 10000 * units * close[NumBars]

(* A run none of whose signals has both an allowed status and a window     *)
(* raises instead of reporting.                                            *)
NothingIsTimingSafe == signals # {} /\ \A s \in signals : ~ TimingSafe(s)

Report ==
    /\ phase = "finish" /\ ~ NothingIsTimingSafe
    /\ summary' = [net |-> EndingValue - StartingCash,
                   gross |-> EndingValue + costs - StartingCash,
                   trades |-> trades, turnover |-> turnover,
                   buyAndHold |-> 10000 * (close[NumBars] - open[FirstExecutableBar])]
    /\ phase' = "done"
    /\ UNCHANGED <<signals, lag, bar, open, close, account, pending, log>>

Raise ==
    /\ phase = "finish" /\ NothingIsTimingSafe
    /\ phase' = "raised"
    /\ UNCHANGED <<signals, lag, bar, open, close, account, pending, log, summary>>

Next ==
    \/ \E price \in Price : Fill(price) \/ OpenWithoutFill(price) \/ Decide(price)
    \/ Report \/ Raise

Spec == Init /\ [][Next]_vars

-----------------------------------------------------------------------------
(* Properties.                                                             *)

Reported == summary # None

(* A change that was decided is executed exactly once, `lag` bars later at *)
(* that bar's open, and nothing else is ever executed: never on the bar of *)
(* the decision, and never after the account has moved on to the next bar. *)
Changes(d) == d.action \in {"close_position", "open_long", "open_short"}
OpenedBars == {b \in Bar : open[b] # None}
DecisionsAreExecutedOnce ==
    /\ \A b \in Bar : decision[b] # None /\ Changes(decision[b]) => b + lag \in Bar
    /\ \A b \in OpenedBars : b > lag /\ Changes(decision[b - lag]) =>
         /\ fill[b] # None /\ fill[b].decision = b - lag
         /\ fill[b].price = open[b]
    /\ \A b \in Bar : fill[b] # None =>
         b > lag /\ Changes(decision[b - lag]) /\ fill[b].decision = b - lag

(* The report can be recomputed from the log: gross is what every fill     *)
(* gained up to the final close, net is less the fees of every fill, and   *)
(* the turnover and the units in the account are those of the fills.       *)
Filled == {b \in Bar : fill[b] # None}
AccountsReconcile ==
    Reported =>
    LET Gain(b) == fill[b].quantity * (close[NumBars] - fill[b].price)
        Notional(b) == Magnitude(fill[b].quantity * fill[b].price)
    IN  /\ summary.gross = 10000 * MapThenSumSet(Gain, Filled)
        /\ summary.net = summary.gross - CostRate * MapThenSumSet(Notional, Filled)
        /\ summary.turnover = MapThenSumSet(Notional, Filled)
        /\ units = MapThenSumSet(LAMBDA b : fill[b].quantity, Filled)
        /\ summary.trades = Cardinality(Filled)

(* A strategy that wants to be long from its first decision on makes,      *)
(* before costs, exactly what buy and hold makes.                          *)
AlwaysLongIsBuyAndHold ==
    Reported /\ lag < NumBars /\ (\A b \in Bar : decision[b].target = 1) =>
        summary.gross = summary.buyAndHold

(* The report as a whole, against the log and against the benchmark.       *)
ReportIsRight == AccountsReconcile /\ AlwaysLongIsBuyAndHold

(* With the lag of one bar the docs describe, the position held through a  *)
(* bar is the target of the decision before it, and every trade that is    *)
(* counted moved the position.                                             *)
PositionFollowsDecisions ==
    lag = 1 =>
        /\ \A b \in Bar : held[b] # None => held[b] = (IF b = 1 THEN 0 ELSE decision[b - 1].target)
        /\ \A b \in Bar : fill[b] # None => fill[b].quantity # 0

(* No decision goes back to a signal older than one an earlier decision    *)
(* used, or to no signal: what was available stays available.              *)
DecisionsMoveForward ==
    \A b, c \in Bar :
        /\ b < c /\ decision[c] # None /\ decision[b].signal # None
        => decision[c].signal # None /\ decision[c].signal.effective >= decision[b].signal.effective
=============================================================================
