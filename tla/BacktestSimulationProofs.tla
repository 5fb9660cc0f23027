----------------------- MODULE BacktestSimulationProofs -----------------------
(***************************************************************************)
(* What holds of a backtest simulation for every number of bars, every     *)
(* price path, lag and cost, and every finite set of signals.              *)
(***************************************************************************)
EXTENDS BacktestSimulation, FiniteSetTheorems, WellFoundedInduction, TLAPS

-----------------------------------------------------------------------------
(* The selection is well defined.                                          *)

(* Signals with different ids are comparable, and preference is an order.  *)
LEMMA PreferenceOrders ==
    /\ \A a, b \in ComparableSignal : a.id # b.id => Preferred(a, b) \/ Preferred(b, a)
    /\ \A a, b \in ComparableSignal : Preferred(a, b) => ~ Preferred(b, a)
    /\ \A a, b, c \in ComparableSignal : Preferred(a, b) /\ Preferred(b, c) => Preferred(a, c)
<1>1. \A a \in ComparableSignal : a.id \in Nat /\ a.effective \in Nat /\ a.score \in Nat
  BY DEF ComparableSignal
<1>2. QED
  BY <1>1 DEF Preferred

(* A finite nonempty set of signals has one that nothing is preferred to:  *)
(* one whose set of preferred signals is least.                            *)
LEMMA MostPreferredExists ==
    ASSUME NEW E, IsFiniteSet(E), E # {}, E \subseteq ComparableSignal
    PROVE  \E s \in E : \A o \in E : ~ Preferred(o, s)
<1> DEFINE Better(s) == {o \in E : Preferred(o, s)}
<1> DEFINE T == {Better(s) : s \in E}
<1>1. T \subseteq FiniteSubsetsOf(E)
  <2>1. \A s \in E : Better(s) \in SUBSET E
    OBVIOUS
  <2>2. \A S \in SUBSET E : IsFiniteSet(S)
    BY FS_Subset
  <2>3. QED
    BY <2>1, <2>2 DEF FiniteSubsetsOf
<1>2. T # {}
  OBVIOUS
<1>3. PICK S \in T : \A R \in T : ~ (<<R, S>> \in StrictSubsetOrdering(E))
  <2> HIDE DEF T
  <2>1. IsWellFoundedOn(StrictSubsetOrdering(E), FiniteSubsetsOf(E))
    BY FS_StrictSubsetOrderingWellFounded
  <2>2. QED
    BY <1>1, <1>2, <2>1, WFMin
<1>4. PICK s \in E : S = Better(s)
  OBVIOUS
<1>5. ASSUME NEW o \in E, Preferred(o, s)
      PROVE  FALSE
  <2>1. Better(o) \subseteq Better(s)
    BY <1>5, PreferenceOrders
  <2>2. o \in Better(s) /\ o \notin Better(o)
    BY <1>5, PreferenceOrders
  <2>3. Better(o) \in T
    OBVIOUS
  <2>4. <<Better(o), Better(s)>> \in StrictSubsetOrdering(E)
    BY <2>1, <2>2 DEF StrictSubsetOrdering
  <2>5. QED
    BY <1>3, <1>4, <2>3, <2>4
<1>6. QED
  BY <1>5

(* Whatever signals a run is given, a decision selects an eligible one     *)
(* that is preferred to all others, or none when none is eligible.         *)
THEOREM SelectionIsWellDefined ==
    ASSUME signals \in Inputs, NEW time
    PROVE  LET eligible == {s \in signals : Eligible(s, time)} IN
           IF eligible = {} THEN SelectSignal(time) = None
           ELSE /\ SelectSignal(time) \in eligible
                /\ \A o \in eligible \ {SelectSignal(time)} : Preferred(SelectSignal(time), o)
<1> DEFINE E == {s \in signals : Eligible(s, time)}
<1>1. /\ signals \subseteq ComparableSignal /\ IsFiniteSet(signals)
      /\ \A a, b \in signals : a.id = b.id => a = b
  BY BacktestAssumption
<1>2. CASE E = {}
  BY <1>2 DEF SelectSignal
<1>3. CASE E # {}
  <2>1. IsFiniteSet(E) /\ E \subseteq ComparableSignal
    BY <1>1, FS_Subset
  <2>2. PICK s \in E : \A o \in E : ~ Preferred(o, s)
    <3> HIDE DEF E
    <3>1. QED
      BY <1>3, <2>1, MostPreferredExists
  <2>3. \A o \in E \ {s} : Preferred(s, o)
    BY <1>1, <2>1, <2>2, PreferenceOrders
  <2>4. SelectSignal(time) = CHOOSE x \in E : \A o \in E \ {x} : Preferred(x, o)
    BY <1>3 DEF SelectSignal
  <2>5. SelectSignal(time) \in E /\ \A o \in E \ {SelectSignal(time)} : Preferred(SelectSignal(time), o)
    <3> HIDE DEF E
    <3>1. QED
      BY <2>3, <2>4
  <2>6. QED
    BY <1>3, <2>5
<1>4. QED
  BY <1>2, <1>3

-----------------------------------------------------------------------------
(* The inductive invariant.                                                *)

IsOpened(b) == b < bar \/ (b = bar /\ phase # "open")
IsDecided(b) == b < bar \/ (b = bar /\ phase \notin {"open", "close"})

(* A change decided `lag` bars before b is due at b.                       *)
IsDue(b) == b > lag /\ decision[b - lag] # None /\ Changes(decision[b - lag])

(* Where the loop is decides which entries the logs have.                  *)
LogsFollowTheLoop ==
    /\ signals \in Inputs
    /\ phase \in {"finish", "done", "raised"} => bar = NumBars
    /\ \A b \in Bar :
         /\ (open[b] # None) <=> IsOpened(b)
         /\ (decision[b] # None) <=> IsDecided(b)
         /\ (held[b] # None) <=> IsDecided(b)
         /\ (close[b] # None) <=> IsDecided(b)

(* A due change is pending until its bar opens, and filled from then on.   *)
ScheduleInv ==
    \A b \in Bar :
        /\ decision[b] # None /\ Changes(decision[b]) => b + lag \in Bar
        /\ (pending[b] # None) <=> (~ IsOpened(b) /\ IsDue(b))
        /\ pending[b] # None => pending[b] = b - lag
        /\ (fill[b] # None) <=> (IsOpened(b) /\ IsDue(b))
        /\ fill[b] # None => fill[b].decision = b - lag /\ fill[b].price = open[b]

SelectionInv ==
    \A b \in Bar : decision[b] # None => decision[b].signal = SelectSignal(CloseAt[b])

(* With a lag of one bar a change is pending only until the next open.     *)
FollowInv ==
    lag = 1 =>
        /\ PositionFollowsDecisions
        /\ bar = 1 => units = 0
        /\ bar > 1 =>
             IF phase = "open" /\ pending[bar] # None
             THEN decision[bar - 1].target # units
             ELSE decision[bar - 1].target = units

IInv == TypeOK /\ LogsFollowTheLoop /\ ScheduleInv /\ SelectionInv /\ FollowInv

-----------------------------------------------------------------------------
(* Facts about the constants and the operators of the actions.             *)

LEMMA ConstantFacts ==
    /\ NumBars \in Nat /\ NumBars >= 2
    /\ \A b \in Bar : b \in Nat /\ b >= 1
    /\ \A l \in Lags : l \in Nat /\ l >= 1
    /\ \A price \in Price : price \in Nat
    /\ CostRate \in Nat /\ StartingCash \in Nat
    /\ None \notin StrategyDecision /\ None \notin FillEvent /\ None \notin Int
    /\ None \notin ComparableSignal /\ None \notin PerformanceSummary
BY BacktestAssumption DEF Bar

(* A fill's fees are never negative, whichever side it is on. *)
LEMMA FeesTyped ==
    ASSUME NEW notional \in Int
    PROVE  Fees(notional) \in Nat /\ Magnitude(notional) \in Nat
<1>1. Magnitude(notional) \in Nat
  BY DEF Magnitude
<1>2. \A x \in Nat, y \in Nat : x * y \in Nat
  OBVIOUS
<1>3. QED
  BY <1>1, <1>2, ConstantFacts DEF Fees

LEMMA SelectionTyped ==
    ASSUME signals \in Inputs, NEW time
    PROVE  SelectSignal(time) \in ComparableSignal \cup {None}
<1>1. signals \subseteq ComparableSignal
  BY BacktestAssumption
<1>2. QED
  BY <1>1, SelectionIsWellDefined

LEMMA TargetTyped ==
    ASSUME NEW s \in ComparableSignal \cup {None}
    PROVE  TargetUnits(s) \in -1..1
BY DEF TargetUnits, ComparableSignal

(* The action of a decision is a change exactly if it moves the position.  *)
LEMMA ActionIsChange ==
    ASSUME NEW target \in -1..1, units \in -1..1
    PROVE  /\ ActionForTarget(target) \in DecisionAction
           /\ (ActionForTarget(target) \in {"close_position", "open_long", "open_short"})
                <=> (target # units)
BY DEF ActionForTarget, DecisionAction

(* What one decision adds to the log and to the schedule.                  *)
LEMMA DecideWrites ==
    ASSUME IInv, NEW price \in Price, Decide(price)
    PROVE  \E d \in StrategyDecision :
              /\ decision' = [decision EXCEPT ![bar] = d]
              /\ d.signal = SelectSignal(CloseAt[bar])
              /\ IF Changes(d) THEN d.target # units /\ bar + lag <= NumBars
                               ELSE d.target = units
              /\ pending' = IF Changes(d) THEN [pending EXCEPT ![bar + lag] = bar] ELSE pending
<1> DEFINE selected == SelectSignal(CloseAt[bar])
           proposed == TargetUnits(selected)
           changes == proposed # units
           skipped == changes /\ ~ Executes(bar)
           act == IF skipped THEN "skip_signal" ELSE ActionForTarget(proposed)
           d == [signal |-> selected, action |-> act,
                 target |-> IF skipped THEN units ELSE proposed]
<1>1. signals \in Inputs /\ units \in -1..1
  BY DEF IInv, LogsFollowTheLoop, TypeOK
<1>2. selected \in ComparableSignal \cup {None}
  BY <1>1, SelectionTyped
<1>3. proposed \in -1..1
  BY <1>2, TargetTyped
<1>4. decision' = [decision EXCEPT ![bar] = d]
  BY DEF Decide
<1>5. pending' = IF changes /\ ~ skipped THEN [pending EXCEPT ![bar + lag] = bar] ELSE pending
  BY DEF Decide, FillBar
<1> HIDE DEF selected, proposed
<1>6. /\ ActionForTarget(proposed) \in DecisionAction
      /\ (ActionForTarget(proposed) \in {"close_position", "open_long", "open_short"}) <=> changes
  BY <1>1, <1>3, ActionIsChange
<1>7. act \in DecisionAction
  BY <1>6 DEF DecisionAction
<1>8. d \in StrategyDecision
  BY <1>1, <1>2, <1>3, <1>7 DEF StrategyDecision
<1>9. Changes(d) <=> changes /\ ~ skipped
  BY <1>6 DEF Changes
<1>10. Changes(d) => d.target # units /\ bar + lag <= NumBars
  BY <1>9 DEF Executes
<1>11. ~ Changes(d) => d.target = units
  BY <1>9
<1>12. d.signal = SelectSignal(CloseAt[bar])
  BY DEF selected
<1>13. QED
  <2> HIDE DEF d, changes, skipped
  <2>1. QED
    BY <1>4, <1>5, <1>8, <1>9, <1>10, <1>11, <1>12

-----------------------------------------------------------------------------
(* The invariant holds initially and every step preserves it.              *)

LEMMA InitIInv == Init => IInv
<1> SUFFICES ASSUME Init PROVE IInv
  OBVIOUS
<1>1. TypeOK
  <2>1. signals \subseteq ComparableSignal
    BY BacktestAssumption DEF Init
  <2>2. QED
    BY <2>1, ConstantFacts DEF Init, TypeOK, Bar
<1>2. LogsFollowTheLoop
  BY ConstantFacts DEF Init, LogsFollowTheLoop, IsOpened, IsDecided
<1>3. ScheduleInv
  <2>1. \A b \in Bar : ~ IsOpened(b)
    BY ConstantFacts DEF Init, IsOpened
  <2>2. \A b \in Bar : decision[b] = None /\ pending[b] = None /\ fill[b] = None
    BY DEF Init
  <2>3. \A b \in Bar : ~ IsDue(b)
    <3>1. \A b \in Bar : b > lag => b - lag \in Bar
      BY ConstantFacts DEF Init, Bar
    <3>2. QED
      BY <2>2, <3>1 DEF IsDue
  <2>4. QED
    BY <2>1, <2>2, <2>3 DEF ScheduleInv
<1>4. SelectionInv
  BY DEF Init, SelectionInv
<1>5. FollowInv
  BY DEF Init, FollowInv, PositionFollowsDecisions
<1>6. QED
  BY <1>1, <1>2, <1>3, <1>4, <1>5 DEF IInv

(* The selection only depends on the signals, which no step changes.       *)
LEMMA SelectionIsStable ==
    ASSUME signals' = signals, NEW time
    PROVE  SelectSignal(time)' = SelectSignal(time)
BY DEF SelectSignal

(* A fill carries out what is due at the bar that opens.                   *)
LEMMA FillIInv ==
    ASSUME IInv, NEW price \in Price, Fill(price)
    PROVE  IInv'
<1> DEFINE target == decision[pending[bar]].target
           quantity == target - units
           notional == quantity * price
           f == [decision |-> pending[bar], quantity |-> quantity, price |-> price]
<1>1. /\ bar \in Bar /\ lag \in Nat /\ lag >= 1 /\ units \in -1..1
      /\ phase = "open" /\ phase' = "close" /\ pending[bar] # None
      /\ UNCHANGED <<signals, lag, bar, close, decision, held, summary>>
  BY ConstantFacts DEF IInv, TypeOK, Fill
<1>2. pending[bar] = bar - lag /\ IsDue(bar)
  BY <1>1 DEF IInv, ScheduleInv
<1>3. bar - lag \in Bar
  BY <1>1, <1>2, ConstantFacts DEF IsDue, Bar
<1>4. decision[pending[bar]] \in StrategyDecision /\ target \in -1..1
  <2>1. decision[bar - lag] \in StrategyDecision
    BY <1>2, <1>3 DEF IInv, TypeOK, IsDue
  <2>2. QED
    BY <1>2, <2>1 DEF StrategyDecision
<1>5. quantity \in Int /\ notional \in Int
  <2>1. quantity \in Int
    BY <1>1, <1>4
  <2>2. \A x \in Int, y \in Int : x * y \in Int
    OBVIOUS
  <2>3. QED
    BY <2>1, <2>2, ConstantFacts
<1>6. f \in FillEvent /\ f # None
  BY <1>2, <1>3, <1>5, ConstantFacts DEF FillEvent
<1>7. /\ open' = [open EXCEPT ![bar] = price]
      /\ fill' = [fill EXCEPT ![bar] = f]
      /\ pending' = [pending EXCEPT ![bar] = None]
      /\ units' = target
      /\ cash' = cash - (10000 * notional + Fees(notional))
      /\ costs' = costs + Fees(notional) /\ turnover' = turnover + Magnitude(notional)
      /\ trades' = trades + 1
  BY DEF Fill
<1>8. /\ open \in [Bar -> Price \cup {None}] /\ fill \in [Bar -> FillEvent \cup {None}]
      /\ pending \in [Bar -> Bar \cup {None}]
      /\ cash \in Int /\ costs \in Nat /\ turnover \in Nat /\ trades \in Nat
  BY DEF IInv, TypeOK
<1>9. price # None
  BY ConstantFacts
<1>10. f.decision = bar - lag /\ f.price = price /\ f.quantity = target - units
  BY <1>2
<1>11. target = decision[bar - lag].target
  BY <1>2
<1> HIDE DEF target, quantity, notional, f
<1>12. TypeOK'
  <2>1. /\ open' \in [Bar -> Price \cup {None}] /\ fill' \in [Bar -> FillEvent \cup {None}]
        /\ pending' \in [Bar -> Bar \cup {None}]
    BY <1>6, <1>7, <1>8
  <2>2. cash' \in Int /\ costs' \in Nat /\ turnover' \in Nat /\ trades' \in Nat
    BY <1>5, <1>7, <1>8, FeesTyped
  <2>3. /\ signals \subseteq ComparableSignal /\ lag \in Lags
        /\ close \in [Bar -> Price \cup {None}]
        /\ decision \in [Bar -> StrategyDecision \cup {None}]
        /\ held \in [Bar -> -1..1 \cup {None}]
        /\ summary \in PerformanceSummary \cup {None}
    BY DEF IInv, TypeOK
  <2>4. QED
    BY <1>1, <1>4, <1>7, <2>1, <2>2, <2>3 DEF TypeOK
<1>13. LogsFollowTheLoop'
  BY <1>1, <1>7, <1>8, <1>9, ConstantFacts DEF IInv, LogsFollowTheLoop, IsOpened, IsDecided
<1>14. \A b \in Bar : IsDue(b)' <=> IsDue(b)
  BY <1>1 DEF IsDue
<1>15. \A b \in Bar : IsOpened(b)' <=> (IsOpened(b) \/ b = bar)
  BY <1>1, ConstantFacts DEF IsOpened
<1>16. ~ IsOpened(bar)
  BY <1>1, ConstantFacts DEF IsOpened
<1>17. ScheduleInv'
  <2> SUFFICES ASSUME NEW b \in Bar
               PROVE  /\ decision[b] # None /\ Changes(decision[b]) => b + lag \in Bar
                      /\ (pending'[b] # None) <=> (~ IsOpened(b)' /\ IsDue(b)')
                      /\ pending'[b] # None => pending'[b] = b - lag
                      /\ (fill'[b] # None) <=> (IsOpened(b)' /\ IsDue(b)')
                      /\ fill'[b] # None => fill'[b].decision = b - lag /\ fill'[b].price = open'[b]
    BY <1>1 DEF ScheduleInv
  <2>1. CASE b = bar
    BY <2>1, <1>1, <1>2, <1>6, <1>7, <1>8, <1>10, <1>14, <1>15 DEF IInv, ScheduleInv
  <2>2. CASE b # bar
    BY <2>2, <1>1, <1>7, <1>8, <1>14, <1>15 DEF IInv, ScheduleInv
  <2>3. QED
    BY <2>1, <2>2
<1>18. SelectionInv'
  BY <1>1, SelectionIsStable DEF IInv, SelectionInv
<1>19. FollowInv'
  <2> SUFFICES ASSUME lag = 1
               PROVE  /\ PositionFollowsDecisions'
                      /\ bar = 1 => units' = 0
                      /\ bar > 1 => decision[bar - 1].target = units'
    BY <1>1 DEF FollowInv
  <2>1. bar > 1 /\ units' = decision[bar - 1].target
    BY <1>2, <1>7, <1>11 DEF IsDue
  <2>2. f.quantity # 0
    BY <1>1, <1>4, <1>10, <1>11, <2>1 DEF IInv, FollowInv
  <2>3. PositionFollowsDecisions'
    BY <1>1, <1>7, <1>8, <2>2 DEF IInv, FollowInv, PositionFollowsDecisions
  <2>4. QED
    BY <2>1, <2>3
<1>20. QED
  BY <1>12, <1>13, <1>17, <1>18, <1>19 DEF IInv

(* A bar on which nothing is due opens without a fill.                     *)
LEMMA OpenIInv ==
    ASSUME IInv, NEW price \in Price, OpenWithoutFill(price)
    PROVE  IInv'
<1>1. /\ bar \in Bar /\ lag \in Nat /\ lag >= 1
      /\ phase = "open" /\ phase' = "close" /\ pending[bar] = None
      /\ open' = [open EXCEPT ![bar] = price] /\ open \in [Bar -> Price \cup {None}]
      /\ UNCHANGED <<signals, lag, bar, close, units, cash, costs, turnover, trades, pending,
                     decision, fill, held, summary>>
      /\ price # None
  BY ConstantFacts DEF IInv, TypeOK, OpenWithoutFill, account, log
<1>2. TypeOK'
  BY <1>1 DEF IInv, TypeOK
<1>3. LogsFollowTheLoop'
  BY <1>1, ConstantFacts DEF IInv, LogsFollowTheLoop, IsOpened, IsDecided
<1>4. \A b \in Bar : (IsDue(b)' <=> IsDue(b)) /\ (IsOpened(b)' <=> (IsOpened(b) \/ b = bar))
  BY <1>1, ConstantFacts DEF IsDue, IsOpened
<1>5. ~ IsOpened(bar) /\ ~ IsDue(bar)
  <2>1. ~ IsOpened(bar)
    BY <1>1, ConstantFacts DEF IsOpened
  <2>2. QED
    BY <1>1, <2>1 DEF IInv, ScheduleInv
<1>6. ScheduleInv'
  <2> SUFFICES ASSUME NEW b \in Bar
               PROVE  /\ decision[b] # None /\ Changes(decision[b]) => b + lag \in Bar
                      /\ (pending[b] # None) <=> (~ IsOpened(b)' /\ IsDue(b)')
                      /\ pending[b] # None => pending[b] = b - lag
                      /\ (fill[b] # None) <=> (IsOpened(b)' /\ IsDue(b)')
                      /\ fill[b] # None => fill[b].decision = b - lag /\ fill[b].price = open'[b]
    BY <1>1 DEF ScheduleInv
  <2>1. CASE b = bar
    BY <2>1, <1>1, <1>4, <1>5 DEF IInv, ScheduleInv
  <2>2. CASE b # bar
    BY <2>2, <1>1, <1>4 DEF IInv, ScheduleInv
  <2>3. QED
    BY <2>1, <2>2
<1>7. SelectionInv'
  BY <1>1, SelectionIsStable DEF IInv, SelectionInv
<1>8. FollowInv'
  BY <1>1 DEF IInv, FollowInv, PositionFollowsDecisions
<1>9. QED
  BY <1>2, <1>3, <1>6, <1>7, <1>8 DEF IInv

(* A decision schedules the change it makes, for a bar that has not opened. *)
LEMMA DecideIInv ==
    ASSUME IInv, NEW price \in Price, Decide(price)
    PROVE  IInv'
<1>1. /\ bar \in Bar /\ lag \in Nat /\ lag >= 1 /\ units \in -1..1
      /\ phase = "close" /\ close \in [Bar -> Price \cup {None}]
      /\ decision \in [Bar -> StrategyDecision \cup {None}]
      /\ pending \in [Bar -> Bar \cup {None}] /\ held \in [Bar -> -1..1 \cup {None}]
  BY ConstantFacts DEF IInv, TypeOK, Decide
<1>2. /\ close' = [close EXCEPT ![bar] = price] /\ held' = [held EXCEPT ![bar] = units]
      /\ IF bar < NumBars THEN bar' = bar + 1 /\ phase' = "open"
                         ELSE bar' = bar /\ phase' = "finish"
      /\ UNCHANGED <<signals, lag, open, units, cash, costs, turnover, trades, fill, summary>>
  BY DEF Decide, account
<1>3. PICK d \in StrategyDecision :
        /\ decision' = [decision EXCEPT ![bar] = d]
        /\ d.signal = SelectSignal(CloseAt[bar])
        /\ IF Changes(d) THEN d.target # units /\ bar + lag <= NumBars
                         ELSE d.target = units
        /\ pending' = IF Changes(d) THEN [pending EXCEPT ![bar + lag] = bar] ELSE pending
  BY DecideWrites
<1>4. bar' \in Bar /\ (bar < NumBars => bar + 1 \in Bar) /\ (bar >= NumBars => bar = NumBars)
  BY <1>1, <1>2, ConstantFacts DEF Bar
<1>5. Changes(d) => bar + lag \in Bar
  BY <1>1, <1>3, ConstantFacts DEF Bar
<1>6. d # None /\ units # None /\ bar # None /\ price # None
  BY <1>1, ConstantFacts DEF Bar
<1>7. TypeOK'
  <2>1. /\ close' \in [Bar -> Price \cup {None}] /\ held' \in [Bar -> -1..1 \cup {None}]
        /\ decision' \in [Bar -> StrategyDecision \cup {None}]
    BY <1>1, <1>2, <1>3
  <2>2. pending' \in [Bar -> Bar \cup {None}]
    BY <1>1, <1>3, <1>5
  <2>3. phase' \in {"open", "finish"}
    BY <1>2
  <2>4. QED
    BY <1>2, <1>4, <2>1, <2>2, <2>3 DEF IInv, TypeOK
<1>8. \A b \in Bar : /\ IsDecided(b)' <=> (IsDecided(b) \/ b = bar)
                     /\ IsOpened(b)' <=> IsOpened(b)
  BY <1>1, <1>2, <1>4, ConstantFacts DEF IsDecided, IsOpened
<1>9. IsOpened(bar) /\ ~ IsDecided(bar)
  BY <1>1, ConstantFacts DEF IsDecided, IsOpened
<1>10. LogsFollowTheLoop'
  <2>1. phase' \in {"finish", "done", "raised"} => bar' = NumBars
    BY <1>1, <1>2, <1>4, ConstantFacts
  <2>2. ASSUME NEW b \in Bar
        PROVE  /\ (open[b] # None) <=> IsOpened(b)
               /\ (decision[b] # None) <=> IsDecided(b)
               /\ (held[b] # None) <=> IsDecided(b)
               /\ (close[b] # None) <=> IsDecided(b)
    BY DEF IInv, LogsFollowTheLoop
  <2>3. ASSUME NEW b \in Bar
        PROVE  /\ (decision'[b] # None) <=> (decision[b] # None \/ b = bar)
               /\ (held'[b] # None) <=> (held[b] # None \/ b = bar)
               /\ (close'[b] # None) <=> (close[b] # None \/ b = bar)
    BY <1>1, <1>2, <1>3, <1>6
  <2>4. signals' \in Inputs /\ open' = open
    BY <1>2 DEF IInv, LogsFollowTheLoop
  <2>5. ASSUME NEW b \in Bar
        PROVE  /\ (open'[b] # None) <=> IsOpened(b)'
               /\ (decision'[b] # None) <=> IsDecided(b)'
               /\ (held'[b] # None) <=> IsDecided(b)'
               /\ (close'[b] # None) <=> IsDecided(b)'
    BY <1>8, <2>2, <2>3, <2>4
  <2>6. QED
    BY <2>1, <2>4, <2>5 DEF LogsFollowTheLoop
<1>11. decision[bar] = None
  BY <1>1, <1>9 DEF IInv, LogsFollowTheLoop
<1>12. ASSUME NEW b \in Bar
       PROVE  IsDue(b)' <=> IsDue(b) \/ (b = bar + lag /\ Changes(d))
  <2>1. b > lag => b - lag \in Bar
    BY <1>1, ConstantFacts DEF Bar
  <2>2. b = bar + lag => b > lag /\ b - lag = bar
    BY <1>1, ConstantFacts
  <2>3. CASE b = bar + lag
    BY <1>1, <1>2, <1>3, <1>6, <1>11, <2>1, <2>2, <2>3 DEF IsDue
  <2>4. CASE b # bar + lag
    <3>1. b > lag => b - lag # bar
      BY <1>1, <2>4, ConstantFacts
    <3>2. b > lag => decision'[b - lag] = decision[b - lag]
      BY <1>1, <1>3, <2>1, <3>1
    <3>3. QED
      BY <1>2, <2>4, <3>2 DEF IsDue
  <2>5. QED
    BY <2>3, <2>4
<1>13. \A b \in Bar : b = bar + lag => ~ IsOpened(b) /\ ~ IsDue(b)
  <2> SUFFICES ASSUME bar + lag \in Bar PROVE ~ IsOpened(bar + lag) /\ ~ IsDue(bar + lag)
    OBVIOUS
  <2>1. ~ IsOpened(bar + lag)
    BY <1>1, ConstantFacts DEF IsOpened
  <2>2. (bar + lag) - lag = bar
    <3>1. bar \in Int /\ lag \in Int
      BY <1>1, ConstantFacts
    <3>2. QED
      BY <3>1
  <2>3. decision[(bar + lag) - lag] = None
    BY <1>11, <2>2
  <2>4. ~ IsDue(bar + lag)
    BY <2>3 DEF IsDue
  <2>5. QED
    BY <2>1, <2>4
<1>14. ScheduleInv'
  <2> SUFFICES ASSUME NEW b \in Bar
               PROVE  /\ decision'[b] # None /\ Changes(decision'[b]) => b + lag \in Bar
                      /\ (pending'[b] # None) <=> (~ IsOpened(b)' /\ IsDue(b)')
                      /\ pending'[b] # None => pending'[b] = b - lag
                      /\ (fill[b] # None) <=> (IsOpened(b)' /\ IsDue(b)')
                      /\ fill[b] # None => fill[b].decision = b - lag /\ fill[b].price = open[b]
    BY <1>2 DEF ScheduleInv, Changes
  <2>1. decision'[b] # None /\ Changes(decision'[b]) => b + lag \in Bar
    BY <1>1, <1>3, <1>5 DEF IInv, ScheduleInv
  <2>2. /\ (fill[b] # None) <=> (IsOpened(b)' /\ IsDue(b)')
        /\ fill[b] # None => fill[b].decision = b - lag /\ fill[b].price = open[b]
    BY <1>8, <1>12, <1>13 DEF IInv, ScheduleInv
  <2>3. CASE b = bar + lag /\ Changes(d)
    <3>1. pending'[b] = bar /\ bar = b - lag
      BY <1>1, <1>3, <2>3, ConstantFacts
    <3>2. ~ IsOpened(b)' /\ IsDue(b)'
      BY <1>8, <1>12, <1>13, <2>3
    <3>3. QED
      BY <1>6, <2>1, <2>2, <3>1, <3>2
  <2>4. CASE ~ (b = bar + lag /\ Changes(d))
    <3>1. pending'[b] = pending[b]
      BY <1>1, <1>3, <1>5, <2>4
    <3>2. IsDue(b)' <=> IsDue(b)
      BY <1>12, <2>4
    <3>3. QED
      BY <1>8, <2>1, <2>2, <3>1, <3>2 DEF IInv, ScheduleInv
  <2>5. QED
    BY <2>3, <2>4
<1>15. SelectionInv'
  BY <1>1, <1>2, <1>3, SelectionIsStable DEF IInv, SelectionInv
<1>16. FollowInv'
  <2> SUFFICES ASSUME lag = 1 PROVE FollowInv'
    BY <1>2 DEF FollowInv
  <2>1. bar = 1 => units = 0
    BY DEF IInv, FollowInv
  <2>2. bar > 1 => decision[bar - 1].target = units /\ bar - 1 \in Bar
    BY <1>1, ConstantFacts DEF IInv, FollowInv, Bar
  <2>3. \A b \in Bar : b > 1 => b - 1 \in Bar
    BY ConstantFacts DEF Bar
  <2>4. PositionFollowsDecisions'
    <3> SUFFICES ASSUME NEW b \in Bar
                 PROVE  /\ held'[b] # None =>
                             held'[b] = (IF b = 1 THEN 0 ELSE decision'[b - 1].target)
                        /\ fill[b] # None => fill[b].quantity # 0
      BY <1>2 DEF PositionFollowsDecisions
    <3>1. fill[b] # None => fill[b].quantity # 0
      BY DEF IInv, FollowInv, PositionFollowsDecisions
    <3>2. CASE b = bar
      <4>1. bar - 1 # bar
        BY <1>1, ConstantFacts
      <4>2. bar > 1 => decision'[bar - 1] = decision[bar - 1]
        BY <1>1, <1>3, <2>2, <4>1, SMTT(40)
      <4>3. QED
        BY <1>1, <1>2, <2>1, <2>2, <3>1, <3>2, <4>2, ConstantFacts
    <3>3. CASE b # bar
      <4>1. held'[b] = held[b]
        BY <1>1, <1>2, <3>3
      <4>2. held[b] # None => b < bar
        BY <1>1, <3>3, ConstantFacts DEF IInv, LogsFollowTheLoop, IsDecided
      <4>3. held[b] # None /\ b > 1 => decision'[b - 1] = decision[b - 1]
        BY <1>1, <1>3, <2>3, <4>2, ConstantFacts
      <4>4. held[b] # None => held[b] = (IF b = 1 THEN 0 ELSE decision[b - 1].target)
        BY DEF IInv, FollowInv, PositionFollowsDecisions
      <4>5. QED
        BY <3>1, <4>1, <4>3, <4>4, ConstantFacts
    <3>4. QED
      BY <3>2, <3>3
  <2>5. CASE bar < NumBars
    <3>1. bar' = bar + 1 /\ phase' = "open" /\ bar' # 1 /\ bar' - 1 = bar
      BY <1>1, <1>2, <2>5, ConstantFacts
    <3>2. decision'[bar] = d
      BY <1>1, <1>3
    <3>3. pending[bar + 1] = None
      BY <1>4, <1>13, <2>5 DEF IInv, ScheduleInv
    <3>4. pending'[bar + 1] # None <=> Changes(d)
      BY <1>1, <1>3, <1>4, <1>6, <2>5, <3>3
    <3>5. IF pending'[bar'] # None THEN decision'[bar' - 1].target # units'
                                  ELSE decision'[bar' - 1].target = units'
      BY <1>2, <1>3, <3>1, <3>2, <3>4
    <3>6. QED
      BY <2>4, <3>1, <3>5 DEF FollowInv
  <2>6. CASE ~ (bar < NumBars)
    <3>1. bar' = bar /\ phase' = "finish" /\ bar > 1
      BY <1>1, <1>2, <1>4, <2>6, ConstantFacts
    <3>2. bar - 1 # bar
      BY <1>1, ConstantFacts
    <3>3. decision'[bar - 1] = decision[bar - 1]
      BY <1>1, <1>3, <2>2, <3>1, <3>2
    <3>4. decision'[bar' - 1].target = units' /\ bar' # 1
      BY <1>1, <1>2, <2>2, <3>1, <3>3, ConstantFacts
    <3>5. QED
      BY <2>4, <3>1, <3>4 DEF FollowInv
  <2>7. QED
    BY <2>5, <2>6
<1>17. QED
  BY <1>7, <1>10, <1>14, <1>15, <1>16 DEF IInv

(* Reporting and raising only end the run. *)
LEMMA EndIInv ==
    ASSUME IInv, Report \/ Raise
    PROVE  IInv'
<1>0. Report \/ Raise
  OBVIOUS
<1>1. /\ phase = "finish" /\ phase' \in {"done", "raised"}
      /\ UNCHANGED <<signals, lag, bar, open, close, units, cash, costs, turnover, trades, pending,
                     decision, fill, held>>
  BY DEF Report, Raise, account, log
<1>2. summary' \in PerformanceSummary \cup {None}
  <2>1. CASE Raise
    BY <2>1 DEF IInv, TypeOK, Raise
  <2>2. CASE Report
    <3>1. bar = NumBars /\ NumBars \in Bar /\ FirstExecutableBar \in Bar
      BY <1>1, ConstantFacts DEF IInv, TypeOK, LogsFollowTheLoop, FirstExecutableBar, Bar
    <3>2. open[FirstExecutableBar] # None /\ close[NumBars] # None
      <4>1. IsOpened(FirstExecutableBar) /\ IsDecided(NumBars)
        BY <1>1, <3>1, ConstantFacts DEF IsOpened, IsDecided, Bar
      <4>2. QED
        BY <3>1, <4>1 DEF IInv, LogsFollowTheLoop
    <3>3. open[FirstExecutableBar] \in Int /\ close[NumBars] \in Int
      <4>1. \A x \in Price \cup {None} : x # None => x \in Int
        BY ConstantFacts
      <4>2. /\ open[FirstExecutableBar] \in Price \cup {None}
            /\ close[NumBars] \in Price \cup {None}
        BY <3>1 DEF IInv, TypeOK
      <4>3. QED
        BY <3>2, <4>1, <4>2
    <3>4. /\ units \in Int /\ cash \in Int /\ costs \in Int /\ StartingCash \in Int
          /\ turnover \in Nat /\ trades \in Nat
      BY ConstantFacts DEF IInv, TypeOK
    <3>5. 10000 * units * close[NumBars] \in Int
      <4>1. \A x \in Int, y \in Int : x * y \in Int
        OBVIOUS
      <4>2. 10000 * units \in Int
        BY <3>4
      <4>3. QED
        BY <3>3, <4>1, <4>2
    <3>6. EndingValue \in Int
      BY <3>4, <3>5 DEF EndingValue
    <3>7. /\ EndingValue - StartingCash \in Int /\ EndingValue + costs - StartingCash \in Int
          /\ 10000 * (close[NumBars] - open[FirstExecutableBar]) \in Int
      BY <3>3, <3>4, <3>6
    <3>8. summary' = [net |-> EndingValue - StartingCash,
                      gross |-> EndingValue + costs - StartingCash,
                      trades |-> trades, turnover |-> turnover,
                      buyAndHold |-> 10000 * (close[NumBars] - open[FirstExecutableBar])]
      BY <2>2 DEF Report
    <3>9. QED
      BY <3>4, <3>7, <3>8 DEF PerformanceSummary
  <2>3. QED
    BY <1>0, <2>1, <2>2
<1>3. TypeOK'
  BY <1>1, <1>2 DEF IInv, TypeOK
<1>4. \A b \in Bar : /\ (IsOpened(b)' <=> IsOpened(b)) /\ (IsDecided(b)' <=> IsDecided(b))
                     /\ (IsDue(b)' <=> IsDue(b))
  BY <1>1 DEF IsOpened, IsDecided, IsDue
<1>5. LogsFollowTheLoop'
  BY <1>1, <1>4 DEF IInv, LogsFollowTheLoop
<1>6. ScheduleInv'
  BY <1>1, <1>4 DEF IInv, ScheduleInv
<1>7. SelectionInv'
  BY <1>1, SelectionIsStable DEF IInv, SelectionInv
<1>8. FollowInv'
  BY <1>1 DEF IInv, FollowInv, PositionFollowsDecisions
<1>9. QED
  BY <1>3, <1>5, <1>6, <1>7, <1>8 DEF IInv

LEMMA StepIInv == IInv /\ [Next]_vars => IInv'
<1> SUFFICES ASSUME IInv, [Next]_vars PROVE IInv'
  OBVIOUS
<1>1. CASE Next
  BY <1>1, FillIInv, OpenIInv, DecideIInv, EndIInv DEF Next
<1>2. CASE UNCHANGED vars
  <2>1. UNCHANGED <<signals, lag, bar, phase, open, close, units, cash, costs, turnover, trades,
                    pending, decision, fill, held, summary>>
    BY <1>2 DEF vars, account, log
  <2>2. TypeOK'
    BY <2>1 DEF IInv, TypeOK
  <2>3. \A b \in Bar : /\ (IsOpened(b)' <=> IsOpened(b)) /\ (IsDecided(b)' <=> IsDecided(b))
                       /\ (IsDue(b)' <=> IsDue(b))
    BY <2>1 DEF IsOpened, IsDecided, IsDue
  <2>4. LogsFollowTheLoop' /\ ScheduleInv'
    BY <2>1, <2>3 DEF IInv, LogsFollowTheLoop, ScheduleInv
  <2>5. SelectionInv'
    BY <2>1, SelectionIsStable DEF IInv, SelectionInv
  <2>6. FollowInv'
    BY <2>1 DEF IInv, FollowInv, PositionFollowsDecisions
  <2>7. QED
    BY <2>2, <2>4, <2>5, <2>6 DEF IInv
<1>3. QED
  BY <1>1, <1>2

LEMMA Invariance == Spec => []IInv
BY InitIInv, StepIInv, PTL DEF Spec

-----------------------------------------------------------------------------
(* Sums over finite sets.                                                  *)

(* F is the sum of g over every subset of S, taken as MapThenSumSet does:  *)
(* one element after the other, in an order of its own choice.             *)
Some(s) == CHOOSE x \in s : TRUE
Sums(g, S, F) ==
    F = [s \in SUBSET S |-> IF s = {} THEN 0 ELSE g[Some(s)] + F[s \ {Some(s)}]]

LEMMA SomeIn == \A s : s # {} => Some(s) \in s
BY DEF Some

(* A set of subsets of a finite set has a least one.                       *)
LEMMA LeastSubset ==
    ASSUME NEW S, IsFiniteSet(S), NEW T, T \subseteq SUBSET S, T # {}
    PROVE  \E s \in T : \A r \in T : ~ (r \subseteq s /\ r # s)
<1>1. T \subseteq FiniteSubsetsOf(S)
  <2>1. \A s \in SUBSET S : IsFiniteSet(s)
    BY FS_Subset
  <2>2. QED
    BY <2>1 DEF FiniteSubsetsOf
<1>2. IsWellFoundedOn(StrictSubsetOrdering(S), FiniteSubsetsOf(S))
  BY FS_StrictSubsetOrderingWellFounded
<1>3. PICK s \in T : \A r \in T : ~ (<<r, s>> \in StrictSubsetOrdering(S))
  BY <1>1, <1>2, WFMin
<1>4. \A r \in T : r \subseteq s /\ r # s => <<r, s>> \in StrictSubsetOrdering(S)
  BY DEF StrictSubsetOrdering
<1>5. ASSUME NEW r \in T, r \subseteq s /\ r # s
      PROVE  FALSE
  BY <1>3, <1>4, <1>5
<1>6. QED
  BY <1>5

LEMMA SumsStep ==
    ASSUME NEW g, NEW S, NEW F, Sums(g, S, F), NEW s \in SUBSET S
    PROVE  /\ s = {} => F[s] = 0
           /\ s # {} => /\ Some(s) \in s /\ s \ {Some(s)} \in SUBSET S
                        /\ F[s] = g[Some(s)] + F[s \ {Some(s)}]
<1>1. F[s] = IF s = {} THEN 0 ELSE g[Some(s)] + F[s \ {Some(s)}]
  BY DEF Sums
<1>2. QED
  BY <1>1, SomeIn

LEMMA SumsEmpty ==
    ASSUME NEW g, NEW S, NEW F, Sums(g, S, F)
    PROVE  F[{}] = 0
BY SumsStep

(* The sum of a set depends on nothing but the values at its elements.     *)
LEMMA SumsAgree ==
    ASSUME NEW S, IsFiniteSet(S), NEW g, NEW F, Sums(g, S, F),
           NEW R, NEW h, NEW G, Sums(h, R, G), NEW s \in SUBSET S, s \in SUBSET R,
           \A x \in s : g[x] = h[x]
    PROVE  F[s] = G[s]
<1> DEFINE T == {t \in SUBSET s : F[t] # G[t]}
<1>1. SUFFICES ASSUME T # {} PROVE FALSE
  OBVIOUS
<1>2. PICK t \in T : \A r \in T : ~ (r \subseteq t /\ r # t)
  <2>1. T \subseteq SUBSET S
    OBVIOUS
  <2> HIDE DEF T
  <2>2. QED
    BY <1>1, <2>1, LeastSubset
<1>3. t \in SUBSET S /\ t \in SUBSET R /\ F[t] # G[t]
  OBVIOUS
<1>4. t # {}
  BY <1>3, SumsStep
<1>5. /\ Some(t) \in t
      /\ F[t] = g[Some(t)] + F[t \ {Some(t)}] /\ G[t] = h[Some(t)] + G[t \ {Some(t)}]
  BY <1>3, <1>4, SumsStep
<1>6. F[t \ {Some(t)}] = G[t \ {Some(t)}]
  BY <1>2, <1>5
<1>7. QED
  BY <1>3, <1>5, <1>6

LEMMA SumsExist ==
    ASSUME NEW S, IsFiniteSet(S), NEW g
    PROVE  \E F : Sums(g, S, F)
<1> DEFINE T == {t \in SUBSET S : ~ \E F : Sums(g, t, F)}
<1>1. SUFFICES ASSUME T # {} PROVE FALSE
  OBVIOUS
<1>2. PICK t \in T : \A r \in T : ~ (r \subseteq t /\ r # t)
  <2>1. T \subseteq SUBSET S
    OBVIOUS
  <2> HIDE DEF T
  <2>2. QED
    BY <1>1, <2>1, LeastSubset
<1> DEFINE Of(s) == CHOOSE F : Sums(g, s, F)
           H == [s \in SUBSET t |-> IF s = {} THEN 0
                                    ELSE g[Some(s)] + Of(s \ {Some(s)})[s \ {Some(s)}]]
<1>3. ASSUME NEW s \in SUBSET t, s # t
      PROVE  Sums(g, s, Of(s)) /\ IsFiniteSet(s)
  <2>1. s \in SUBSET S
    OBVIOUS
  <2>2. s \notin T
    BY <1>2, <1>3
  <2>3. \E F : Sums(g, s, F)
    BY <2>1, <2>2
  <2>4. QED
    BY <2>1, <2>3, FS_Subset
<1>4. ASSUME NEW s \in SUBSET t, s # t
      PROVE  H[s] = Of(s)[s]
  <2>1. Sums(g, s, Of(s)) /\ IsFiniteSet(s)
    BY <1>3, <1>4
  <2> DEFINE K == Of(s)
             r == s \ {Some(s)}
  <2> HIDE DEF Of
  <2>2. CASE s = {}
    <3>1. K[s] = 0
      BY <2>1, <2>2, SumsStep
    <3>2. QED
      BY <2>2, <3>1
  <2>3. CASE s # {}
    <3>1. /\ Some(s) \in s /\ K[s] = g[Some(s)] + K[r]
      BY <2>1, <2>3, SumsStep
    <3>2. r \in SUBSET t /\ r # t /\ r \in SUBSET s
      BY <3>1
    <3>3. Sums(g, r, Of(r)) /\ IsFiniteSet(r)
      BY <1>3, <3>2
    <3>4. Of(r)[r] = K[r]
      <4> HIDE DEF K, r
      <4>1. QED
        BY <2>1, <3>2, <3>3, SumsAgree DEF K
    <3>5. QED
      BY <2>3, <3>1, <3>4
  <2>4. QED
    BY <2>2, <2>3
<1>5. ASSUME NEW s \in SUBSET t
      PROVE  H[s] = IF s = {} THEN 0 ELSE g[Some(s)] + H[s \ {Some(s)}]
  <2>1. CASE s = {}
    BY <2>1
  <2>2. CASE s # {}
    <3>1. s \ {Some(s)} \in SUBSET t /\ s \ {Some(s)} # t
      BY <2>2, SomeIn
    <3>2. H[s \ {Some(s)}] = Of(s \ {Some(s)})[s \ {Some(s)}]
      BY <1>4, <3>1
    <3>3. QED
      BY <2>2, <3>2
  <2>3. QED
    BY <2>1, <2>2
<1>6. Sums(g, t, H)
  <2>1. H = [s \in SUBSET t |-> H[s]]
    OBVIOUS
  <2> HIDE DEF H
  <2>2. QED
    BY <1>5, <2>1 DEF Sums
<1>7. QED
  <2> HIDE DEF H
  <2>1. QED
    BY <1>2, <1>6

(* A sum of integers is an integer, and any element may be taken out first. *)
LEMMA SumsTyped ==
    ASSUME NEW S, IsFiniteSet(S), NEW g, \A x \in S : g[x] \in Int, NEW F, Sums(g, S, F),
           NEW s \in SUBSET S
    PROVE  F[s] \in Int
<1> DEFINE T == {t \in SUBSET s : F[t] \notin Int}
<1>1. SUFFICES ASSUME T # {} PROVE FALSE
  OBVIOUS
<1>2. PICK t \in T : \A r \in T : ~ (r \subseteq t /\ r # t)
  <2>1. T \subseteq SUBSET S
    OBVIOUS
  <2> HIDE DEF T
  <2>2. QED
    BY <1>1, <2>1, LeastSubset
<1>3. t \in SUBSET S /\ F[t] \notin Int /\ t # {}
  <2>1. t \in SUBSET S /\ F[t] \notin Int
    OBVIOUS
  <2>2. t = {} => F[t] = 0
    BY SumsEmpty
  <2>3. QED
    BY <2>1, <2>2
<1>4. /\ Some(t) \in t /\ t \ {Some(t)} \in SUBSET S
      /\ F[t] = g[Some(t)] + F[t \ {Some(t)}]
  BY <1>3, SumsStep
<1>5. F[t \ {Some(t)}] \in Int
  BY <1>2, <1>4
<1>6. g[Some(t)] \in Int
  BY <1>3, <1>4
<1>7. QED
  BY <1>3, <1>4, <1>5, <1>6

LEMMA SumsWithout ==
    ASSUME NEW S, IsFiniteSet(S), NEW g, \A x \in S : g[x] \in Int, NEW F, Sums(g, S, F),
           NEW s \in SUBSET S, NEW e \in s
    PROVE  F[s] = g[e] + F[s \ {e}]
<1> DEFINE T == {t \in SUBSET s : \E x \in t : F[t] # g[x] + F[t \ {x}]}
<1>1. SUFFICES ASSUME T # {} PROVE FALSE
  OBVIOUS
<1>2. PICK t \in T : \A r \in T : ~ (r \subseteq t /\ r # t)
  <2>1. T \subseteq SUBSET S
    OBVIOUS
  <2> HIDE DEF T
  <2>2. QED
    BY <1>1, <2>1, LeastSubset
<1>3. PICK x \in t : F[t] # g[x] + F[t \ {x}]
  OBVIOUS
<1>4. PICK c : c = Some(t)
  OBVIOUS
<1>5. t \in SUBSET S /\ c \in t /\ F[t] = g[c] + F[t \ {c}]
  <2>1. t \in SUBSET S /\ t # {}
    OBVIOUS
  <2>2. /\ Some(t) \in t /\ F[t] = g[Some(t)] + F[t \ {Some(t)}]
    BY <2>1, SumsStep
  <2>3. QED
    BY <1>4, <2>1, <2>2
<1>6. x # c
  BY <1>3, <1>5
<1>7. F[t \ {c}] = g[x] + F[(t \ {c}) \ {x}]
  <2>1. t \ {c} \in SUBSET s /\ x \in t \ {c}
    BY <1>6
  <2>2. t \ {c} \notin T
    BY <1>2, <1>5
  <2>3. QED
    BY <2>1, <2>2
<1>8. F[t \ {x}] = g[c] + F[(t \ {x}) \ {c}]
  <2>1. t \ {x} \in SUBSET s /\ c \in t \ {x}
    BY <1>5, <1>6
  <2>2. t \ {x} \notin T
    BY <1>2
  <2>3. QED
    BY <2>1, <2>2
<1>9. PICK r : r = (t \ {c}) \ {x}
  OBVIOUS
<1>10. (t \ {x}) \ {c} = r /\ r \in SUBSET S
  BY <1>9, <1>5
<1>11. g[x] \in Int /\ g[c] \in Int /\ F[r] \in Int
  BY <1>5, <1>10, SumsTyped
<1>12. PICK u, v, w \in Int : u = g[x] /\ v = g[c] /\ w = F[r]
  BY <1>11
<1>13. F[t] = v + (u + w) /\ g[x] + F[t \ {x}] = u + (v + w)
  BY <1>5, <1>7, <1>8, <1>9, <1>10, <1>12
<1>14. QED
  BY <1>3, <1>12, <1>13

(* A linear combination of summands sums to that of the sums.              *)
Combines(S, g, h, k, a, b) ==
    \A x \in S : g[x] \in Int /\ h[x] \in Int /\ k[x] = a * g[x] + b * h[x]

LEMMA SumsCombine ==
    ASSUME NEW S, IsFiniteSet(S), NEW g, NEW h, NEW k, NEW a \in Int, NEW b \in Int,
           Combines(S, g, h, k, a, b),
           NEW G, Sums(g, S, G), NEW H, Sums(h, S, H), NEW K, Sums(k, S, K)
    PROVE  K[S] = a * G[S] + b * H[S]
<1> DEFINE T == {t \in SUBSET S : K[t] # a * G[t] + b * H[t]}
<1>1. SUFFICES ASSUME T # {} PROVE FALSE
  OBVIOUS
<1>2. PICK t \in T : \A r \in T : ~ (r \subseteq t /\ r # t)
  <2>1. T \subseteq SUBSET S
    OBVIOUS
  <2> HIDE DEF T
  <2>2. QED
    BY <1>1, <2>1, LeastSubset
<1>3. t \in SUBSET S /\ K[t] # a * G[t] + b * H[t]
  OBVIOUS
<1>4. t # {}
  <2>1. t = {} => K[t] = 0 /\ G[t] = 0 /\ H[t] = 0
    BY SumsEmpty
  <2>2. a * 0 + b * 0 = 0
    OBVIOUS
  <2>3. QED
    BY <1>3, <2>1, <2>2
<1> DEFINE c == Some(t)
           r == t \ {c}
<1>5. c \in t /\ r \in SUBSET S /\ K[t] = k[c] + K[r]
  BY <1>3, <1>4, SumsStep
<1>6. c \in t /\ r \in SUBSET S /\ G[t] = g[c] + G[r]
  BY <1>3, <1>4, SumsStep
<1>7. H[t] = h[c] + H[r]
  BY <1>3, <1>4, SumsStep
<1>8. K[r] = a * G[r] + b * H[r]
  <2>1. r \notin T
    BY <1>2, <1>5
  <2>2. QED
    BY <1>5, <2>1
<1> HIDE DEF T, c, r
<1>9. g[c] \in Int /\ h[c] \in Int /\ k[c] = a * g[c] + b * h[c]
  BY <1>3, <1>5 DEF Combines
<1>10. G[r] \in Int /\ H[r] \in Int
  <2>1. \A x \in S : g[x] \in Int /\ h[x] \in Int
    BY DEF Combines
  <2>2. G[r] \in Int
    BY <1>5, <2>1, SumsTyped
  <2>3. H[r] \in Int
    BY <1>5, <2>1, SumsTyped
  <2>4. QED
    BY <2>2, <2>3
<1>11. \A u, v, w, x \in Int :
           (a * u + b * v) + (a * w + b * x) = a * (u + w) + b * (v + x)
  OBVIOUS
<1>12. PICK u, v, w, x \in Int : u = g[c] /\ v = h[c] /\ w = G[r] /\ x = H[r]
  BY <1>9, <1>10
<1>13. /\ K[t] = (a * u + b * v) + (a * w + b * x)
       /\ G[t] = u + w /\ H[t] = v + x
  BY <1>5, <1>6, <1>7, <1>8, <1>9, <1>12
<1>14. QED
  BY <1>3, <1>11, <1>13

(* The sum itself.                                                         *)
Total(g, S) == (CHOOSE F : Sums(g, S, F))[S]

LEMMA TotalIs ==
    ASSUME NEW S, IsFiniteSet(S), NEW g, NEW R, IsFiniteSet(R), NEW F, Sums(g, R, F), S \subseteq R
    PROVE  F[S] = Total(g, S)
<1> DEFINE G == CHOOSE H : Sums(g, S, H)
<1>1. Sums(g, S, G)
  BY SumsExist
<1>2. Total(g, S) = G[S]
  BY DEF Total
<1> HIDE DEF G
<1>3. F[S] = G[S]
  BY <1>1, SumsAgree
<1>4. QED
  BY <1>2, <1>3

LEMMA TotalOfNone == \A g : Total(g, {}) = 0
<1> SUFFICES ASSUME NEW g PROVE Total(g, {}) = 0
  OBVIOUS
<1> DEFINE G == CHOOSE H : Sums(g, {}, H)
<1>1. Sums(g, {}, G)
  BY SumsExist, FS_EmptySet
<1> HIDE DEF G
<1>2. G[{}] = 0
  BY <1>1, SumsEmpty
<1>3. QED
  BY <1>2 DEF Total, G

LEMMA TotalTyped ==
    ASSUME NEW S, IsFiniteSet(S), NEW g, \A x \in S : g[x] \in Int
    PROVE  Total(g, S) \in Int
<1>1. PICK F : Sums(g, S, F)
  BY SumsExist
<1>2. F[S] \in Int
  BY <1>1, SumsTyped
<1>3. F[S] = Total(g, S)
  BY <1>1, TotalIs
<1>4. QED
  BY <1>2, <1>3

(* One more element adds its value.                                        *)
LEMMA TotalOfOneMore ==
    ASSUME NEW S, IsFiniteSet(S), NEW e, e \notin S, NEW g, NEW h,
           \A x \in S : g[x] \in Int /\ h[x] = g[x], h[e] \in Int
    PROVE  Total(h, S \cup {e}) = h[e] + Total(g, S)
<1> DEFINE R == S \cup {e}
<1>1. IsFiniteSet(R)
  BY FS_AddElement
<1>2. S \subseteq R /\ e \in R /\ R \ {e} = S /\ \A x \in R : h[x] \in Int
  OBVIOUS
<1> HIDE DEF R
<1>3. PICK F : Sums(h, R, F)
  BY <1>1, SumsExist
<1>4. PICK G : Sums(g, S, G)
  BY SumsExist
<1>5. F[R] = h[e] + F[S]
  <2>1. F[R] = h[e] + F[R \ {e}]
    BY <1>1, <1>2, <1>3, SumsWithout
  <2>2. QED
    BY <1>2, <2>1
<1>6. G[S] = F[S]
  BY <1>1, <1>2, <1>3, <1>4, SumsAgree
<1>7. F[R] = Total(h, R) /\ G[S] = Total(g, S)
  BY <1>1, <1>3, <1>4, TotalIs
<1>8. QED
  BY <1>5, <1>6, <1>7 DEF R

LEMMA TotalCombines ==
    ASSUME NEW S, IsFiniteSet(S), NEW g, NEW h, NEW k, NEW a \in Int, NEW b \in Int,
           Combines(S, g, h, k, a, b)
    PROVE  Total(k, S) = a * Total(g, S) + b * Total(h, S)
<1>1. PICK G : Sums(g, S, G)
  BY SumsExist
<1>2. PICK H : Sums(h, S, H)
  BY SumsExist
<1>3. PICK K : Sums(k, S, K)
  BY SumsExist
<1>4. G[S] = Total(g, S) /\ H[S] = Total(h, S) /\ K[S] = Total(k, S)
  BY <1>1, <1>2, <1>3, TotalIs
<1>5. K[S] = a * G[S] + b * H[S]
  BY <1>1, <1>2, <1>3, SumsCombine
<1>6. QED
  BY <1>4, <1>5

(* What every fill moved, what it was worth, the turnover it made, and     *)
(* what it gained up to a later price.                                     *)
Quantities == [b \in Bar |-> fill[b].quantity]
Notionals == [b \in Bar |-> fill[b].quantity * fill[b].price]
Turnovers == [b \in Bar |-> Magnitude(fill[b].quantity * fill[b].price)]
Gains(price) == [b \in Bar |-> fill[b].quantity * (price - fill[b].price)]

(* The folds the report is checked against are these sums.                 *)
LEMMA QuantitiesFolded ==
    ASSUME NEW S, S \subseteq Bar, IsFiniteSet(S)
    PROVE  MapThenSumSet(LAMBDA b : fill[b].quantity, S) = Total(Quantities, S)
<1> DEFINE g == Quantities
           At(s, F) == IF s = {} THEN 0
                       ELSE fill[CHOOSE b \in s : TRUE].quantity + F[s \ {CHOOSE b \in s : TRUE}]
           K == CHOOSE F : F = [s \in SUBSET S |-> At(s, F)]
<1>1. MapThenSumSet(LAMBDA b : fill[b].quantity, S) = K[S]
  BY DEF MapThenSumSet, MapThenFoldSet
<1>2. ASSUME NEW s \in SUBSET S, NEW F
      PROVE  At(s, F) = IF s = {} THEN 0 ELSE g[Some(s)] + F[s \ {Some(s)}]
  <2>1. CASE s = {}
    BY <2>1
  <2>2. CASE s # {}
    <3>1. Some(s) \in Bar
      BY <2>2, SomeIn
    <3>2. g[Some(s)] = fill[Some(s)].quantity
      BY <3>1 DEF Quantities
    <3>3. QED
      BY <2>2, <3>2 DEF Some
  <2>3. QED
    BY <2>1, <2>2
<1> HIDE DEF At, g
<1>3. PICK G : Sums(g, S, G)
  BY SumsExist
<1>4. G = [s \in SUBSET S |-> At(s, G)]
  BY <1>2, <1>3 DEF Sums
<1>5. K = [s \in SUBSET S |-> At(s, K)]
  BY <1>4
<1> HIDE DEF K
<1>6. Sums(g, S, K)
  BY <1>2, <1>5 DEF Sums
<1>7. K[S] = Total(g, S)
  BY <1>6, TotalIs
<1>8. QED
  BY <1>1, <1>7 DEF g

LEMMA TurnoversFolded ==
    ASSUME NEW S, S \subseteq Bar, IsFiniteSet(S)
    PROVE  MapThenSumSet(LAMBDA b : Magnitude(fill[b].quantity * fill[b].price), S)
             = Total(Turnovers, S)
<1> DEFINE g == Turnovers
           At(s, F) == IF s = {} THEN 0
                       ELSE Magnitude(fill[CHOOSE b \in s : TRUE].quantity
                                        * fill[CHOOSE b \in s : TRUE].price)
                              + F[s \ {CHOOSE b \in s : TRUE}]
           K == CHOOSE F : F = [s \in SUBSET S |-> At(s, F)]
<1>1. MapThenSumSet(LAMBDA b : Magnitude(fill[b].quantity * fill[b].price), S) = K[S]
  BY DEF MapThenSumSet, MapThenFoldSet
<1>2. ASSUME NEW s \in SUBSET S, NEW F
      PROVE  At(s, F) = IF s = {} THEN 0 ELSE g[Some(s)] + F[s \ {Some(s)}]
  <2>1. CASE s = {}
    BY <2>1
  <2>2. CASE s # {}
    <3>1. Some(s) \in Bar
      BY <2>2, SomeIn
    <3>2. g[Some(s)] = Magnitude(fill[Some(s)].quantity * fill[Some(s)].price)
      BY <3>1 DEF Turnovers
    <3>3. QED
      BY <2>2, <3>2 DEF Some
  <2>3. QED
    BY <2>1, <2>2
<1> HIDE DEF At, g
<1>3. PICK G : Sums(g, S, G)
  BY SumsExist
<1>4. G = [s \in SUBSET S |-> At(s, G)]
  BY <1>2, <1>3 DEF Sums
<1>5. K = [s \in SUBSET S |-> At(s, K)]
  BY <1>4
<1> HIDE DEF K
<1>6. Sums(g, S, K)
  BY <1>2, <1>5 DEF Sums
<1>7. K[S] = Total(g, S)
  BY <1>6, TotalIs
<1>8. QED
  BY <1>1, <1>7 DEF g

LEMMA GainsFolded ==
    ASSUME NEW price, NEW S, S \subseteq Bar, IsFiniteSet(S)
    PROVE  MapThenSumSet(LAMBDA b : fill[b].quantity * (price - fill[b].price), S)
             = Total(Gains(price), S)
<1> DEFINE g == Gains(price)
           At(s, F) == IF s = {} THEN 0
                       ELSE fill[CHOOSE b \in s : TRUE].quantity
                                * (price - fill[CHOOSE b \in s : TRUE].price)
                              + F[s \ {CHOOSE b \in s : TRUE}]
           K == CHOOSE F : F = [s \in SUBSET S |-> At(s, F)]
<1>1. MapThenSumSet(LAMBDA b : fill[b].quantity * (price - fill[b].price), S) = K[S]
  BY DEF MapThenSumSet, MapThenFoldSet
<1>2. ASSUME NEW s \in SUBSET S, NEW F
      PROVE  At(s, F) = IF s = {} THEN 0 ELSE g[Some(s)] + F[s \ {Some(s)}]
  <2>1. CASE s = {}
    BY <2>1
  <2>2. CASE s # {}
    <3>1. Some(s) \in Bar
      BY <2>2, SomeIn
    <3>2. g[Some(s)] = fill[Some(s)].quantity * (price - fill[Some(s)].price)
      BY <3>1 DEF Gains
    <3>3. QED
      BY <2>2, <3>2 DEF Some
  <2>3. QED
    BY <2>1, <2>2
<1> HIDE DEF At, g
<1>3. PICK G : Sums(g, S, G)
  BY SumsExist
<1>4. G = [s \in SUBSET S |-> At(s, G)]
  BY <1>2, <1>3 DEF Sums
<1>5. K = [s \in SUBSET S |-> At(s, K)]
  BY <1>4
<1> HIDE DEF K
<1>6. Sums(g, S, K)
  BY <1>2, <1>5 DEF Sums
<1>7. K[S] = Total(g, S)
  BY <1>6, TotalIs
<1>8. QED
  BY <1>1, <1>7 DEF g

-----------------------------------------------------------------------------
(* The account and the report.                                             *)

(* At any time the account is what the fills so far have made of it.       *)
AccountInv ==
    /\ units = Total(Quantities, Filled)
    /\ turnover = Total(Turnovers, Filled)
    /\ costs = CostRate * turnover
    /\ cash = StartingCash - 10000 * Total(Notionals, Filled) - costs
    /\ trades = Cardinality(Filled)

(* A run that only ever decided to be long bought its one unit at the      *)
(* first bar it could, and has traded nothing else.                        *)
OnlyLong == \A b \in Bar : decision[b] # None => decision[b].target = 1
LongInv ==
    /\ bar = 1 => units = 0
    /\ decision[1] # None /\ decision[1].target = 1 => Changes(decision[1])
    /\ OnlyLong => IF lag < NumBars /\ open[lag + 1] # None
                   THEN units = 1 /\ cash + costs = StartingCash - 10000 * open[lag + 1]
                   ELSE units = 0 /\ cash + costs = StartingCash

SummaryInv ==
    Reported =>
        /\ phase = "done"
        /\ summary = [net |-> EndingValue - StartingCash,
                      gross |-> EndingValue + costs - StartingCash,
                      trades |-> trades, turnover |-> turnover,
                      buyAndHold |-> 10000 * (close[NumBars] - open[FirstExecutableBar])]

ReportInv == AccountInv /\ LongInv /\ SummaryInv

(* Every bar with a fill has whole-number quantity and price. *)
LEMMA FilledTyped ==
    ASSUME IInv
    PROVE  /\ Filled \subseteq Bar /\ IsFiniteSet(Filled)
           /\ \A b \in Filled : /\ fill[b].quantity \in Int /\ fill[b].price \in Int
                                /\ fill[b].quantity * fill[b].price \in Int
                                /\ Quantities[b] = fill[b].quantity
                                /\ Notionals[b] = fill[b].quantity * fill[b].price
                                /\ Turnovers[b] = Magnitude(fill[b].quantity * fill[b].price)
                                /\ Turnovers[b] \in Int
<1>1. Filled \subseteq Bar /\ IsFiniteSet(Filled)
  <2>1. Filled \subseteq Bar
    BY DEF Filled
  <2>2. IsFiniteSet(Bar)
    BY ConstantFacts, FS_Interval DEF Bar
  <2>3. QED
    BY <2>1, <2>2, FS_Subset
<1>2. ASSUME NEW b \in Filled
      PROVE  /\ fill[b].quantity \in Int /\ fill[b].price \in Int
             /\ fill[b].quantity * fill[b].price \in Int
             /\ Quantities[b] = fill[b].quantity
             /\ Notionals[b] = fill[b].quantity * fill[b].price
             /\ Turnovers[b] = Magnitude(fill[b].quantity * fill[b].price)
             /\ Turnovers[b] \in Int
  <2>1. b \in Bar
    BY <1>1
  <2>2. fill[b] \in FillEvent
    BY <2>1 DEF Filled, IInv, TypeOK
  <2>3. fill[b].quantity \in Int /\ fill[b].price \in Int
    BY <2>2, ConstantFacts DEF FillEvent
  <2>4. \A x \in Int, y \in Int : x * y \in Int
    OBVIOUS
  <2>5. fill[b].quantity * fill[b].price \in Int
    BY <2>3, <2>4
  <2>6. Magnitude(fill[b].quantity * fill[b].price) \in Int
    BY <2>5, FeesTyped
  <2>7. QED
    BY <2>1, <2>3, <2>5, <2>6 DEF Quantities, Notionals, Turnovers
<1>3. QED
  BY <1>1, <1>2

LEMMA FillAccount ==
    ASSUME IInv, AccountInv, NEW price \in Price, Fill(price)
    PROVE  AccountInv'
<1>1. PICK target : target = decision[pending[bar]].target
  OBVIOUS
<1>2. PICK quantity, notional, f :
         /\ quantity = target - units /\ notional = quantity * price
         /\ f = [decision |-> pending[bar], quantity |-> quantity, price |-> price]
  OBVIOUS
<1>3. /\ fill' = [fill EXCEPT ![bar] = f]
      /\ units' = target
      /\ cash' = cash - (10000 * notional + Fees(notional))
      /\ costs' = costs + Fees(notional) /\ turnover' = turnover + Magnitude(notional)
      /\ trades' = trades + 1
  BY <1>1, <1>2 DEF Fill
<1>4. IInv'
  BY FillIInv
<1>5. /\ bar \in Bar /\ fill \in [Bar -> FillEvent \cup {None}]
      /\ units \in Int /\ target \in Int /\ cash \in Int /\ costs \in Int /\ turnover \in Int
  <2>1. units \in Int /\ units' \in Int
    BY <1>4 DEF IInv, TypeOK
  <2>2. QED
    BY <1>3, <2>1 DEF IInv, TypeOK
<1>6. f # None /\ f.quantity = quantity /\ f.price = price
  <2>1. fill'[bar] = f
    BY <1>3, <1>5
  <2>2. f # None
    <3>1. IsDue(bar) /\ ~ IsOpened(bar)
      BY <1>5, ConstantFacts DEF Fill, IInv, ScheduleInv
    <3>2. IsDue(bar)' /\ IsOpened(bar)'
      <4>1. bar' = bar /\ phase' = "close" /\ lag' = lag /\ decision' = decision
        BY DEF Fill
      <4>2. QED
        BY <3>1, <4>1 DEF IsDue, IsOpened
    <3>3. fill'[bar] # None
      BY <1>4, <1>5, <3>2 DEF IInv, ScheduleInv, Fill
    <3>4. QED
      BY <2>1, <3>3
  <2>3. QED
    BY <1>2, <2>2
<1>7. bar \notin Filled /\ Filled' = Filled \cup {bar}
  <2>1. ~ IsOpened(bar)
    BY <1>5, ConstantFacts DEF Fill, IsOpened
  <2>2. fill[bar] = None
    BY <1>5, <2>1 DEF IInv, ScheduleInv
  <2>3. \A b \in Bar : fill'[b] = IF b = bar THEN f ELSE fill[b]
    BY <1>3, <1>5
  <2>4. QED
    BY <1>5, <1>6, <2>2, <2>3 DEF Filled
<1>8. Filled \subseteq Bar /\ IsFiniteSet(Filled)
  BY FilledTyped
<1>9. \A b \in Filled : fill'[b] = fill[b]
  BY <1>3, <1>5, <1>7, <1>8
<1>10. fill'[bar] = f
  BY <1>3, <1>5
<1>11. quantity \in Int /\ notional \in Int /\ Magnitude(notional) \in Nat
  <2>1. quantity \in Int
    BY <1>2, <1>5
  <2>2. \A x \in Int, y \in Int : x * y \in Int
    OBVIOUS
  <2>3. notional \in Int
    BY <1>2, <2>1, <2>2, ConstantFacts
  <2>4. QED
    BY <2>1, <2>3, FeesTyped
<1>12. units' = Total(Quantities', Filled')
  <2>1. \A b \in Filled : Quantities[b] \in Int /\ Quantities'[b] = Quantities[b]
    BY <1>8, <1>9, FilledTyped DEF Quantities
  <2>2. Quantities'[bar] = quantity
    BY <1>5, <1>6, <1>10 DEF Quantities
  <2>3. Total(Quantities', Filled \cup {bar}) = quantity + Total(Quantities, Filled)
    BY <1>7, <1>8, <1>11, <2>1, <2>2, TotalOfOneMore
  <2>4. QED
    BY <1>2, <1>3, <1>5, <1>7, <2>3 DEF AccountInv
<1>13. turnover' = Total(Turnovers', Filled')
  <2>1. \A b \in Filled : Turnovers[b] \in Int /\ Turnovers'[b] = Turnovers[b]
    BY <1>8, <1>9, FilledTyped DEF Turnovers
  <2>2. Turnovers'[bar] = Magnitude(notional)
    BY <1>2, <1>5, <1>6, <1>10 DEF Turnovers
  <2>3. Turnovers'[bar] \in Int
    BY <1>11, <2>2
  <2>4. Total(Turnovers', Filled \cup {bar}) = Turnovers'[bar] + Total(Turnovers, Filled)
    BY <1>7, <1>8, <2>1, <2>3, TotalOfOneMore
  <2>5. QED
    BY <1>3, <1>5, <1>7, <1>11, <2>2, <2>4 DEF AccountInv
<1>14. Total(Notionals', Filled') = notional + Total(Notionals, Filled)
  <2>1. \A b \in Filled : Notionals[b] \in Int /\ Notionals'[b] = Notionals[b]
    BY <1>8, <1>9, FilledTyped DEF Notionals
  <2>2. Notionals'[bar] = notional
    BY <1>2, <1>5, <1>6, <1>10 DEF Notionals
  <2>3. QED
    BY <1>7, <1>8, <1>11, <2>1, <2>2, TotalOfOneMore
<1>15. costs' = CostRate * turnover'
  <2>1. costs = CostRate * turnover /\ turnover' = turnover + Magnitude(notional)
        /\ costs' = costs + Magnitude(notional) * CostRate
    BY <1>3 DEF AccountInv, Fees
  <2>2. \A c, x, y \in Int : c * x + y * c = c * (x + y)
    OBVIOUS
  <2>3. CostRate \in Int
    BY ConstantFacts
  <2>4. QED
    BY <1>5, <1>11, <2>1, <2>2, <2>3
<1>16. cash' = StartingCash - 10000 * Total(Notionals', Filled') - costs'
  <2>1. \A b \in Filled : Notionals[b] \in Int
    BY FilledTyped
  <2>2. Total(Notionals, Filled) \in Int
    BY <1>8, <2>1, TotalTyped
  <2>3. PICK n \in Int : n = Total(Notionals, Filled)
    BY <2>2
  <2>4. PICK w \in Int : w = Fees(notional)
    BY <1>11, FeesTyped
  <2>5. Total(Notionals', Filled') = notional + n
    BY <1>14, <2>3
  <2>6. cash = StartingCash - 10000 * n - costs
    BY <2>3 DEF AccountInv
  <2>7. cash' = cash - (10000 * notional + w) /\ costs' = costs + w
    BY <1>3, <2>4
  <2>8. StartingCash \in Int
    BY ConstantFacts
  <2>9. cash' = StartingCash - 10000 * (notional + n) - costs'
    BY <1>5, <1>11, <2>6, <2>7, <2>8
  <2>10. QED
    BY <2>5, <2>9
<1>17. trades' = Cardinality(Filled')
  BY <1>3, <1>7, <1>8, FS_AddElement DEF AccountInv
<1>18. QED
  BY <1>12, <1>13, <1>15, <1>16, <1>17 DEF AccountInv

(* The unit is bought at the first bar with a due decision, and every      *)
(* later fill of an always-long run moves nothing.                         *)
LEMMA FillLong ==
    ASSUME IInv, LongInv, NEW price \in Price, Fill(price)
    PROVE  LongInv'
<1>1. PICK target : target = decision[pending[bar]].target
  OBVIOUS
<1>2. PICK notional : notional = (target - units) * price
  OBVIOUS
<1>3. /\ open' = [open EXCEPT ![bar] = price] /\ units' = target
      /\ cash' = cash - (10000 * notional + Fees(notional)) /\ costs' = costs + Fees(notional)
      /\ bar' = bar /\ lag' = lag /\ decision' = decision
      /\ phase = "open" /\ pending[bar] # None
  BY <1>1, <1>2 DEF Fill
<1>4. /\ bar \in Bar /\ lag \in Nat /\ lag >= 1 /\ open \in [Bar -> Price \cup {None}]
      /\ cash \in Int /\ costs \in Int /\ price \in Int
  BY ConstantFacts DEF IInv, TypeOK
<1>5. pending[bar] = bar - lag /\ bar > lag /\ decision[bar - lag] # None
  BY <1>3, <1>4 DEF IInv, ScheduleInv, IsDue
<1>6. bar - lag \in Bar /\ lag + 1 \in Bar /\ lag < NumBars /\ lag + 1 <= bar
  BY <1>4, <1>5, ConstantFacts DEF Bar
<1>7. OnlyLong' <=> OnlyLong
  BY <1>3 DEF OnlyLong
<1>8. ASSUME OnlyLong
      PROVE  units' = 1 /\ cash' + costs' = StartingCash - 10000 * open'[lag + 1]
             /\ open'[lag + 1] # None
  <2>1. target = 1
    BY <1>1, <1>5, <1>6, <1>8 DEF OnlyLong
  <2>2. CASE bar = lag + 1
    <3>1. open[lag + 1] = None
      BY <1>3, <1>6, <2>2, ConstantFacts DEF IInv, LogsFollowTheLoop, IsOpened
    <3>2. units = 0 /\ cash + costs = StartingCash
      BY <1>8, <3>1 DEF LongInv
    <3>3. notional = price
      BY <1>2, <1>4, <2>1, <3>2
    <3>4. open'[lag + 1] = price /\ price # None
      BY <1>3, <1>4, <2>2, ConstantFacts
    <3>5. PICK w \in Int : w = Fees(notional)
      BY <1>4, <3>3, FeesTyped
    <3>6. QED
      BY <1>3, <1>4, <2>1, <3>2, <3>3, <3>4, <3>5, ConstantFacts
  <2>3. CASE bar # lag + 1
    <3>1. open[lag + 1] # None
      BY <1>4, <1>6, <2>3, ConstantFacts DEF IInv, LogsFollowTheLoop, IsOpened
    <3>2. units = 1 /\ cash + costs = StartingCash - 10000 * open[lag + 1]
      BY <1>6, <1>8, <3>1 DEF LongInv
    <3>3. notional = 0
      BY <1>2, <1>4, <2>1, <3>2
    <3>4. Fees(notional) = 0
      BY <3>3, ConstantFacts DEF Fees, Magnitude
    <3>5. open'[lag + 1] = open[lag + 1]
      BY <1>3, <1>4, <1>6, <2>3
    <3>6. cash' + costs' = cash + costs
      <4>1. 10000 * notional = 0
        BY <3>3
      <4>2. cash' = cash - (0 + 0) /\ costs' = costs + 0
        BY <1>3, <3>4, <4>1
      <4>3. QED
        BY <1>4, <4>2
    <3>7. QED
      BY <1>3, <2>1, <3>1, <3>2, <3>5, <3>6
  <2>4. QED
    BY <2>2, <2>3
<1>9. bar # 1
  BY <1>4, <1>5, ConstantFacts
<1>10. decision'[1] # None /\ decision'[1].target = 1 => Changes(decision'[1])
  BY <1>3 DEF LongInv
<1>11. QED
  BY <1>3, <1>6, <1>7, <1>8, <1>9, <1>10 DEF LongInv, Changes

(* The first bar with a due decision never opens without a fill. *)
LEMMA OpenLong ==
    ASSUME IInv, LongInv, NEW price \in Price, OpenWithoutFill(price)
    PROVE  LongInv'
<1>1. /\ open' = [open EXCEPT ![bar] = price]
      /\ UNCHANGED <<units, cash, costs, bar, lag, decision>>
      /\ phase = "open" /\ pending[bar] = None
  BY DEF OpenWithoutFill, account, log
<1>2. /\ bar \in Bar /\ lag \in Nat /\ lag >= 1 /\ open \in [Bar -> Price \cup {None}]
      /\ 1 \in Bar
  BY ConstantFacts DEF IInv, TypeOK, Bar
<1>3. OnlyLong' <=> OnlyLong
  BY <1>1 DEF OnlyLong
<1>4. ASSUME OnlyLong
      PROVE  bar # lag + 1
  <2> SUFFICES ASSUME bar = lag + 1 PROVE FALSE
    OBVIOUS
  <2>1. bar - lag = 1 /\ bar > lag /\ 1 < bar
    BY <1>2, ConstantFacts
  <2>2. decision[1] # None
    BY <1>2, <2>1 DEF IInv, LogsFollowTheLoop, IsDecided
  <2>3. Changes(decision[1])
    BY <1>2, <1>4, <2>2 DEF LongInv, OnlyLong
  <2>4. IsDue(bar)
    BY <2>1, <2>2, <2>3 DEF IsDue
  <2>5. ~ IsOpened(bar)
    BY <1>1, <1>2, ConstantFacts DEF IsOpened
  <2>6. QED
    BY <1>1, <1>2, <2>4, <2>5 DEF IInv, ScheduleInv
<1>5. OnlyLong /\ lag < NumBars => open'[lag + 1] = open[lag + 1]
  <2>1. lag < NumBars => lag + 1 \in Bar
    BY <1>2, ConstantFacts DEF Bar
  <2>2. QED
    BY <1>1, <1>2, <1>4, <2>1
<1>6. QED
  BY <1>1, <1>3, <1>5 DEF LongInv, Changes

(* A first decision to be long is a change, as nothing is held by then. *)
LEMMA DecideLong ==
    ASSUME IInv, LongInv, NEW price \in Price, Decide(price)
    PROVE  LongInv'
<1>1. PICK d \in StrategyDecision :
         /\ decision' = [decision EXCEPT ![bar] = d]
         /\ IF Changes(d) THEN d.target # units /\ bar + lag <= NumBars ELSE d.target = units
  BY DecideWrites
<1>2. UNCHANGED <<units, cash, costs, lag, open>> /\ phase = "close"
  BY DEF Decide, account
<1>3. bar \in Bar /\ bar' \in Bar /\ (bar' = bar + 1 \/ (bar' = bar /\ bar = NumBars))
  BY ConstantFacts DEF IInv, TypeOK, Decide, Bar
<1>4. bar' # 1
  BY <1>3, ConstantFacts
<1>5. decision \in [Bar -> StrategyDecision \cup {None}] /\ decision[bar] = None
  BY <1>2, <1>3, ConstantFacts DEF IInv, TypeOK, LogsFollowTheLoop, IsDecided
<1>6. OnlyLong' => OnlyLong
  <2>1. \A b \in Bar : decision[b] # None => decision'[b] = decision[b]
    BY <1>1, <1>3, <1>5
  <2>2. QED
    BY <2>1 DEF OnlyLong
<1>7. decision'[1] # None /\ decision'[1].target = 1 => Changes(decision'[1])
  <2>1. CASE bar = 1
    <3>1. decision'[1] = d /\ units = 0
      BY <1>1, <1>3, <1>5, <2>1 DEF LongInv
    <3>2. QED
      BY <1>1, <3>1
  <2>2. CASE bar # 1
    <3>1. decision'[1] = decision[1]
      BY <1>1, <1>5, <2>2
    <3>2. QED
      BY <3>1 DEF LongInv
  <2>3. QED
    BY <2>1, <2>2
<1>8. QED
  BY <1>2, <1>4, <1>6, <1>7 DEF LongInv, Changes

LEMMA InitReport == Init => ReportInv
<1> SUFFICES ASSUME Init PROVE ReportInv
  OBVIOUS
<1>1. Filled = {}
  BY DEF Init, Filled
<1>2. AccountInv
  <2>1. \A g : Total(g, Filled) = 0
    BY <1>1, TotalOfNone
  <2>2. Cardinality(Filled) = 0
    BY <1>1, FS_EmptySet
  <2>3. CostRate * 0 = 0 /\ StartingCash = StartingCash - 10000 * 0 - 0
    BY ConstantFacts
  <2>4. QED
    BY <2>1, <2>2, <2>3 DEF Init, AccountInv
<1>3. LongInv
  <2>1. 1 \in Bar
    BY ConstantFacts DEF Bar
  <2>2. lag < NumBars => lag + 1 \in Bar
    BY ConstantFacts DEF Init, Bar
  <2>3. StartingCash + 0 = StartingCash
    BY ConstantFacts
  <2>4. QED
    BY <2>1, <2>2, <2>3 DEF Init, LongInv
<1>4. SummaryInv
  BY DEF Init, SummaryInv, Reported
<1>5. QED
  BY <1>2, <1>3, <1>4 DEF ReportInv

(* A step that fills nothing and leaves the account alone keeps it right. *)
LEMMA AccountUnchanged ==
    ASSUME AccountInv, UNCHANGED <<units, cash, costs, turnover, trades, fill>>
    PROVE  AccountInv'
<1>1. /\ Filled' = Filled /\ Quantities' = Quantities
      /\ Turnovers' = Turnovers /\ Notionals' = Notionals
  BY DEF Filled, Quantities, Turnovers, Notionals
<1>2. QED
  BY <1>1 DEF AccountInv

LEMMA StepReport == IInv /\ ReportInv /\ [Next]_vars => ReportInv'
<1> SUFFICES ASSUME IInv, ReportInv, [Next]_vars PROVE ReportInv'
  OBVIOUS
<1>0. AccountInv /\ LongInv /\ SummaryInv
  BY DEF ReportInv
<1>1. ASSUME NEW price \in Price, Fill(price)
      PROVE  ReportInv'
  <2>1. AccountInv' /\ LongInv'
    BY <1>0, <1>1, FillAccount, FillLong
  <2>2. SummaryInv'
    BY <1>0, <1>1 DEF Fill, SummaryInv, Reported
  <2>3. QED
    BY <2>1, <2>2 DEF ReportInv
<1>2. ASSUME NEW price \in Price, OpenWithoutFill(price)
      PROVE  ReportInv'
  <2>1. AccountInv'
    BY <1>0, <1>2, AccountUnchanged DEF OpenWithoutFill, account, log
  <2>2. LongInv'
    BY <1>0, <1>2, OpenLong
  <2>3. SummaryInv'
    BY <1>0, <1>2 DEF OpenWithoutFill, SummaryInv, Reported
  <2>4. QED
    BY <2>1, <2>2, <2>3 DEF ReportInv
<1>3. ASSUME NEW price \in Price, Decide(price)
      PROVE  ReportInv'
  <2>1. AccountInv'
    BY <1>0, <1>3, AccountUnchanged DEF Decide, account
  <2>2. LongInv'
    BY <1>0, <1>3, DecideLong
  <2>3. SummaryInv'
    BY <1>0, <1>3 DEF Decide, SummaryInv, Reported
  <2>4. QED
    BY <2>1, <2>2, <2>3 DEF ReportInv
<1>4. CASE Report \/ Raise \/ UNCHANGED vars
  <2>1. UNCHANGED <<units, cash, costs, turnover, trades, fill, bar, lag, open, close, decision>>
    BY <1>4 DEF Report, Raise, vars, account, log
  <2>2. AccountInv'
    BY <1>0, <2>1, AccountUnchanged
  <2>3. LongInv'
    <3>1. OnlyLong' <=> OnlyLong
      BY <2>1 DEF OnlyLong
    <3>2. QED
      BY <1>0, <2>1, <3>1 DEF LongInv, Changes
  <2>4. EndingValue' = EndingValue /\ FirstExecutableBar' = FirstExecutableBar
    BY <2>1 DEF EndingValue, FirstExecutableBar
  <2>5. Report => SummaryInv'
    BY <2>1, <2>4 DEF Report, SummaryInv, Reported
  <2>6. Raise => SummaryInv'
    BY <1>0 DEF Raise, SummaryInv, Reported
  <2>7. UNCHANGED vars => SummaryInv'
    BY <1>0, <2>1, <2>4 DEF vars, SummaryInv, Reported
  <2>8. QED
    BY <1>4, <2>2, <2>3, <2>5, <2>6, <2>7 DEF ReportInv
<1>5. QED
  BY <1>1, <1>2, <1>3, <1>4 DEF Next

-----------------------------------------------------------------------------
(* The properties.                                                         *)

(* Whatever it is given, a simulation's account, log and report are well   *)
(* typed: costs and turnover never fall, and the position is -1, 0 or 1.   *)
THEOREM TypeCorrect == Spec => []TypeOK
<1>1. IInv => TypeOK
  BY DEF IInv
<1>2. QED
  BY <1>1, Invariance, PTL

(* A decided change is filled exactly once, lag bars later at the open of  *)
(* that bar, and nothing else is filled, for every lag and number of bars. *)
THEOREM EachDecisionIsExecutedOnce == Spec => []DecisionsAreExecutedOnce
<1>1. IInv => DecisionsAreExecutedOnce
  <2> SUFFICES ASSUME IInv PROVE DecisionsAreExecutedOnce
    OBVIOUS
  <2>1. ASSUME NEW b \in Bar, decision[b] # None, Changes(decision[b])
        PROVE  b + lag \in Bar
    BY <2>1 DEF IInv, ScheduleInv
  <2>2. ASSUME NEW b \in OpenedBars, b > lag, Changes(decision[b - lag])
        PROVE  fill[b] # None /\ fill[b].decision = b - lag /\ fill[b].price = open[b]
    <3>1. b \in Bar /\ bar \in Bar /\ lag \in Nat /\ lag >= 1 /\ IsOpened(b)
      BY ConstantFacts DEF OpenedBars, IInv, LogsFollowTheLoop, TypeOK
    <3>2. b - lag \in Bar /\ b - lag < bar
      BY <2>2, <3>1, ConstantFacts DEF IsOpened, Bar
    <3>3. decision[b - lag] # None
      BY <3>2 DEF IInv, LogsFollowTheLoop, IsDecided
    <3>4. IsDue(b)
      BY <2>2, <3>3 DEF IsDue
    <3>5. QED
      BY <3>1, <3>4 DEF IInv, ScheduleInv
  <2>3. ASSUME NEW b \in Bar, fill[b] # None
        PROVE  b > lag /\ Changes(decision[b - lag]) /\ fill[b].decision = b - lag
    BY <2>3 DEF IInv, ScheduleInv, IsDue
  <2>4. QED
    BY <2>1, <2>2, <2>3 DEF DecisionsAreExecutedOnce
<1>2. QED
  BY <1>1, Invariance, PTL

(* With a lag of one bar, every bar is held with the position decided on   *)
(* the bar before it, and no trade of zero units is counted.               *)
THEOREM PositionsFollowDecisions == Spec => []PositionFollowsDecisions
<1>1. IInv => PositionFollowsDecisions
  BY DEF IInv, FollowInv, PositionFollowsDecisions
<1>2. QED
  BY <1>1, Invariance, PTL

(* However many signals a run has, no decision goes back to an older one   *)
(* than an earlier decision used.                                          *)
THEOREM DecisionsOnlyMoveForward == Spec => []DecisionsMoveForward
<1>1. IInv => DecisionsMoveForward
  <2> SUFFICES ASSUME IInv, NEW b \in Bar, NEW c \in Bar, b < c,
                      decision[c] # None, decision[b].signal # None
               PROVE  /\ decision[c].signal # None
                      /\ decision[c].signal.effective >= decision[b].signal.effective
    BY DEF DecisionsMoveForward
  <2> DEFINE early == SelectSignal(CloseAt[b])
             late == SelectSignal(CloseAt[c])
             AtC == {s \in signals : Eligible(s, CloseAt[c])}
  <2>1. decision[b] # None
    <3>1. IsDecided(c) /\ bar \in Bar
      BY DEF IInv, LogsFollowTheLoop, TypeOK
    <3>2. IsDecided(b)
      BY <3>1, ConstantFacts DEF IsDecided
    <3>3. QED
      BY <3>2 DEF IInv, LogsFollowTheLoop
  <2>2. decision[b].signal = early /\ decision[c].signal = late
    BY <2>1 DEF IInv, SelectionInv
  <2>3. signals \in Inputs /\ signals \subseteq ComparableSignal
    BY DEF IInv, LogsFollowTheLoop, TypeOK
  <2>4. CloseAt[b] \in Nat /\ CloseAt[c] \in Nat /\ CloseAt[b] < CloseAt[c] /\ Buffer \in Nat
    BY BacktestAssumption
  <2>5. early \in signals /\ Eligible(early, CloseAt[b])
    BY <2>2, <2>3, SelectionIsWellDefined
  <2>6. early \in AtC
    <3>1. early.available \in Nat /\ early.features \in Nat
      BY <2>3, <2>5 DEF ComparableSignal, Eligible, TimingSafe
    <3>2. QED
      BY <2>4, <2>5, <3>1 DEF Eligible
  <2>7. late \in AtC /\ \A o \in AtC \ {late} : Preferred(late, o)
    BY <2>3, <2>6, SelectionIsWellDefined
  <2> HIDE DEF early, late
  <2>8. late \in ComparableSignal /\ early \in ComparableSignal /\ late # None
    BY <2>3, <2>6, <2>7, ConstantFacts
  <2>9. late.effective \in Nat /\ early.effective \in Nat
    BY <2>8 DEF ComparableSignal
  <2>10. late = early \/ Preferred(late, early)
    BY <2>6, <2>7
  <2>11. late.effective >= early.effective
    BY <2>9, <2>10 DEF Preferred
  <2>12. QED
    BY <2>2, <2>8, <2>11
<1>2. QED
  BY <1>1, Invariance, PTL

(* What is reported is what the log and the benchmark say: gross is what   *)
(* every fill gained up to the final close, net is less the fees of every  *)
(* fill, and a run that is long from its first decision on makes what buy  *)
(* and hold makes, for any number of bars, path of prices, lag and cost.   *)
THEOREM ReportsAreRight == Spec => []ReportIsRight
<1>1. Spec => []ReportInv
  BY InitReport, StepReport, Invariance, PTL DEF Spec
<1>2. IInv /\ ReportInv => ReportIsRight
  <2>unreported. ~ Reported => ReportIsRight
    <3>1. ~ Reported => AccountsReconcile
      BY Zenon DEF AccountsReconcile
    <3>2. ~ Reported => AlwaysLongIsBuyAndHold
      BY Zenon DEF AlwaysLongIsBuyAndHold
    <3>3. QED
      BY <3>1, <3>2, Zenon DEF ReportIsRight
  <2> SUFFICES ASSUME IInv, ReportInv, Reported PROVE ReportIsRight
    BY <2>unreported, Zenon
  <2>1. PICK final : final = close[NumBars]
    OBVIOUS
  <2>0. PICK value : value = cash + 10000 * units * final
    OBVIOUS
  <2>2. /\ summary.gross = value + costs - StartingCash
        /\ summary.net = value - StartingCash
        /\ summary.trades = trades /\ summary.turnover = turnover
        /\ summary.buyAndHold = 10000 * (final - open[FirstExecutableBar])
        /\ phase = "done"
    <3>1. EndingValue = value
      BY <2>0, <2>1 DEF EndingValue
    <3>2. QED
      BY <2>1, <3>1 DEF ReportInv, SummaryInv
  <2>3. /\ cash \in Int /\ costs \in Int /\ units \in Int /\ turnover \in Int
        /\ StartingCash \in Int /\ CostRate \in Int /\ lag \in Nat /\ lag >= 1
    BY ConstantFacts DEF IInv, TypeOK
  <2>4. bar = NumBars /\ NumBars \in Bar /\ \A b \in Bar : IsDecided(b) /\ IsOpened(b)
    BY <2>2, ConstantFacts DEF IInv, TypeOK, LogsFollowTheLoop, IsDecided, IsOpened, Bar
  <2>5. final \in Int
    BY <2>1, <2>4, ConstantFacts DEF IInv, TypeOK, LogsFollowTheLoop
  <2>6. AccountsReconcile
    <3>1. Filled \subseteq Bar /\ IsFiniteSet(Filled)
      BY FilledTyped
    <3>2. MapThenSumSet(LAMBDA b : Magnitude(fill[b].quantity * fill[b].price), Filled)
            = Total(Turnovers, Filled)
      BY <3>1, TurnoversFolded
    <3>3. MapThenSumSet(LAMBDA b : fill[b].quantity, Filled) = Total(Quantities, Filled)
      BY <3>1, QuantitiesFolded
    <3>4. MapThenSumSet(LAMBDA b : fill[b].quantity * (close[NumBars] - fill[b].price), Filled)
            = Total(Gains(close[NumBars]), Filled)
      BY <3>1, GainsFolded
    <3>5. Total(Gains(final), Filled)
            = final * Total(Quantities, Filled) + (-1) * Total(Notionals, Filled)
      <4>1. Combines(Filled, Quantities, Notionals, Gains(final), final, -1)
        <5>1. \A q, p \in Int : q * (final - p) = final * q + (-1) * (q * p)
          BY <2>5
        <5>2. ASSUME NEW b \in Filled
              PROVE  /\ Quantities[b] \in Int /\ Notionals[b] \in Int
                     /\ Gains(final)[b] = final * Quantities[b] + (-1) * Notionals[b]
          <6>1. /\ Quantities[b] = fill[b].quantity
                /\ Notionals[b] = fill[b].quantity * fill[b].price
                /\ fill[b].quantity \in Int /\ fill[b].price \in Int
                /\ Notionals[b] \in Int
            BY FilledTyped
          <6>2. Gains(final)[b] = fill[b].quantity * (final - fill[b].price)
            BY <3>1 DEF Gains
          <6>3. QED
            BY <5>1, <6>1, <6>2
        <5>3. QED
          BY <5>2 DEF Combines
      <4>2. -1 \in Int
        OBVIOUS
      <4>3. QED
        BY <2>5, <3>1, <4>1, <4>2, TotalCombines
    <3>6. PICK n \in Int : n = Total(Notionals, Filled)
      BY <3>1, FilledTyped, TotalTyped
    <3>7. /\ units = Total(Quantities, Filled) /\ turnover = Total(Turnovers, Filled)
          /\ costs = CostRate * turnover /\ cash = StartingCash - 10000 * n - costs
          /\ trades = Cardinality(Filled)
      BY <3>6 DEF ReportInv, AccountInv
    <3>8. PICK gained \in Int : gained = final * units + (-1) * n
      BY <2>3, <2>5
    <3>9. MapThenSumSet(LAMBDA b : fill[b].quantity * (close[NumBars] - fill[b].price), Filled)
            = gained
      BY <2>1, <3>4, <3>5, <3>6, <3>7, <3>8
    <3>10. summary.gross = 10000 * gained
      <4>1. PICK v \in Int : v = final * units
        BY <2>3, <2>5
      <4>2. 10000 * units * final = 10000 * v
        BY <2>3, <2>5, <4>1
      <4>3. QED
        BY <2>0, <2>2, <2>3, <3>7, <3>8, <4>1, <4>2
    <3>11. summary.net = summary.gross - CostRate * turnover
      <4>1. PICK v \in Int : v = 10000 * units * final
        BY <2>3, <2>5
      <4>2. QED
        BY <2>0, <2>2, <2>3, <3>7, <4>1
    <3>12. QED
      <4>1. /\ summary.net = summary.gross - CostRate * MapThenSumSet(
                   LAMBDA b : Magnitude(fill[b].quantity * fill[b].price), Filled)
            /\ summary.turnover = MapThenSumSet(
                   LAMBDA b : Magnitude(fill[b].quantity * fill[b].price), Filled)
        BY <2>2, <3>2, <3>7, <3>11
      <4>2. /\ units = MapThenSumSet(LAMBDA b : fill[b].quantity, Filled)
            /\ summary.trades = Cardinality(Filled)
        BY <2>2, <3>3, <3>7
      <4>3. QED
        BY <3>9, <3>10, <4>1, <4>2 DEF AccountsReconcile, MapThenSumSet, MapThenFoldSet
  <2>7. ASSUME lag < NumBars, \A b \in Bar : decision[b].target = 1
        PROVE  summary.gross = summary.buyAndHold
    <3>1. OnlyLong
      BY <2>7 DEF OnlyLong
    <3>2. lag + 1 \in Bar /\ FirstExecutableBar = lag + 1
      BY <2>3, <2>7, ConstantFacts DEF Bar, FirstExecutableBar
    <3>3. open[lag + 1] # None
      BY <2>4, <3>2 DEF IInv, LogsFollowTheLoop
    <3>4. units = 1 /\ cash + costs = StartingCash - 10000 * open[lag + 1]
      BY <2>7, <3>1, <3>3 DEF ReportInv, LongInv
    <3>5. PICK first \in Int : first = open[lag + 1]
      BY <3>2, <3>3, ConstantFacts DEF IInv, TypeOK
    <3>6. 10000 * units * final = 10000 * final
      BY <2>5, <3>4
    <3>7. value = cash + 10000 * final /\ summary.gross = value + costs - StartingCash
      BY <2>0, <2>2, <3>6
    <3>8. /\ summary.buyAndHold = 10000 * (final - first)
          /\ cash + costs = StartingCash - 10000 * first
      BY <2>2, <3>2, <3>4, <3>5
    <3>9. QED
      BY <2>3, <2>5, <3>7, <3>8
  <2>8. QED
    BY <2>6, <2>7, SMTT(40) DEF ReportIsRight, AlwaysLongIsBuyAndHold
<1>3. QED
  BY <1>1, <1>2, Invariance, PTL
=============================================================================
