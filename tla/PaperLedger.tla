----------------------------- MODULE PaperLedger -----------------------------
(***************************************************************************)
(* The paper ledger (services/paper_ledger/service.py) over its artifact   *)
(* files.  An operation loads the whole workspace, decides, and writes its *)
(* artifacts one file after the other; it can be cut short after any       *)
(* write.  A file name is a canonical id, so that writing an artifact with *)
(* the same id replaces the old one, and a file that its own schema        *)
(* rejects makes every later load fail.                                    *)
(*                                                                         *)
(* Reviews of an admitted trade reach the ledger through the trade file:   *)
(* ReviewTrade is OperatorReviewService.apply_review_action reduced to the *)
(* files of this module; the module OperatorReview has the whole request.  *)
(***************************************************************************)
EXTENDS Integers, FiniteSets

CONSTANTS
    Trade,        \* paper trades
    Time,         \* instants an operator may put in a request
    Price, Qty,   \* reference prices and quantities, all positive
    SubmittedAt,  \* when the trades were proposed
    MaxEvents,    \* bounds the lifecycle events recorded for one trade
    OutcomeId,    \* ids of trade outcomes; bounds the outcomes of one trade
    None,         \* an optional field that is absent, a file that is missing
    AllowCrash    \* TRUE: the process may die between two writes

ASSUME ConstantsAssumption ==
    /\ Time \subseteq Nat /\ SubmittedAt \in Time
    /\ Price \subseteq Nat \ {0}
    /\ Qty \subseteq Nat \ {0}
    /\ OutcomeId \subseteq Nat /\ MaxEvents \in Nat
    /\ AllowCrash \in BOOLEAN


Optional(S) == S \cup {None}

TradeStatus == {"proposed", "approved", "rejected", "simulated", "cancelled"}
PositionStatus == {"approved_pending_fill", "open", "closed", "cancelled"}
Terminal == {"closed", "cancelled"}
Side == {"long", "short"}
EventType == {"simulated_fill_placeholder", "mark_updated", "closed", "cancelled"}
ReviewOutcome == {"approve", "reject", "needs_revision", "escalate"}

(* The canonical id of a lifecycle event and of its ledger entry.  The id  *)
(* of the admission has no time in it.                                     *)
Key == [trade : Trade, type : EventType, at : Time]
         \cup [trade : Trade, type : {"approval_admitted"}, at : {None}]
AdmissionKey(t) == [trade |-> t, type |-> "approval_admitted", at |-> None]
EventKey(t, type, at) == [trade |-> t, type |-> type, at |-> at]

(* A placeholder PnL: either both prices and the quantity were known       *)
(* (complete, with a value that a close realizes) or it carries no value.  *)
Placeholder == [complete : BOOLEAN, realized : BOOLEAN, value : Optional(Int)]

FollowupId == [trade : Trade, outcome : Optional(OutcomeId)]
MaterializationFollowup(t) == [trade |-> t, outcome |-> None]

PaperTrade == [status : TradeStatus, side : Side,
               quantity : Optional(Qty), price : Optional(Price),
               filledAt : Optional(Time), admitted : BOOLEAN,
               outcome : Optional(OutcomeId)]

PositionState == [state : PositionStatus, openedAt : Optional(Time),
                  closedAt : Optional(Time), quantity : Optional(Qty),
                  entryPrice : Optional(Price), pnl : Optional(Placeholder), latest : Key,
                  followups : SUBSET FollowupId, outcomes : SUBSET OutcomeId]

LifecycleEvent == [prior : Optional(PositionStatus), new : PositionStatus]
TradeOutcome == [pnl : Optional(Placeholder)]
LedgerEntry == [delta : Optional(Int), pnl : Optional(Placeholder)]

ASSUME NoneAssumption ==
    None \notin Int \cup PaperTrade \cup PositionState \cup LifecycleEvent
                    \cup LedgerEntry \cup TradeOutcome \cup Placeholder

VARIABLES
    trade,        \* paper_trades/, one file per trade
    position,     \* paper_position_states/, at most one file per trade
    entry,        \* paper_ledger_entries/, by canonical id
    event,        \* position_lifecycle_events/, by canonical id
    outcome,      \* trade_outcomes/ : the outcomes and the PnL each one carries
    attributed,   \* outcome_attributions/ : the outcomes that have one
    followup      \* review_followups/, all of them open

vars == <<trade, position, entry, event, outcome, attributed, followup>>

TypeOK ==
    /\ trade \in [Trade -> PaperTrade]
    /\ position \in [Trade -> Optional(PositionState)]
    /\ entry \in [Key -> Optional(LedgerEntry)]
    /\ event \in [Key -> Optional(LifecycleEvent)]
    /\ outcome \in [Trade -> [OutcomeId -> Optional(TradeOutcome)]]
    /\ attributed \in [Trade -> SUBSET OutcomeId]
    /\ followup \in SUBSET FollowupId

(* A proposed trade has both a reference price and the quantity derived    *)
(* from it, or neither (PaperExecutionService.propose_trades).             *)
ProposedTrade(quantities, prices) ==
    [status : {"proposed"}, side : Side, quantity : quantities, price : prices,
     filledAt : {None}, admitted : {FALSE}, outcome : {None}]

Init ==
    /\ trade \in [Trade -> ProposedTrade(Qty, Price) \cup ProposedTrade({None}, {None})]
    /\ position = [t \in Trade |-> None]
    /\ entry = [k \in Key |-> None]
    /\ event = [k \in Key |-> None]
    /\ outcome = [t \in Trade |-> [o \in OutcomeId |-> None]]
    /\ attributed = [t \in Trade |-> {}]
    /\ followup = {}

-----------------------------------------------------------------------------
(* Loading.  Every load validates every file; the first file its schema    *)
(* rejects raises, whichever trade it belongs to.                          *)

Before(a, b) == a # None /\ b # None /\ a < b

ValidPosition(p) ==
    /\ p.quantity # None => p.entryPrice # None
    /\ ~ Before(p.closedAt, p.openedAt)
    /\ p.state \in Terminal => p.closedAt # None

ValidTrade(tr) ==
    /\ tr.quantity # None => tr.price # None
    /\ ~ Before(tr.filledAt, SubmittedAt)
    /\ tr.status = "simulated" => tr.filledAt # None

Loads ==
    \A t \in Trade : ValidTrade(trade[t]) /\ (position[t] # None => ValidPosition(position[t]))

(* The trade and its position, both readable. *)
Resolves(t) == Loads /\ trade[t].admitted /\ position[t] # None

(* How many of an operation's five kinds of files get written. *)
Written == IF AllowCrash THEN 1..5 ELSE {5}

\* Mutant: the ledger entry is written before the position it belongs to.
PersistEntryFirst(n, t, tr, pos, k, ent, ev, fus) ==
    /\ trade' = [trade EXCEPT ![t] = tr]
    /\ entry' = IF n >= 2 THEN [entry EXCEPT ![k] = ent] ELSE entry
    /\ position' = IF n >= 3 THEN [position EXCEPT ![t] = pos] ELSE position
    /\ event' = IF n >= 4 THEN [event EXCEPT ![k] = ev] ELSE event
    /\ followup' = IF n >= 5 THEN followup \cup fus ELSE followup

(* The files of an admission or a lifecycle event, in the order they are   *)
(* written: the trade, its position, the ledger entry, the event, the      *)
(* followups.  The first n of them reach the disk.                         *)
Persist(n, t, tr, pos, k, ent, ev, fus) ==
    /\ trade' = [trade EXCEPT ![t] = tr]
    /\ position' = IF n >= 2 THEN [position EXCEPT ![t] = pos] ELSE position
    /\ entry' = IF n >= 3 THEN [entry EXCEPT ![k] = ent] ELSE entry
    /\ event' = IF n >= 4 THEN [event EXCEPT ![k] = ev] ELSE event
    /\ followup' = IF n >= 5 THEN followup \cup fus ELSE followup

-----------------------------------------------------------------------------
(* Review and admission. *)

\* Mutant: admission forgets to ask whether the trade is already tracked.
AlwaysAdmissible(tr) == TRUE

(* The check of admit_approved_trade that a review can fail: no trade is   *)
(* admitted twice.                                                         *)
Admissible(tr) == ~ tr.admitted

(* apply_review_decision_to_paper_trade: the outcome decides the status,   *)
(* whatever the status was.                                                *)
StatusAfterReview(o) ==
    CASE o = "approve" -> "approved"
      [] o = "reject" -> "rejected"
      [] o \in {"needs_revision", "escalate"} -> "proposed"

Reviewed(tr, o) == [tr EXCEPT !.status = StatusAfterReview(o)]

(* A review that admits nothing: any outcome but approval, or an approval  *)
(* of a trade that is already in the ledger, whose admission raises after  *)
(* the reviewed trade was written.                                         *)
ReviewTrade(t, o) ==
    /\ Loads
    /\ o # "approve" \/ ~ Admissible(trade[t])
    /\ trade' = [trade EXCEPT ![t] = Reviewed(@, o)]
    /\ UNCHANGED <<position, entry, event, outcome, attributed, followup>>

(* A trade without both quantity and price is admitted with a followup. *)
AdmissionFollowups(tr, t) ==
    IF tr.quantity = None \/ tr.price = None THEN {MaterializationFollowup(t)} ELSE {}

AdmittedPosition(tr, t) ==
    [state |-> "approved_pending_fill", openedAt |-> None, closedAt |-> None,
     quantity |-> tr.quantity, entryPrice |-> tr.price, pnl |-> None, latest |-> AdmissionKey(t),
     followups |-> AdmissionFollowups(tr, t), outcomes |-> {}]

(* An approval of a trade the ledger does not know: the approved trade is  *)
(* written, then admit_approved_trade writes its own files.  n = 0 is a    *)
(* process that dies before the admission wrote anything.                  *)
ApproveAndAdmit(t, n) ==
    /\ Loads
    /\ Admissible(trade[t])
    /\ LET tr == Reviewed(trade[t], "approve")
       IN  Persist(n, t,
                   IF n = 0 THEN tr ELSE [tr EXCEPT !.admitted = TRUE],
                   AdmittedPosition(tr, t),
                   AdmissionKey(t),
                   [delta |-> tr.quantity, pnl |-> None],
                   [prior |-> None, new |-> "approved_pending_fill"],
                   AdmissionFollowups(tr, t))
    /\ UNCHANGED <<outcome, attributed>>

-----------------------------------------------------------------------------
(* Lifecycle events. *)

(* _new_state_from_event *)
NewState(prior, type) ==
    CASE type = "simulated_fill_placeholder" -> "open"
      [] type = "mark_updated" -> IF prior = "approved_pending_fill" THEN "open" ELSE prior
      [] type = "closed" -> "closed"
      [] type = "cancelled" -> "cancelled"

OrElse(request, stored) == IF request # None THEN request ELSE stored

\* Mutant: a missing entry price falls back on the price of the event.
PlaceholderFromMark(side, quantity, entryPrice, price, type) ==
    IF price = None THEN None
    ELSE IF quantity = None
         THEN [complete |-> FALSE, realized |-> FALSE, value |-> None]
         ELSE [complete |-> TRUE, realized |-> (type = "closed"),
               value |-> quantity * (price - OrElse(entryPrice, price))]

(* _build_placeholder_for_event: the gain of the side, none without the    *)
(* price of the event, incomplete without a quantity and an entry price.   *)
PlaceholderFor(side, quantity, entryPrice, price, type) ==
    IF price = None THEN None
    ELSE IF quantity = None \/ entryPrice = None
         THEN [complete |-> FALSE, realized |-> FALSE, value |-> None]
         ELSE [complete |-> TRUE, realized |-> (type = "closed"),
               value |-> quantity * (IF side = "long" THEN price - entryPrice
                                                      ELSE entryPrice - price)]

(* _ledger_deltas_for_event *)
QuantityDelta(type, prior, new) ==
    CASE type = "simulated_fill_placeholder" ->
            IF new # None /\ prior # None THEN new - prior ELSE new
      [] type = "closed" -> IF prior # None THEN 0 - prior ELSE None
      [] OTHER -> None

\* Mutant: the trade gets the status of its position, which is not one of its own.
TradeClosedByEvent(tr, type, at) ==
    CASE type = "simulated_fill_placeholder" ->
            [tr EXCEPT !.status = "simulated", !.filledAt = at]
      [] type \in Terminal -> [tr EXCEPT !.status = type]
      [] OTHER -> tr

(* _update_trade_for_lifecycle_event: a close leaves the trade's status. *)
TradeAfterEvent(tr, type, at) ==
    CASE type = "simulated_fill_placeholder" ->
            [tr EXCEPT !.status = "simulated", !.filledAt = at]
      [] type = "cancelled" -> [tr EXCEPT !.status = "cancelled"]
      [] OTHER -> tr

\* Mutant: a cancelled position gets no end time.
EndTimeOfCloseOnly(p, k) == IF k.type = "closed" THEN k.at ELSE p.closedAt

EndTime(p, k) == IF NewState(p.state, k.type) \in Terminal THEN k.at ELSE p.closedAt

(* The position after the event.  The entry price stays what it was at     *)
(* admission, and the request's time is taken as it is.                    *)
PositionAfterEvent(p, side, k, price, qty) ==
    LET new == NewState(p.state, k.type)
        quantity == OrElse(qty, p.quantity)
    IN  [p EXCEPT !.state = new,
                  !.openedAt = IF new = "open" /\ p.openedAt = None THEN k.at ELSE p.openedAt,
                  !.closedAt = EndTime(p, k),
                  !.quantity = quantity,
                  !.pnl = OrElse(PlaceholderFor(side, quantity, p.entryPrice, price, k.type), p.pnl),
                  !.latest = k]

(* The bound on the model: a trade may have MaxEvents entries besides its  *)
(* admission, and any of them may be written over.                         *)
HasRoom(t, k) ==
    \/ entry[k] # None
    \/ Cardinality({e \in Key : e.trade = t /\ entry[e] # None}) <= MaxEvents

\* Mutant: events are accepted whatever the position's state.
AcceptsAnyEvent(p) == TRUE

(* Only a position that has not ended accepts another lifecycle event. *)
AcceptsEvent(p) == p.state \notin Terminal

(* record_lifecycle_event *)
RecordLifecycleEvent(t, type, at, price, qty, n) ==
    /\ Resolves(t)
    /\ HasRoom(t, EventKey(t, type, at))
    /\ AcceptsEvent(position[t])
    /\ LET p == position[t]
           k == EventKey(t, type, at)
           q == OrElse(qty, p.quantity)
       IN  Persist(n, t,
                   TradeAfterEvent(trade[t], type, at),
                   PositionAfterEvent(p, trade[t].side, k, price, qty),
                   k,
                   [delta |-> QuantityDelta(type, p.quantity, q),
                    pnl |-> PlaceholderFor(trade[t].side, q, p.entryPrice, price, type)],
                   [prior |-> p.state, new |-> NewState(p.state, type)],
                   {})
    /\ UNCHANGED <<outcome, attributed>>

-----------------------------------------------------------------------------
(* Trade outcomes. *)

\* Mutant: an outcome may be recorded about a position that is still open.
AcceptsAnyOutcome(p) == TRUE

(* Only a position that has ended accepts a trade outcome. *)
AcceptsOutcome(p) == p.state \in Terminal

(* An outcome id is a fresh uuid: no file mentions it. *)
FreshOutcome(t, o) ==
    /\ o # trade[t].outcome
    /\ o \notin position[t].outcomes
    /\ outcome[t][o] = None

(* record_trade_outcome: the trade, its position, the outcome, its         *)
(* attribution and the followups the operator asked for, in that order.    *)
RecordTradeOutcome(t, o, asked, n) ==
    /\ Resolves(t)
    /\ AcceptsOutcome(position[t])
    /\ FreshOutcome(t, o)
    /\ LET new == IF asked THEN {[trade |-> t, outcome |-> o]} ELSE {}
       IN  /\ position' = IF n >= 2
                          THEN [position EXCEPT ![t].outcomes = @ \cup {o},
                                                ![t].followups = @ \cup new]
                          ELSE position
           /\ followup' = IF n >= 5 THEN followup \cup new ELSE followup
    /\ trade' = [trade EXCEPT ![t].outcome = o]
    /\ outcome' = IF n >= 3 THEN [outcome EXCEPT ![t][o] = [pnl |-> position[t].pnl]] ELSE outcome
    /\ attributed' = IF n >= 4 THEN [attributed EXCEPT ![t] = @ \cup {o}] ELSE attributed
    /\ UNCHANGED <<entry, event>>

-----------------------------------------------------------------------------

TradeStep(t) ==
    \/ \E o \in ReviewOutcome : ReviewTrade(t, o)
    \/ \E n \in Written \cup (IF AllowCrash THEN {0} ELSE {}) : ApproveAndAdmit(t, n)
    \/ \E type \in EventType, at \in Time, price \in Optional(Price), qty \in Optional(Qty),
          n \in Written : RecordLifecycleEvent(t, type, at, price, qty, n)
    \/ \E o \in OutcomeId, asked \in BOOLEAN, n \in Written : RecordTradeOutcome(t, o, asked, n)

Next == \E t \in Trade : TradeStep(t)

Spec == Init /\ [][Next]_vars

-----------------------------------------------------------------------------
(* Properties.                                                              *)

(* The files of an operation are written trade first, then position, then  *)
(* entry, then event (_persist_trade_and_ledger_artifacts), so that an     *)
(* operation cut short leaves no orphan: an event has its entry, an entry  *)
(* its position, and a position a trade that says it was admitted.  The    *)
(* last part is what keeps such a trade from being admitted again.         *)
NoOrphans ==
    /\ \A k \in Key : event[k] # None => entry[k] # None
    /\ \A k \in Key : entry[k] # None => position[k.trade] # None
    /\ \A t \in Trade : position[t] # None => trade[t].admitted

(* "closed and cancelled are terminal paper-position states": whatever     *)
(* review or event comes after, the end of a position, its quantity and    *)
(* its PnL stay what they were, so that the outcomes recorded later all    *)
(* speak of the same position.                                             *)
Ended(p) == p # None /\ p.state \in Terminal
TerminalIsFinal ==
    [][\A t \in Trade : Ended(position[t]) =>
          position'[t] = [position[t] EXCEPT !.outcomes = position'[t].outcomes,
                                             !.followups = position'[t].followups]]_vars

(* A trade outcome is only about a position that has ended, and carries    *)
(* the PnL that position ended with (record_trade_outcome); the position   *)
(* can no longer move away under it.                                       *)
OutcomesDescribeTheEnd ==
    \A t \in Trade, o \in OutcomeId : outcome[t][o] # None =>
        /\ Ended(position[t])
        /\ o \in position[t].outcomes
        /\ outcome[t][o].pnl = position[t].pnl

(* "The system does not invent quantity or placeholder PnL": a position    *)
(* admitted without an entry price never shows a PnL value, in its state,  *)
(* its entries or its outcomes, however many marks and fills it gets.      *)
Valueless(pnl) == pnl # None => ~ pnl.complete /\ pnl.value = None
NoInventedPnl ==
    \A t \in Trade : position[t] # None /\ position[t].entryPrice = None =>
        /\ Valueless(position[t].pnl)
        /\ \A k \in Key : k.trade = t /\ entry[k] # None => Valueless(entry[k].pnl)
        /\ \A o \in OutcomeId : outcome[t][o] # None => Valueless(outcome[t][o].pnl)

(* The ledger implements the lifecycle the docs promise, even when its     *)
(* operations are cut short.                                               *)
Lifecycle == INSTANCE PositionLifecycle
    WITH phase <- [t \in Trade |-> IF position[t] = None THEN "untracked" ELSE position[t].state]
ImplementsLifecycle == Lifecycle!Spec

(* Without crashes the history explains the state.  The event that the     *)
(* position names last is recorded and led to its state; the time it       *)
(* opened and the time it ended are times of recorded events that opened   *)
(* and ended it, although an event may replace an earlier one of the same  *)
(* type and time.                                                          *)
EventExplains(t, at, states) ==
    \E k \in Key : k.trade = t /\ k.at = at /\ event[k] # None /\ event[k].new \in states
HistoryExplainsPosition ==
    \A t \in Trade : position[t] # None =>
        LET p == position[t]
        IN  /\ event[p.latest] # None /\ event[p.latest].new = p.state
            /\ p.openedAt # None => EventExplains(t, p.openedAt, {"open"})
            /\ p.closedAt # None => EventExplains(t, p.closedAt, Terminal)
            /\ (p.closedAt # None) <=> (p.state \in Terminal)

(* Without crashes and until a later review rewrites it, the status a      *)
(* lifecycle event gave a trade agrees with its position: a simulated      *)
(* trade has a recorded fill at its fill time and a position that was      *)
(* opened, a cancelled one a cancelled position.                           *)
TradeAgreesWithPosition ==
    \A t \in Trade :
        /\ trade[t].status = "simulated" =>
              /\ event[EventKey(t, "simulated_fill_placeholder", trade[t].filledAt)] # None
              /\ position[t].state \in {"open", "closed"}
              /\ position[t].openedAt # None
        /\ trade[t].status = "cancelled" => position[t].state = "cancelled"

(* Without crashes every reference a trade or a position holds leads to a  *)
(* file: the position of an admitted trade, the followup of an admission   *)
(* without price or quantity, the outcomes with their attributions.        *)
ReferencesResolve ==
    \A t \in Trade :
        /\ trade[t].admitted => position[t] # None /\ entry[AdmissionKey(t)] # None
        /\ trade[t].outcome # None => trade[t].outcome \in position[t].outcomes
        /\ position[t] # None =>
              /\ position[t].followups \subseteq followup
              /\ position[t].entryPrice = None => MaterializationFollowup(t) \in position[t].followups
              /\ \A o \in position[t].outcomes : outcome[t][o] # None /\ o \in attributed[t]

(* Without crashes the files of a trade agree: its events, its trade, its  *)
(* position and everything they refer to.                                  *)
FilesAgree ==
    /\ HistoryExplainsPosition
    /\ TradeAgreesWithPosition
    /\ ReferencesResolve

(* PaperPositionState.validate_state: "entry_reference_price_usd is        *)
(* required when quantity is materialized."                                *)
QuantityHasEntryPrice ==
    \A t \in Trade : position[t] # None => (position[t].quantity # None => position[t].entryPrice # None)
=============================================================================
