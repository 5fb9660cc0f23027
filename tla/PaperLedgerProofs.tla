-------------------------- MODULE PaperLedgerProofs --------------------------
(***************************************************************************)
(* What holds of the paper ledger for every set of trades, times, prices   *)
(* and quantities, and for operations cut short after any of their writes. *)
(***************************************************************************)
EXTENDS PaperLedger, TLAPS

-----------------------------------------------------------------------------
(* The operators the operations are built from return what they should.    *)

(* A reviewed trade is a trade. *)
LEMMA ReviewedTyped ==
    ASSUME NEW tr \in PaperTrade, NEW o \in ReviewOutcome
    PROVE  Reviewed(tr, o) \in PaperTrade
BY DEF Reviewed, StatusAfterReview, PaperTrade, TradeStatus, ReviewOutcome

(* Keys of admissions and of events are keys, of the trade they name. *)
LEMMA KeysTyped ==
    ASSUME NEW t \in Trade
    PROVE  /\ AdmissionKey(t) \in Key
           /\ AdmissionKey(t).trade = t
           /\ \A type \in EventType, at \in Time :
                 /\ EventKey(t, type, at) \in Key
                 /\ EventKey(t, type, at).trade = t
                 /\ EventKey(t, type, at).type = type
                 /\ EventKey(t, type, at).at = at
BY DEF AdmissionKey, EventKey, Key

(* An admission creates a position, with followups of its own trade. *)
LEMMA AdmissionTyped ==
    ASSUME NEW t \in Trade, NEW tr \in PaperTrade
    PROVE  /\ AdmissionFollowups(tr, t) \in SUBSET FollowupId
           /\ AdmittedPosition(tr, t) \in PositionState
           /\ AdmittedPosition(tr, t).state = "approved_pending_fill"
           /\ AdmittedPosition(tr, t).pnl = None
<1>1. AdmissionFollowups(tr, t) \in SUBSET FollowupId
  BY DEF AdmissionFollowups, MaterializationFollowup, FollowupId, Optional
<1>2. AdmissionKey(t) \in Key
  BY KeysTyped
<1>3. QED
  BY <1>1, <1>2 DEF AdmittedPosition, PositionState, PaperTrade, PositionStatus, Optional

(* A placeholder has a value only when the position had an entry price. *)
LEMMA PlaceholderTyped ==
    ASSUME NEW side \in Side, NEW quantity \in Optional(Qty), NEW entryPrice \in Optional(Price),
           NEW price \in Optional(Price), NEW type \in EventType
    PROVE  /\ PlaceholderFor(side, quantity, entryPrice, price, type) \in Optional(Placeholder)
           /\ entryPrice = None => Valueless(PlaceholderFor(side, quantity, entryPrice, price, type))
<1> DEFINE gain == IF side = "long" THEN price - entryPrice ELSE entryPrice - price
<1>1. CASE price = None
  BY <1>1 DEF PlaceholderFor, Optional, Valueless
<1>2. CASE price # None /\ (quantity = None \/ entryPrice = None)
  BY <1>2 DEF PlaceholderFor, Optional, Placeholder, Valueless
<1>3. CASE price # None /\ quantity # None /\ entryPrice # None
  <2>1. price \in Int /\ quantity \in Int /\ entryPrice \in Int
    BY <1>3, ConstantsAssumption DEF Optional
  <2>2. gain \in Int
    BY <2>1
  <2>3. quantity * gain \in Int
    BY <2>1, <2>2
  <2>4. PlaceholderFor(side, quantity, entryPrice, price, type)
          = [complete |-> TRUE, realized |-> (type = "closed"), value |-> quantity * gain]
    BY <1>3 DEF PlaceholderFor
  <2>5. QED
    BY <1>3, <2>3, <2>4 DEF Placeholder, Optional
<1>4. QED
  BY <1>1, <1>2, <1>3

(* An event leaves a trade a trade, without touching its admission. *)
LEMMA TradeAfterEventTyped ==
    ASSUME NEW tr \in PaperTrade, NEW type \in EventType, NEW at \in Time
    PROVE  /\ TradeAfterEvent(tr, type, at) \in PaperTrade
           /\ TradeAfterEvent(tr, type, at).admitted = tr.admitted
BY DEF TradeAfterEvent, PaperTrade, EventType, TradeStatus, Optional

(* An event only moves a position forward. *)
LEMMA NewStateTyped ==
    ASSUME NEW prior \in PositionStatus, NEW type \in EventType
    PROVE  /\ NewState(prior, type) \in {"open", "closed", "cancelled", prior}
           /\ prior \notin Terminal => NewState(prior, type) \in {"open", "closed", "cancelled"}
           /\ NewState(prior, type) \in PositionStatus
BY DEF NewState, PositionStatus, EventType, Terminal

(* An event leaves a position a position, with its entry price and its     *)
(* outcomes, and without a PnL value when the entry price is missing.      *)
LEMMA PositionAfterEventTyped ==
    ASSUME NEW p \in PositionState, NEW side \in Side, NEW k \in Key, k.type \in EventType,
           k.at \in Time, NEW price \in Optional(Price), NEW qty \in Optional(Qty)
    PROVE  LET q == PositionAfterEvent(p, side, k, price, qty)
           IN  /\ q \in PositionState
               /\ q.state = NewState(p.state, k.type)
               /\ q.entryPrice = p.entryPrice
               /\ q.outcomes = p.outcomes
               /\ p.entryPrice = None /\ Valueless(p.pnl) => Valueless(q.pnl)
<1> DEFINE quantity == OrElse(qty, p.quantity)
           placeholder == PlaceholderFor(side, quantity, p.entryPrice, price, k.type)
           q == PositionAfterEvent(p, side, k, price, qty)
<1>1. quantity \in Optional(Qty)
  BY DEF OrElse, Optional, PositionState
<1>2. /\ placeholder \in Optional(Placeholder)
      /\ p.entryPrice = None => Valueless(placeholder)
  BY <1>1, PlaceholderTyped DEF PositionState
<1>3. OrElse(placeholder, p.pnl) \in Optional(Placeholder)
  BY <1>2 DEF OrElse, PositionState
<1>4. NewState(p.state, k.type) \in PositionStatus
  BY NewStateTyped DEF PositionState
<1>5. EndTime(p, k) \in Optional(Time)
  BY DEF EndTime, Optional, PositionState
<1>6. q = [p EXCEPT !.state = NewState(p.state, k.type),
                    !.openedAt = IF NewState(p.state, k.type) = "open" /\ p.openedAt = None
                                 THEN k.at ELSE p.openedAt,
                    !.closedAt = EndTime(p, k),
                    !.quantity = quantity,
                    !.pnl = OrElse(placeholder, p.pnl),
                    !.latest = k]
  BY DEF PositionAfterEvent
<1> HIDE DEF quantity, placeholder, q
<1>7. /\ q \in PositionState
      /\ q.state = NewState(p.state, k.type)
      /\ q.entryPrice = p.entryPrice
      /\ q.outcomes = p.outcomes
      /\ q.pnl = OrElse(placeholder, p.pnl)
  BY <1>1, <1>3, <1>4, <1>5, <1>6 DEF PositionState, Optional
<1>8. p.entryPrice = None /\ Valueless(p.pnl) => Valueless(q.pnl)
  BY <1>2, <1>7 DEF OrElse
<1>9. QED
  BY <1>7, <1>8 DEF q

(* The delta of a ledger entry is a number or absent. *)
LEMMA QuantityDeltaTyped ==
    ASSUME NEW type \in EventType, NEW prior \in Optional(Qty), NEW new \in Optional(Qty)
    PROVE  QuantityDelta(type, prior, new) \in Optional(Int)
BY ConstantsAssumption DEF QuantityDelta, Optional

-----------------------------------------------------------------------------
(* The state is well typed. *)

(* Writing any number of well-typed artifacts keeps the files well typed. *)
LEMMA PersistTyped ==
    ASSUME TypeOK, NEW n \in 0..5, NEW t \in Trade, NEW tr \in PaperTrade,
           NEW pos \in PositionState, NEW k \in Key, NEW ent \in LedgerEntry,
           NEW ev \in LifecycleEvent, NEW fus \in SUBSET FollowupId,
           Persist(n, t, tr, pos, k, ent, ev, fus), UNCHANGED <<outcome, attributed>>
    PROVE  TypeOK'
<1>1. trade' \in [Trade -> PaperTrade]
  BY DEF TypeOK, Persist
<1>2. position' \in [Trade -> Optional(PositionState)]
  BY DEF TypeOK, Persist, Optional
<1>3. entry' \in [Key -> Optional(LedgerEntry)]
  BY DEF TypeOK, Persist, Optional
<1>4. event' \in [Key -> Optional(LifecycleEvent)]
  BY DEF TypeOK, Persist, Optional
<1>5. followup' \in SUBSET FollowupId
  BY DEF TypeOK, Persist
<1>6. QED
  BY <1>1, <1>2, <1>3, <1>4, <1>5 DEF TypeOK

(* What an approval writes, named, with its type. *)
LEMMA ApproveAndAdmitWrites ==
    ASSUME TypeOK, NEW t \in Trade, NEW n \in 0..5, ApproveAndAdmit(t, n)
    PROVE  \E tr \in PaperTrade, pos \in PositionState, k \in Key,
              ent \in LedgerEntry, ev \in LifecycleEvent, fus \in SUBSET FollowupId :
              /\ Persist(n, t, tr, pos, k, ent, ev, fus)
              /\ UNCHANGED <<outcome, attributed>>
              /\ ~ trade[t].admitted /\ (tr.admitted \/ n = 0)
              /\ pos.state = "approved_pending_fill" /\ pos.pnl = None /\ ent.pnl = None
              /\ k.trade = t
<1> DEFINE reviewed == Reviewed(trade[t], "approve")
           tr == IF n = 0 THEN reviewed ELSE [reviewed EXCEPT !.admitted = TRUE]
           pos == AdmittedPosition(reviewed, t)
           k == AdmissionKey(t)
           ent == [delta |-> reviewed.quantity, pnl |-> None]
           ev == [prior |-> None, new |-> "approved_pending_fill"]
           fus == AdmissionFollowups(reviewed, t)
<1>1. /\ Persist(n, t, tr, pos, k, ent, ev, fus)
      /\ UNCHANGED <<outcome, attributed>>
      /\ ~ trade[t].admitted
  BY DEF ApproveAndAdmit, Admissible
<1>2. reviewed \in PaperTrade
  BY ReviewedTyped DEF TypeOK, ReviewOutcome
<1> HIDE DEF reviewed
<1>3. tr \in PaperTrade /\ (tr.admitted \/ n = 0)
  BY <1>2 DEF PaperTrade
<1>4. /\ fus \in SUBSET FollowupId
      /\ pos \in PositionState /\ pos.state = "approved_pending_fill" /\ pos.pnl = None
      /\ k \in Key /\ k.trade = t
  BY <1>2, AdmissionTyped, KeysTyped
<1>5. ent \in LedgerEntry /\ ent.pnl = None
  <2>1. reviewed.quantity \in Optional(Qty)
    BY <1>2 DEF PaperTrade
  <2>2. ASSUME NEW x \in Qty PROVE x \in Int
    BY ConstantsAssumption
  <2>3. reviewed.quantity \in Optional(Int)
    BY <2>1, <2>2 DEF Optional
  <2>4. QED
    BY <2>3 DEF LedgerEntry, Optional
<1>6. ev \in LifecycleEvent
  BY DEF LifecycleEvent, Optional, PositionStatus
<1> HIDE DEF tr, pos, k, ent, ev, fus
<1>7. QED
  BY <1>1, <1>3, <1>4, <1>5, <1>6

(* What a lifecycle event writes, named, with its type. *)
LEMMA RecordLifecycleEventWrites ==
    ASSUME TypeOK, NEW t \in Trade, NEW type \in EventType, NEW at \in Time,
           NEW price \in Optional(Price), NEW qty \in Optional(Qty), NEW n \in 0..5,
           RecordLifecycleEvent(t, type, at, price, qty, n)
    PROVE  \E tr \in PaperTrade, pos \in PositionState, k \in Key,
              ent \in LedgerEntry, ev \in LifecycleEvent :
              /\ Persist(n, t, tr, pos, k, ent, ev, {})
              /\ UNCHANGED <<outcome, attributed>>
              /\ tr.admitted
              /\ position[t] # None /\ position[t] \in PositionState
              /\ position[t].state \notin Terminal
              /\ pos.state = NewState(position[t].state, type)
              /\ pos.entryPrice = position[t].entryPrice
              /\ pos.outcomes = position[t].outcomes
              /\ position[t].entryPrice = None /\ Valueless(position[t].pnl) => Valueless(pos.pnl)
              /\ position[t].entryPrice = None => Valueless(ent.pnl)
              /\ k.trade = t
<1> DEFINE p == position[t]
           k == EventKey(t, type, at)
           q == OrElse(qty, p.quantity)
           placeholder == PlaceholderFor(trade[t].side, q, p.entryPrice, price, type)
           tr == TradeAfterEvent(trade[t], type, at)
           pos == PositionAfterEvent(p, trade[t].side, k, price, qty)
           ent == [delta |-> QuantityDelta(type, p.quantity, q), pnl |-> placeholder]
           ev == [prior |-> p.state, new |-> NewState(p.state, type)]
<1>1. p \in PositionState /\ p # None /\ trade[t].admitted /\ p.state \notin Terminal
  BY DEF TypeOK, RecordLifecycleEvent, Resolves, AcceptsEvent, Optional
<1>2. trade[t] \in PaperTrade /\ trade[t].side \in Side
  BY DEF TypeOK, PaperTrade
<1>3. k \in Key /\ k.trade = t /\ k.type = type /\ k.at = at
  BY KeysTyped
<1>4. q \in Optional(Qty) /\ p.quantity \in Optional(Qty) /\ p.entryPrice \in Optional(Price)
  BY <1>1 DEF OrElse, PositionState, Optional
<1>5. /\ placeholder \in Optional(Placeholder)
      /\ p.entryPrice = None => Valueless(placeholder)
  BY <1>2, <1>4, PlaceholderTyped
<1>6. tr \in PaperTrade /\ tr.admitted
  BY <1>1, <1>2, TradeAfterEventTyped
<1>7. /\ pos \in PositionState
      /\ pos.state = NewState(p.state, type)
      /\ pos.entryPrice = p.entryPrice
      /\ pos.outcomes = p.outcomes
      /\ p.entryPrice = None /\ Valueless(p.pnl) => Valueless(pos.pnl)
  BY <1>1, <1>2, <1>3, PositionAfterEventTyped
<1>8. ent \in LedgerEntry /\ ent.pnl = placeholder
  BY <1>4, <1>5, QuantityDeltaTyped DEF LedgerEntry
<1>9. ev \in LifecycleEvent
  BY <1>1, NewStateTyped DEF LifecycleEvent, PositionState, Optional
<1>10. Persist(n, t, tr, pos, k, ent, ev, {}) /\ UNCHANGED <<outcome, attributed>>
  BY DEF RecordLifecycleEvent
<1> HIDE DEF p, k, q, placeholder, tr, pos, ent, ev
<1>11. QED
  <2>1. p = position[t]
    BY DEF p
  <2>2. QED
    BY <1>1, <1>3, <1>5, <1>6, <1>7, <1>8, <1>9, <1>10, <2>1

(* What recording an outcome writes is well typed. *)
LEMMA RecordTradeOutcomeTyped ==
    ASSUME TypeOK, NEW t \in Trade, NEW o \in OutcomeId, NEW asked \in BOOLEAN, NEW n \in 0..5,
           RecordTradeOutcome(t, o, asked, n)
    PROVE  TypeOK'
<1> DEFINE new == IF asked THEN {[trade |-> t, outcome |-> o]} ELSE {}
<1>1. position[t] \in PositionState
  BY DEF TypeOK, RecordTradeOutcome, Resolves, Optional
<1>2. new \in SUBSET FollowupId
  BY DEF FollowupId, Optional
<1>3. trade' \in [Trade -> PaperTrade]
  BY ZenonT(60) DEF TypeOK, RecordTradeOutcome, PaperTrade, Optional
<1>4. position' \in [Trade -> Optional(PositionState)]
  <2>1. [position[t] EXCEPT !.outcomes = @ \cup {o}, !.followups = @ \cup new] \in PositionState
    BY <1>1, <1>2 DEF PositionState
  <2>2. position' = position \/
        position' = [position EXCEPT ![t] = [position[t] EXCEPT !.outcomes = @ \cup {o},
                                                               !.followups = @ \cup new]]
    BY DEF RecordTradeOutcome
  <2>3. QED
    BY <2>1, <2>2 DEF TypeOK, Optional
<1>5. outcome' \in [Trade -> [OutcomeId -> Optional(TradeOutcome)]]
  <2>1. [pnl |-> position[t].pnl] \in TradeOutcome
    BY <1>1 DEF PositionState, TradeOutcome
  <2>2. QED
    BY <2>1 DEF TypeOK, RecordTradeOutcome, Optional
<1>6. attributed' \in [Trade -> SUBSET OutcomeId]
  BY DEF TypeOK, RecordTradeOutcome
<1>7. followup' \in SUBSET FollowupId
  BY <1>2 DEF TypeOK, RecordTradeOutcome
<1>8. QED
  BY <1>3, <1>4, <1>5, <1>6, <1>7 DEF TypeOK, RecordTradeOutcome

(* Every artifact of the ledger is always well typed. *)
THEOREM TypeCorrect == Spec => []TypeOK
<1>1. Init => TypeOK
  <2> SUFFICES ASSUME Init PROVE TypeOK
    OBVIOUS
  <2>1. trade \in [Trade -> PaperTrade]
    BY DEF Init, ProposedTrade, PaperTrade, TradeStatus, Optional
  <2>2. QED
    BY <2>1 DEF Init, TypeOK, Optional
<1>2. TypeOK /\ [Next]_vars => TypeOK'
  <2> SUFFICES ASSUME TypeOK, [Next]_vars PROVE TypeOK'
    OBVIOUS
  <2>1. ASSUME NEW t \in Trade, NEW o \in ReviewOutcome, ReviewTrade(t, o) PROVE TypeOK'
    <3>1. trade' = [trade EXCEPT ![t] = Reviewed(trade[t], o)]
      BY <2>1 DEF ReviewTrade
    <3>2. Reviewed(trade[t], o) \in PaperTrade
      BY ReviewedTyped DEF TypeOK
    <3>3. QED
      BY <2>1, <3>1, <3>2 DEF TypeOK, ReviewTrade
  <2>2. ASSUME NEW t \in Trade, NEW n \in 0..5, ApproveAndAdmit(t, n) PROVE TypeOK'
    BY <2>2, ApproveAndAdmitWrites, PersistTyped
  <2>3. ASSUME NEW t \in Trade, NEW type \in EventType, NEW at \in Time,
               NEW price \in Optional(Price), NEW qty \in Optional(Qty), NEW n \in 0..5,
               RecordLifecycleEvent(t, type, at, price, qty, n)
        PROVE  TypeOK'
    BY <2>3, RecordLifecycleEventWrites, PersistTyped
  <2>4. ASSUME NEW t \in Trade, NEW o \in OutcomeId, NEW asked \in BOOLEAN, NEW n \in 0..5,
               RecordTradeOutcome(t, o, asked, n)
        PROVE  TypeOK'
    BY <2>4, RecordTradeOutcomeTyped
  <2>5. CASE UNCHANGED vars
    BY <2>5 DEF vars, TypeOK
  <2>6. Written \subseteq 0..5
    BY DEF Written
  <2>7. QED
    BY <2>1, <2>2, <2>3, <2>4, <2>5, <2>6 DEF Next, TradeStep
<1>3. QED
  BY <1>1, <1>2, PTL DEF Spec

-----------------------------------------------------------------------------
(* Safety.  IInv is inductive: the write order keeps files from becoming   *)
(* orphans, so that a trade without its admission has no position, entry   *)
(* or outcome that an admission could contradict, and an outcome finds its *)
(* position ended, which no event accepts.                                 *)

IInv == TypeOK /\ NoOrphans /\ OutcomesDescribeTheEnd /\ NoInventedPnl

(* The write order: trade, position, entry, event. *)
LEMMA PersistNoOrphans ==
    ASSUME TypeOK, NoOrphans, NEW n \in 0..5, NEW t \in Trade, NEW tr \in PaperTrade,
           NEW pos \in PositionState, NEW k \in Key, NEW ent \in LedgerEntry,
           NEW ev \in LifecycleEvent, NEW fus \in SUBSET FollowupId,
           Persist(n, t, tr, pos, k, ent, ev, fus), k.trade = t,
           tr.admitted \/ (n = 0 /\ position[t] = None)
    PROVE  NoOrphans'
<1>1. ent # None /\ pos # None
  BY NoneAssumption
<1>2. ASSUME NEW j \in Key, event'[j] # None PROVE entry'[j] # None
  BY <1>1, <1>2 DEF TypeOK, NoOrphans, Persist
<1>3. ASSUME NEW j \in Key, entry'[j] # None PROVE position'[j.trade] # None
  <2>1. CASE j = k /\ n >= 3
    BY <1>1, <2>1 DEF TypeOK, Persist
  <2>2. CASE ~ (j = k /\ n >= 3)
    <3>1. entry[j] # None
      BY <1>3, <2>2 DEF TypeOK, Persist
    <3>2. position[j.trade] # None
      BY <3>1 DEF NoOrphans
    <3>3. j.trade \in Trade
      BY DEF Key
    <3>4. QED
      BY <1>1, <3>2, <3>3 DEF TypeOK, Persist
  <2>3. QED
    BY <2>1, <2>2
<1>4. ASSUME NEW u \in Trade, position'[u] # None PROVE trade'[u].admitted
  BY <1>4 DEF TypeOK, NoOrphans, Persist
<1>5. QED
  BY <1>2, <1>3, <1>4 DEF NoOrphans

(* A position that has not ended has no outcomes for a write to disturb. *)
LEMMA PersistOutcomes ==
    ASSUME TypeOK, OutcomesDescribeTheEnd, NEW n \in 0..5, NEW t \in Trade, NEW tr \in PaperTrade,
           NEW pos \in PositionState, NEW k \in Key, NEW ent \in LedgerEntry,
           NEW ev \in LifecycleEvent, NEW fus \in SUBSET FollowupId,
           Persist(n, t, tr, pos, k, ent, ev, fus), UNCHANGED outcome, ~ Ended(position[t])
    PROVE  OutcomesDescribeTheEnd'
<1> SUFFICES ASSUME NEW u \in Trade, NEW o \in OutcomeId, outcome'[u][o] # None
             PROVE  Ended(position'[u]) /\ o \in position'[u].outcomes
                    /\ outcome'[u][o].pnl = position'[u].pnl
  BY DEF OutcomesDescribeTheEnd, Ended
<1>1. Ended(position[u]) /\ o \in position[u].outcomes /\ outcome[u][o].pnl = position[u].pnl
  BY DEF OutcomesDescribeTheEnd
<1>2. u # t
  BY <1>1
<1>3. position'[u] = position[u]
  BY <1>2 DEF TypeOK, Persist
<1>4. QED
  BY <1>1, <1>3

(* A write whose values are missing when the entry price is. *)
LEMMA PersistNoInventedPnl ==
    ASSUME TypeOK, NoOrphans, OutcomesDescribeTheEnd, NoInventedPnl,
           NEW n \in 0..5, NEW t \in Trade, NEW tr \in PaperTrade,
           NEW pos \in PositionState, NEW k \in Key, NEW ent \in LedgerEntry,
           NEW ev \in LifecycleEvent, NEW fus \in SUBSET FollowupId,
           Persist(n, t, tr, pos, k, ent, ev, fus), UNCHANGED outcome, k.trade = t,
           ~ Ended(position[t]),
           position[t] # None => pos.entryPrice = position[t].entryPrice,
           pos.entryPrice = None /\ NoInventedPnl => Valueless(pos.pnl) /\ Valueless(ent.pnl)
    PROVE  NoInventedPnl'
<1> SUFFICES ASSUME NEW u \in Trade, position'[u] # None, position'[u].entryPrice = None
             PROVE  /\ Valueless(position'[u].pnl)
                    /\ \A j \in Key : j.trade = u /\ entry'[j] # None => Valueless(entry'[j].pnl)
                    /\ \A o \in OutcomeId : outcome'[u][o] # None => Valueless(outcome'[u][o].pnl)
  BY DEF NoInventedPnl, Valueless
<1>1. CASE u # t
  <2>1. position'[u] = position[u]
    BY <1>1 DEF TypeOK, Persist
  <2>2. \A j \in Key : j.trade = u => entry'[j] = entry[j]
    BY <1>1 DEF TypeOK, Persist
  <2>3. QED
    BY <2>1, <2>2 DEF NoInventedPnl
<1>2. CASE u = t
  <2>1. \A o \in OutcomeId : outcome'[t][o] = None
    BY DEF OutcomesDescribeTheEnd
  <2>2. position'[t] \in {position[t], pos}
    BY DEF TypeOK, Persist
  <2>3. n >= 3 => position'[t] = pos
    BY DEF TypeOK, Persist
  <2>4. position[t] # None => position[t].entryPrice = None
    BY <1>2, <2>2
  <2>5. \A j \in Key : j.trade = t /\ entry[j] # None => Valueless(entry[j].pnl)
    BY <2>4 DEF NoOrphans, NoInventedPnl
  <2>6. Valueless(position'[t].pnl)
    BY <1>2, <2>2, <2>4 DEF NoInventedPnl
  <2>7. \A j \in Key : j.trade = t /\ entry'[j] # None => Valueless(entry'[j].pnl)
    <3>1. CASE n >= 3
      BY <1>2, <2>3, <2>5, <3>1 DEF TypeOK, Persist
    <3>2. CASE ~ (n >= 3)
      BY <2>5, <3>2 DEF TypeOK, Persist
    <3>3. QED
      BY <3>1, <3>2
  <2>8. QED
    BY <1>2, <2>1, <2>6, <2>7
<1>3. QED
  BY <1>1, <1>2

(* An approval keeps the invariant: by the write order, the trade it       *)
(* admits has no position yet, hence no entry and no outcome.              *)
LEMMA ApproveAndAdmitKeepsIInv ==
    ASSUME IInv, NEW t \in Trade, NEW n \in 0..5, ApproveAndAdmit(t, n)
    PROVE  IInv'
<1> USE DEF IInv
<1>1. PICK tr \in PaperTrade, pos \in PositionState, k \in Key,
           ent \in LedgerEntry, ev \in LifecycleEvent, fus \in SUBSET FollowupId :
              /\ Persist(n, t, tr, pos, k, ent, ev, fus)
              /\ UNCHANGED <<outcome, attributed>>
              /\ ~ trade[t].admitted /\ (tr.admitted \/ n = 0)
              /\ pos.state = "approved_pending_fill" /\ pos.pnl = None /\ ent.pnl = None
              /\ k.trade = t
  BY ApproveAndAdmitWrites
<1>2. position[t] = None
  BY <1>1 DEF NoOrphans
<1>3. ~ Ended(position[t])
  BY <1>2 DEF Ended
<1>4. TypeOK'
  BY <1>1, PersistTyped
<1>5. NoOrphans'
  BY <1>1, <1>2, PersistNoOrphans
<1>6. OutcomesDescribeTheEnd'
  BY <1>1, <1>3, PersistOutcomes
<1>7. Valueless(pos.pnl) /\ Valueless(ent.pnl)
  BY <1>1 DEF Valueless
<1>8. NoInventedPnl'
  BY <1>1, <1>2, <1>3, <1>7, PersistNoInventedPnl
<1>9. QED
  BY <1>4, <1>5, <1>6, <1>8

(* A lifecycle event keeps the invariant: it only touches a position that  *)
(* has not ended.                                                          *)
LEMMA RecordLifecycleEventKeepsIInv ==
    ASSUME IInv, NEW t \in Trade, NEW type \in EventType, NEW at \in Time,
           NEW price \in Optional(Price), NEW qty \in Optional(Qty), NEW n \in 0..5,
           RecordLifecycleEvent(t, type, at, price, qty, n)
    PROVE  IInv'
<1> USE DEF IInv
<1>1. PICK tr \in PaperTrade, pos \in PositionState, k \in Key,
           ent \in LedgerEntry, ev \in LifecycleEvent :
              /\ Persist(n, t, tr, pos, k, ent, ev, {})
              /\ UNCHANGED <<outcome, attributed>>
              /\ tr.admitted
              /\ position[t] # None /\ position[t] \in PositionState
              /\ position[t].state \notin Terminal
              /\ pos.state = NewState(position[t].state, type)
              /\ pos.entryPrice = position[t].entryPrice
              /\ pos.outcomes = position[t].outcomes
              /\ position[t].entryPrice = None /\ Valueless(position[t].pnl) => Valueless(pos.pnl)
              /\ position[t].entryPrice = None => Valueless(ent.pnl)
              /\ k.trade = t
  BY RecordLifecycleEventWrites
<1>2. ~ Ended(position[t])
  BY <1>1 DEF Ended
<1>3. TypeOK'
  BY <1>1, PersistTyped
<1>4. NoOrphans'
  BY <1>1, PersistNoOrphans
<1>5. OutcomesDescribeTheEnd'
  BY <1>1, <1>2, PersistOutcomes
<1>6. pos.entryPrice = None /\ NoInventedPnl => Valueless(pos.pnl) /\ Valueless(ent.pnl)
  BY <1>1 DEF NoInventedPnl
<1>7. NoInventedPnl'
  BY <1>1, <1>2, <1>6, PersistNoInventedPnl
<1>8. QED
  BY <1>3, <1>4, <1>5, <1>7

(* What recording an outcome does to the position: it adds the outcome and *)
(* its followups, and nothing else.                                        *)
LEMMA RecordTradeOutcomePosition ==
    ASSUME TypeOK, NEW t \in Trade, NEW o \in OutcomeId, NEW asked \in BOOLEAN, NEW n \in 0..5,
           RecordTradeOutcome(t, o, asked, n)
    PROVE  /\ position[t] # None /\ position[t] \in PositionState
           /\ position[t].state \in Terminal
           /\ \A u \in Trade : u # t => position'[u] = position[u]
           /\ position'[t] = [position[t] EXCEPT !.outcomes = position'[t].outcomes,
                                                !.followups = position'[t].followups]
           /\ position'[t] \in PositionState
           /\ position[t].outcomes \subseteq position'[t].outcomes
           /\ n >= 3 => o \in position'[t].outcomes
<1> DEFINE new == IF asked THEN {[trade |-> t, outcome |-> o]} ELSE {}
           pos == [position[t] EXCEPT !.outcomes = @ \cup {o}, !.followups = @ \cup new]
<1>1. position[t] # None /\ position[t] \in PositionState /\ position[t].state \in Terminal
  BY DEF TypeOK, RecordTradeOutcome, Resolves, AcceptsOutcome, Optional
<1>2. position' = IF n >= 2 THEN [position EXCEPT ![t] = pos] ELSE position
  BY DEF RecordTradeOutcome
<1>3. /\ pos = [position[t] EXCEPT !.outcomes = pos.outcomes, !.followups = pos.followups]
      /\ pos \in PositionState
      /\ pos.outcomes = position[t].outcomes \cup {o}
  <2>1. new \in SUBSET FollowupId
    BY DEF FollowupId, Optional
  <2> HIDE DEF new
  <2>2. QED
    BY <1>1, <2>1 DEF PositionState
<1>4. position[t] = [position[t] EXCEPT !.outcomes = position[t].outcomes,
                                        !.followups = position[t].followups]
  BY <1>1 DEF PositionState
<1> HIDE DEF pos
<1>5. position'[t] = IF n >= 2 THEN pos ELSE position[t]
  BY <1>2 DEF TypeOK
<1>6. \A u \in Trade : u # t => position'[u] = position[u]
  BY <1>2 DEF TypeOK
<1>7. QED
  <2>1. CASE n >= 2
    BY <1>1, <1>3, <1>5, <1>6, <2>1
  <2>2. CASE ~ (n >= 2)
    BY <1>1, <1>4, <1>5, <1>6, <2>2
  <2>3. QED
    BY <2>1, <2>2

(* Recording an outcome keeps the invariant: the position is written       *)
(* before the outcome, and keeps the PnL that the outcome copies.          *)
LEMMA RecordTradeOutcomeKeepsIInv ==
    ASSUME IInv, NEW t \in Trade, NEW o \in OutcomeId, NEW asked \in BOOLEAN, NEW n \in 0..5,
           RecordTradeOutcome(t, o, asked, n)
    PROVE  IInv'
<1> USE DEF IInv
<1>1. /\ position[t] # None /\ position[t] \in PositionState
      /\ position[t].state \in Terminal
      /\ \A u \in Trade : u # t => position'[u] = position[u]
      /\ position'[t] = [position[t] EXCEPT !.outcomes = position'[t].outcomes,
                                           !.followups = position'[t].followups]
      /\ position'[t] \in PositionState
      /\ position[t].outcomes \subseteq position'[t].outcomes
      /\ n >= 3 => o \in position'[t].outcomes
  BY RecordTradeOutcomePosition
<1>2. position'[t].state = position[t].state /\ position'[t].pnl = position[t].pnl
      /\ position'[t].entryPrice = position[t].entryPrice /\ position'[t] # None
  <2>1. position'[t] # None
    BY <1>1, NoneAssumption
  <2>2. QED
    BY <1>1, <2>1 DEF PositionState
<1>3. /\ \A u \in Trade : trade'[u].admitted = trade[u].admitted
      /\ UNCHANGED <<entry, event>>
  <2>1. trade' = [trade EXCEPT ![t] = [trade[t] EXCEPT !.outcome = o]] /\ UNCHANGED <<entry, event>>
    BY DEF RecordTradeOutcome
  <2>2. [trade[t] EXCEPT !.outcome = o].admitted = trade[t].admitted
    BY DEF TypeOK, PaperTrade
  <2>3. QED
    BY <2>1, <2>2 DEF TypeOK
<1>4. \A u \in Trade, i \in OutcomeId :
          \/ outcome'[u][i] = outcome[u][i]
          \/ u = t /\ i = o /\ n >= 3 /\ outcome'[u][i] = [pnl |-> position[t].pnl]
  BY DEF TypeOK, RecordTradeOutcome
<1>5. TypeOK'
  BY RecordTradeOutcomeTyped
<1>6. NoOrphans'
  <2>1. \A u \in Trade : (position'[u] # None) <=> (position[u] # None)
    BY <1>1, <1>2
  <2>2. \A j \in Key : j.trade \in Trade
    BY DEF Key
  <2>3. QED
    BY <1>3, <2>1, <2>2 DEF NoOrphans
<1>7. OutcomesDescribeTheEnd'
  <2> SUFFICES ASSUME NEW u \in Trade, NEW i \in OutcomeId, outcome'[u][i] # None
               PROVE  Ended(position'[u]) /\ i \in position'[u].outcomes
                      /\ outcome'[u][i].pnl = position'[u].pnl
    BY DEF OutcomesDescribeTheEnd, Ended
  <2>1. CASE outcome'[u][i] = outcome[u][i]
    <3>1. Ended(position[u]) /\ i \in position[u].outcomes /\ outcome[u][i].pnl = position[u].pnl
      BY <2>1 DEF OutcomesDescribeTheEnd
    <3>2. QED
      BY <1>1, <1>2, <2>1, <3>1 DEF Ended
  <2>2. CASE u = t /\ i = o /\ n >= 3 /\ outcome'[u][i] = [pnl |-> position[t].pnl]
    BY <1>1, <1>2, <2>2 DEF Ended
  <2>3. QED
    BY <1>4, <2>1, <2>2
<1>8. NoInventedPnl'
  <2> SUFFICES ASSUME NEW u \in Trade, position'[u] # None, position'[u].entryPrice = None
               PROVE  /\ Valueless(position'[u].pnl)
                      /\ \A j \in Key : j.trade = u /\ entry'[j] # None => Valueless(entry'[j].pnl)
                      /\ \A i \in OutcomeId : outcome'[u][i] # None => Valueless(outcome'[u][i].pnl)
    BY DEF NoInventedPnl, Valueless
  <2>1. position[u] # None /\ position[u].entryPrice = None /\ position'[u].pnl = position[u].pnl
    BY <1>1, <1>2
  <2>2. /\ Valueless(position[u].pnl)
        /\ \A j \in Key : j.trade = u /\ entry[j] # None => Valueless(entry[j].pnl)
        /\ \A i \in OutcomeId : outcome[u][i] # None => Valueless(outcome[u][i].pnl)
    BY <2>1 DEF NoInventedPnl
  <2>3. QED
    BY <1>3, <1>4, <2>1, <2>2
<1>9. QED
  BY <1>5, <1>6, <1>7, <1>8

(* A review that admits nothing leaves everything but the status alone. *)
LEMMA ReviewTradeKeepsIInv ==
    ASSUME IInv, NEW t \in Trade, NEW o \in ReviewOutcome, ReviewTrade(t, o)
    PROVE  IInv'
<1> USE DEF IInv
<1>1. trade' = [trade EXCEPT ![t] = Reviewed(trade[t], o)]
      /\ UNCHANGED <<position, entry, event, outcome, attributed, followup>>
  BY DEF ReviewTrade
<1>2. Reviewed(trade[t], o) \in PaperTrade
  BY ReviewedTyped DEF TypeOK
<1>3. TypeOK'
  BY <1>1, <1>2 DEF TypeOK
<1>4. \A u \in Trade : trade[u].admitted => trade'[u].admitted
  BY <1>1 DEF TypeOK, Reviewed, PaperTrade
<1>5. NoOrphans'
  BY <1>1, <1>4 DEF NoOrphans
<1>6. OutcomesDescribeTheEnd' /\ NoInventedPnl'
  BY <1>1 DEF OutcomesDescribeTheEnd, NoInventedPnl, Ended, Valueless
<1>7. QED
  BY <1>3, <1>5, <1>6

(* Nothing is written yet. *)
LEMMA InitIInv == Init => IInv
<1> SUFFICES ASSUME Init PROVE IInv
  OBVIOUS
<1>1. trade \in [Trade -> PaperTrade]
  BY DEF Init, ProposedTrade, PaperTrade, TradeStatus, Optional
<1>2. TypeOK
  BY <1>1 DEF Init, TypeOK, Optional
<1>3. NoOrphans
  <2>1. \A k \in Key : k.trade \in Trade
    BY DEF Key
  <2>2. QED
    BY <2>1 DEF Init, NoOrphans
<1>4. OutcomesDescribeTheEnd /\ NoInventedPnl
  BY DEF Init, OutcomesDescribeTheEnd, NoInventedPnl
<1>5. QED
  BY <1>2, <1>3, <1>4 DEF IInv

(* Every step is one of the four operations, or changes nothing. *)
LEMMA StepCases ==
    ASSUME [Next]_vars
    PROVE  \/ \E t \in Trade, o \in ReviewOutcome : ReviewTrade(t, o)
           \/ \E t \in Trade, n \in 0..5 : ApproveAndAdmit(t, n)
           \/ \E t \in Trade, type \in EventType, at \in Time, price \in Optional(Price),
                 qty \in Optional(Qty), n \in 0..5 : RecordLifecycleEvent(t, type, at, price, qty, n)
           \/ \E t \in Trade, o \in OutcomeId, asked \in BOOLEAN, n \in 0..5 :
                 RecordTradeOutcome(t, o, asked, n)
           \/ UNCHANGED vars
<1>1. Written \subseteq 0..5
  BY DEF Written
<1>2. QED
  BY <1>1 DEF Next, TradeStep

(* Every step keeps the invariant. *)
LEMMA NextIInv == IInv /\ [Next]_vars => IInv'
<1> SUFFICES ASSUME IInv, [Next]_vars PROVE IInv'
  OBVIOUS
<1>1. CASE UNCHANGED vars
  BY <1>1 DEF vars, IInv, TypeOK, NoOrphans, OutcomesDescribeTheEnd, NoInventedPnl, Ended, Valueless
<1>2. QED
  BY <1>1, StepCases, ReviewTradeKeepsIInv, ApproveAndAdmitKeepsIInv,
     RecordLifecycleEventKeepsIInv, RecordTradeOutcomeKeepsIInv

(* The inductive invariant holds in every reachable state. *)
THEOREM Invariance == Spec => []IInv
BY InitIInv, NextIInv, PTL DEF Spec

(* An operation cut short after any of its writes leaves no orphan file.   *)
THEOREM NeverOrphans == Spec => []NoOrphans
<1>1. IInv => NoOrphans
  BY DEF IInv
<1>2. QED
  BY <1>1, Invariance, PTL

(* An outcome always describes how its position ended.                     *)
THEOREM OutcomesAreFinal == Spec => []OutcomesDescribeTheEnd
<1>1. IInv => OutcomesDescribeTheEnd
  BY DEF IInv
<1>2. QED
  BY <1>1, Invariance, PTL

(* A position admitted without an entry price never shows a PnL value.     *)
THEOREM PnlIsNeverInvented == Spec => []NoInventedPnl
<1>1. IInv => NoInventedPnl
  BY DEF IInv
<1>2. QED
  BY <1>1, Invariance, PTL

-----------------------------------------------------------------------------
(* What one step does to the position of one trade. *)

(* A position is created pending, moves forward, or gains outcomes.        *)
Created(t, pos) == position[t] = None /\ pos.state = "approved_pending_fill"
Advanced(t, pos) ==
    /\ position[t] # None /\ position[t] \in PositionState
    /\ position[t].state \notin Terminal
    /\ \E type \in EventType : pos.state = NewState(position[t].state, type)
Annotated(t, pos) ==
    /\ position[t] # None /\ position[t] \in PositionState
    /\ pos = [position[t] EXCEPT !.outcomes = pos.outcomes, !.followups = pos.followups]
Moves(t, pos) ==
    /\ position' = [position EXCEPT ![t] = pos]
    /\ Created(t, pos) \/ Advanced(t, pos) \/ Annotated(t, pos)

LEMMA PositionStep ==
    ASSUME IInv, [Next]_vars
    PROVE  (\E t \in Trade, pos \in PositionState : Moves(t, pos)) \/ UNCHANGED position
<1> USE DEF IInv
<1>1. ASSUME NEW t \in Trade, NEW o \in ReviewOutcome, ReviewTrade(t, o)
      PROVE  UNCHANGED position
  BY <1>1 DEF ReviewTrade
<1>2. ASSUME NEW t \in Trade, NEW n \in 0..5, ApproveAndAdmit(t, n)
      PROVE  (\E pos \in PositionState : Moves(t, pos)) \/ UNCHANGED position
  BY <1>2, ApproveAndAdmitWrites DEF NoOrphans, Persist, Moves, Created
<1>3. ASSUME NEW t \in Trade, NEW type \in EventType, NEW at \in Time,
             NEW price \in Optional(Price), NEW qty \in Optional(Qty), NEW n \in 0..5,
             RecordLifecycleEvent(t, type, at, price, qty, n)
      PROVE  (\E pos \in PositionState : Moves(t, pos)) \/ UNCHANGED position
  BY <1>3, RecordLifecycleEventWrites DEF Persist, Moves, Advanced
<1>4. ASSUME NEW t \in Trade, NEW o \in OutcomeId, NEW asked \in BOOLEAN, NEW n \in 0..5,
             RecordTradeOutcome(t, o, asked, n)
      PROVE  \E pos \in PositionState : Moves(t, pos)
  <2>1. /\ position[t] # None /\ position[t] \in PositionState
        /\ \A u \in Trade : u # t => position'[u] = position[u]
        /\ position'[t] = [position[t] EXCEPT !.outcomes = position'[t].outcomes,
                                             !.followups = position'[t].followups]
        /\ position'[t] \in PositionState
    BY <1>4, RecordTradeOutcomePosition
  <2>2. position' = [position EXCEPT ![t] = position'[t]]
    BY <1>4, <2>1, RecordTradeOutcomeTyped DEF TypeOK
  <2>3. QED
    BY <2>1, <2>2 DEF Moves, Annotated
<1>5. CASE UNCHANGED vars
  BY <1>5 DEF vars
<1>6. QED
  BY <1>1, <1>2, <1>3, <1>4, <1>5, StepCases

(* Whatever review or event follows, an ended position keeps its end, its  *)
(* quantity and its PnL.                                                   *)
THEOREM EndedPositionsStay == Spec => TerminalIsFinal
<1> DEFINE Kept == \A t \in Trade : Ended(position[t]) =>
              position'[t] = [position[t] EXCEPT !.outcomes = position'[t].outcomes,
                                                 !.followups = position'[t].followups]
<1>1. IInv /\ [Next]_vars => Kept
  <2> SUFFICES ASSUME IInv, [Next]_vars, NEW t \in Trade, Ended(position[t])
               PROVE  position'[t] = [position[t] EXCEPT !.outcomes = position'[t].outcomes,
                                                         !.followups = position'[t].followups]
    OBVIOUS
  <2>1. position[t] # None /\ position[t].state \in Terminal
    BY DEF Ended
  <2>2. position[t] \in PositionState /\ position \in [Trade -> Optional(PositionState)]
    BY <2>1 DEF IInv, TypeOK, Optional
  <2>3. position[t] = [position[t] EXCEPT !.outcomes = position[t].outcomes,
                                          !.followups = position[t].followups]
    BY <2>2 DEF PositionState
  <2>4. CASE position'[t] = position[t]
    BY <2>3, <2>4
  <2>5. ASSUME NEW pos \in PositionState, position' = [position EXCEPT ![t] = pos], Annotated(t, pos)
        PROVE  position'[t] = [position[t] EXCEPT !.outcomes = position'[t].outcomes,
                                                  !.followups = position'[t].followups]
    <3>1. position'[t] = pos
      BY <2>2, <2>5
    <3>2. QED
      BY <2>5, <3>1 DEF Annotated
  <2>6. ASSUME NEW u \in Trade, NEW pos \in PositionState, Moves(u, pos)
        PROVE  \/ position'[t] = position[t]
               \/ position' = [position EXCEPT ![t] = pos] /\ Annotated(t, pos)
    BY <2>1, <2>2, <2>6 DEF Moves, Created, Advanced
  <2>7. QED
    BY <2>4, <2>5, <2>6, PositionStep
<1>2. QED
  BY <1>1, Invariance, PTL DEF Spec, TerminalIsFinal

(* Cut short or not, the operations of the ledger only ever take the steps *)
(* of the promised lifecycle.                                              *)
THEOREM Refinement == Spec => ImplementsLifecycle
<1> DEFINE phaseOf(p) == IF p = None THEN "untracked" ELSE p.state
           ph == [t \in Trade |-> IF position[t] = None THEN "untracked" ELSE position[t].state]
<1>1. Init => Lifecycle!Init
  BY DEF Init, Lifecycle!Init, Lifecycle!Untracked
<1>2. IInv /\ [Next]_vars => [Lifecycle!Next]_ph
  <2> SUFFICES ASSUME IInv, [Next]_vars PROVE [Lifecycle!Next]_ph
    OBVIOUS
  <2>1. CASE UNCHANGED position
    BY <2>1
  <2>2. ASSUME NEW t \in Trade, NEW pos \in PositionState, Moves(t, pos)
        PROVE  [Lifecycle!Next]_ph
    <3>1. pos # None
      BY NoneAssumption
    <3>2. position \in [Trade -> Optional(PositionState)]
      BY DEF IInv, TypeOK
    <3>3. ph' = [ph EXCEPT ![t] = pos.state]
      BY <2>2, <3>1, <3>2 DEF Moves
    <3>4. ph[t] = phaseOf(position[t])
      OBVIOUS
    <3> HIDE DEF ph
    <3>5. CASE Created(t, pos)
      <4>1. Lifecycle!Admit(t)
        BY <3>3, <3>4, <3>5 DEF Created, Lifecycle!Admit, Lifecycle!Untracked, ph
      <4>2. QED
        BY <4>1 DEF Lifecycle!Next
    <3>6. CASE Advanced(t, pos)
      <4>1. ph[t] \in {"approved_pending_fill", "open"}
        BY <3>4, <3>6 DEF Advanced, PositionState, PositionStatus, Terminal
      <4>2. pos.state \in {"open", "closed", "cancelled"}
        BY <3>6, NewStateTyped DEF Advanced, PositionState
      <4>3. CASE pos.state \in {"closed", "cancelled"}
        <5>1. Lifecycle!Finish(t, pos.state)
          BY <3>3, <4>1 DEF Lifecycle!Finish, Lifecycle!PositionStatus, Lifecycle!Terminal, ph
        <5>2. QED
          BY <4>3, <5>1 DEF Lifecycle!Next, Lifecycle!Terminal
      <4>4. CASE pos.state = "open" /\ ph[t] = "approved_pending_fill"
        <5>1. Lifecycle!Open(t)
          BY <3>3, <4>4 DEF Lifecycle!Open, ph
        <5>2. QED
          BY <5>1 DEF Lifecycle!Next
      <4>5. CASE pos.state = "open" /\ ph[t] = "open"
        <5>1. ph' = ph
          BY <3>3, <4>5 DEF ph
        <5>2. QED
          BY <5>1
      <4>6. QED
        BY <4>1, <4>2, <4>3, <4>4, <4>5
    <3>7. CASE Annotated(t, pos)
      <4>1. pos.state = position[t].state
        BY <3>7 DEF Annotated, PositionState
      <4>2. ph' = ph
        BY <3>3, <3>4, <3>7, <4>1 DEF Annotated, ph
      <4>3. QED
        BY <4>2
    <3>8. QED
      BY <2>2, <3>5, <3>6, <3>7 DEF Moves
  <2>3. QED
    BY <2>1, <2>2, PositionStep
<1>3. QED
  BY <1>1, <1>2, Invariance, PTL DEF Spec, ImplementsLifecycle, Lifecycle!Spec

-----------------------------------------------------------------------------
(* Without crashes the files agree.  What explains a position is stated by *)
(* keys: the type of an event decides the state it leads to, so that an    *)
(* event written over another of the same type and time explains as much.  *)

(* The state an event of the type leads to. *)
LeadsTo(type) ==
    CASE type = "approval_admitted" -> "approved_pending_fill"
      [] type \in Terminal -> type
      [] OTHER -> "open"
Opening == {"simulated_fill_placeholder", "mark_updated"}

EventsInv == \A k \in Key : event[k] # None => event[k].new = LeadsTo(k.type)

Recorded(t, types, at) == \E type \in types : event[EventKey(t, type, at)] # None
Explained(t) ==
    position[t] # None =>
        LET p == position[t]
        IN  /\ event[p.latest] # None /\ p.state = LeadsTo(p.latest.type)
            /\ p.state = "open" => p.openedAt # None
            /\ p.openedAt # None => Recorded(t, Opening, p.openedAt)
            /\ p.closedAt # None => Recorded(t, Terminal, p.closedAt)
            /\ (p.closedAt # None) <=> (p.state \in Terminal)

(* The status of a trade, and that only a trade with a position has gone   *)
(* further than a review.                                                  *)
Standing(t) ==
    /\ trade[t].status = "simulated" =>
          /\ position[t] # None /\ trade[t].filledAt # None
          /\ event[EventKey(t, "simulated_fill_placeholder", trade[t].filledAt)] # None
          /\ position[t].state \in {"open", "closed"} /\ position[t].openedAt # None
    /\ trade[t].status = "cancelled" => position[t] # None /\ position[t].state = "cancelled"

Resolving(t) ==
    /\ trade[t].admitted => position[t] # None /\ entry[AdmissionKey(t)] # None
    /\ trade[t].outcome # None => position[t] # None /\ trade[t].outcome \in position[t].outcomes
    /\ position[t] # None =>
          /\ position[t].followups \subseteq followup
          /\ position[t].entryPrice = None => MaterializationFollowup(t) \in position[t].followups
          /\ \A o \in position[t].outcomes : outcome[t][o] # None /\ o \in attributed[t]

Agreement == IInv /\ EventsInv /\ \A t \in Trade : Explained(t) /\ Standing(t) /\ Resolving(t)

(* What an operation writes when nothing cuts it short. *)
LEMMA PersistAll ==
    ASSUME TypeOK, NEW t \in Trade, NEW tr, NEW pos, NEW k \in Key, NEW ent, NEW ev, NEW fus,
           Persist(5, t, tr, pos, k, ent, ev, fus)
    PROVE  /\ trade'[t] = tr /\ position'[t] = pos
           /\ \A u \in Trade \ {t} : trade'[u] = trade[u] /\ position'[u] = position[u]
           /\ \A j \in Key : event'[j] = IF j = k THEN ev ELSE event[j]
           /\ \A j \in Key : entry'[j] = IF j = k THEN ent ELSE entry[j]
           /\ followup' = followup \cup fus
BY DEF Persist, TypeOK

(* An approval admits the trade with no time, no outcome, and a followup   *)
(* when there is no entry price.                                           *)
LEMMA AdmissionFiles ==
    ASSUME IInv, NEW t \in Trade, ApproveAndAdmit(t, 5)
    PROVE  /\ position[t] = None /\ position'[t] # None
           /\ position'[t].state = "approved_pending_fill"
           /\ position'[t].latest = AdmissionKey(t)
           /\ position'[t].openedAt = None /\ position'[t].closedAt = None
           /\ position'[t].outcomes = {} /\ position'[t].followups \subseteq followup'
           /\ position'[t].entryPrice = None =>
                MaterializationFollowup(t) \in position'[t].followups
           /\ trade'[t].status = "approved" /\ trade'[t].outcome = trade[t].outcome
           /\ \A u \in Trade \ {t} : trade'[u] = trade[u] /\ position'[u] = position[u]
           /\ \A j \in Key : event'[j] = IF j = AdmissionKey(t)
                                         THEN [prior |-> None, new |-> "approved_pending_fill"]
                                         ELSE event[j]
           /\ \A j \in Key : entry[j] # None => entry'[j] # None
           /\ entry'[AdmissionKey(t)] # None
           /\ followup \subseteq followup' /\ UNCHANGED <<outcome, attributed>>
<1> DEFINE reviewed == Reviewed(trade[t], "approve")
           tr == [reviewed EXCEPT !.admitted = TRUE]
           pos == AdmittedPosition(reviewed, t)
           ent == [delta |-> reviewed.quantity, pnl |-> None]
           ev == [prior |-> None, new |-> "approved_pending_fill"]
           fus == AdmissionFollowups(reviewed, t)
<1>1. /\ Persist(5, t, tr, pos, AdmissionKey(t), ent, ev, fus)
      /\ UNCHANGED <<outcome, attributed>> /\ ~ trade[t].admitted
  BY DEF ApproveAndAdmit, Admissible
<1>2. TypeOK /\ position[t] = None /\ AdmissionKey(t) \in Key
  BY <1>1, KeysTyped DEF IInv, NoOrphans
<1>3. /\ reviewed \in PaperTrade
      /\ reviewed.status = "approved" /\ reviewed.outcome = trade[t].outcome
  <2>1. trade[t] \in PaperTrade
    BY <1>2 DEF TypeOK
  <2>2. QED
    BY <2>1, ReviewedTyped DEF Reviewed, StatusAfterReview, PaperTrade, ReviewOutcome
<1> HIDE DEF reviewed
<1>4. tr.status = "approved" /\ tr.outcome = trade[t].outcome
  BY <1>3 DEF PaperTrade
<1>5. /\ pos.state = "approved_pending_fill" /\ pos.latest = AdmissionKey(t)
      /\ pos.openedAt = None /\ pos.closedAt = None /\ pos.outcomes = {}
      /\ pos.followups = fus /\ (pos.entryPrice = None => MaterializationFollowup(t) \in fus)
  BY DEF AdmittedPosition, AdmissionFollowups
<1>6. pos # None /\ ent # None
  <2>1. pos \in PositionState
    BY <1>2, <1>3, AdmissionTyped
  <2>2. ent \in LedgerEntry
    <3>1. reviewed.quantity \in Optional(Qty)
      BY <1>3 DEF PaperTrade
    <3>2. ASSUME NEW x \in Qty PROVE x \in Int
      BY ConstantsAssumption
    <3>3. reviewed.quantity \in Optional(Int)
      BY <3>1, <3>2 DEF Optional
    <3>4. QED
      BY <3>3 DEF LedgerEntry, Optional
  <2>3. QED
    BY <2>1, <2>2, NoneAssumption
<1> HIDE DEF tr, pos, ent, fus
<1>7. /\ trade'[t] = tr /\ position'[t] = pos
      /\ \A u \in Trade \ {t} : trade'[u] = trade[u] /\ position'[u] = position[u]
      /\ \A j \in Key : event'[j] = IF j = AdmissionKey(t) THEN ev ELSE event[j]
      /\ \A j \in Key : entry'[j] = IF j = AdmissionKey(t) THEN ent ELSE entry[j]
      /\ followup' = followup \cup fus
  BY <1>1, <1>2, PersistAll
<1>8. QED
  BY <1>1, <1>2, <1>4, <1>5, <1>6, <1>7

(* A lifecycle event takes a position that has not ended to the state its  *)
(* type leads to, and dates the opening and the end.                       *)
LEMMA EventFiles ==
    ASSUME IInv, NEW t \in Trade, NEW type \in EventType, NEW at \in Time,
           NEW price \in Optional(Price), NEW qty \in Optional(Qty),
           RecordLifecycleEvent(t, type, at, price, qty, 5)
    PROVE  /\ position[t] # None /\ position[t].state \notin Terminal /\ position'[t] # None
           /\ position'[t].state = LeadsTo(type)
           /\ position'[t].latest = EventKey(t, type, at)
           /\ position'[t].openedAt = IF LeadsTo(type) = "open" /\ position[t].openedAt = None
                                      THEN at ELSE position[t].openedAt
           /\ position'[t].closedAt = IF type \in Terminal THEN at ELSE position[t].closedAt
           /\ position'[t].outcomes = position[t].outcomes
           /\ position'[t].followups = position[t].followups
           /\ position'[t].entryPrice = position[t].entryPrice
           /\ trade'[t] = TradeAfterEvent(trade[t], type, at)
           /\ \A u \in Trade \ {t} : trade'[u] = trade[u] /\ position'[u] = position[u]
           /\ \A j \in Key : j # EventKey(t, type, at) => event'[j] = event[j]
           /\ event'[EventKey(t, type, at)] # None
           /\ event'[EventKey(t, type, at)].new = LeadsTo(type)
           /\ \A j \in Key : entry[j] # None => entry'[j] # None
           /\ followup' = followup /\ UNCHANGED <<outcome, attributed>>
<1> DEFINE p == position[t]
           k == EventKey(t, type, at)
           q == OrElse(qty, p.quantity)
           placeholder == PlaceholderFor(trade[t].side, q, p.entryPrice, price, type)
           pos == PositionAfterEvent(p, trade[t].side, k, price, qty)
           ent == [delta |-> QuantityDelta(type, p.quantity, q), pnl |-> placeholder]
           ev == [prior |-> p.state, new |-> NewState(p.state, type)]
<1>1. TypeOK /\ p \in PositionState /\ p # None /\ p.state \notin Terminal
  BY DEF IInv, TypeOK, RecordLifecycleEvent, Resolves, AcceptsEvent, Optional
<1>2. /\ Persist(5, t, TradeAfterEvent(trade[t], type, at), pos, k, ent, ev, {})
      /\ UNCHANGED <<outcome, attributed>>
  BY DEF RecordLifecycleEvent
<1>3. k \in Key /\ k.type = type /\ k.at = at
  BY KeysTyped
<1>4. NewState(p.state, type) = LeadsTo(type)
  BY <1>1 DEF NewState, LeadsTo, EventType, PositionState, PositionStatus, Terminal
<1>5. trade[t].side \in Side
  BY <1>1 DEF TypeOK, PaperTrade
<1>6. pos \in PositionState /\ pos # None
  BY <1>1, <1>3, <1>5, PositionAfterEventTyped, NoneAssumption
<1>7. /\ pos.state = LeadsTo(type) /\ pos.latest = k
      /\ pos.openedAt = IF LeadsTo(type) = "open" /\ p.openedAt = None THEN at ELSE p.openedAt
      /\ pos.closedAt = EndTime(p, k)
      /\ pos.outcomes = p.outcomes /\ pos.followups = p.followups
      /\ pos.entryPrice = p.entryPrice
  BY <1>1, <1>3, <1>4 DEF PositionAfterEvent, PositionState
<1>8. EndTime(p, k) = IF type \in Terminal THEN at ELSE p.closedAt
  BY <1>3, <1>4 DEF EndTime, LeadsTo, EventType, Terminal
<1>9. ent # None /\ ev # None
  <2>1. q \in Optional(Qty) /\ p.quantity \in Optional(Qty) /\ p.entryPrice \in Optional(Price)
    BY <1>1 DEF OrElse, PositionState, Optional
  <2>2. ent \in LedgerEntry
    BY <1>5, <2>1, QuantityDeltaTyped, PlaceholderTyped DEF LedgerEntry
  <2>3. ev \in LifecycleEvent
    BY <1>1, NewStateTyped DEF LifecycleEvent, PositionState, Optional
  <2>4. QED
    BY <2>2, <2>3, NoneAssumption
<1>10. ev.new = LeadsTo(type)
  BY <1>4
<1> HIDE DEF p, k, pos, ent, ev
<1>11. /\ trade'[t] = TradeAfterEvent(trade[t], type, at) /\ position'[t] = pos
       /\ \A u \in Trade \ {t} : trade'[u] = trade[u] /\ position'[u] = position[u]
       /\ \A j \in Key : event'[j] = IF j = k THEN ev ELSE event[j]
       /\ \A j \in Key : entry'[j] = IF j = k THEN ent ELSE entry[j]
       /\ followup' = followup \cup {}
  BY <1>1, <1>2, <1>3, PersistAll
<1>12. p = position[t] /\ k = EventKey(t, type, at)
  BY DEF p, k
<1>13. QED
  BY <1>1, <1>2, <1>3, <1>6, <1>7, <1>8, <1>9, <1>10, <1>11, <1>12

(* The files of a trade that a write leaves alone go on agreeing: the      *)
(* records they point at are only ever added to.                           *)
LEMMA OthersAgree ==
    ASSUME Agreement, NEW u \in Trade,
           trade'[u] = trade[u], position'[u] = position[u],
           outcome'[u] = outcome[u], attributed'[u] = attributed[u],
           \A j \in Key : event[j] # None => event'[j] # None,
           \A j \in Key : entry[j] # None => entry'[j] # None,
           followup \subseteq followup'
    PROVE  (Explained(u) /\ Standing(u) /\ Resolving(u))'
<1> TypeOK /\ Explained(u) /\ Standing(u) /\ Resolving(u)
  BY DEF Agreement, IInv
<1>1. \A type \in EventType, at \in Time : EventKey(u, type, at) \in Key
  BY KeysTyped
<1>2. Explained(u)'
  <2> SUFFICES ASSUME position[u] # None PROVE Explained(u)'
    BY DEF Explained
  <2>1. /\ position[u].latest \in Key
        /\ position[u].openedAt \in Optional(Time) /\ position[u].closedAt \in Optional(Time)
    BY DEF TypeOK, PositionState, Optional
  <2>2. \A types \in SUBSET EventType, at \in Time : Recorded(u, types, at) => Recorded(u, types, at)'
    BY <1>1 DEF Recorded
  <2>3. Opening \in SUBSET EventType /\ Terminal \in SUBSET EventType
    BY DEF Opening, Terminal, EventType
  <2>4. /\ position[u].openedAt # None => Recorded(u, Opening, position[u].openedAt)'
        /\ position[u].closedAt # None => Recorded(u, Terminal, position[u].closedAt)'
    BY <2>1, <2>2, <2>3 DEF Explained, Optional
  <2>5. QED
    BY <2>1, <2>4 DEF Explained, Recorded
<1>3. Standing(u)'
  <2>1. trade[u].filledAt # None =>
          EventKey(u, "simulated_fill_placeholder", trade[u].filledAt) \in Key
    BY <1>1 DEF TypeOK, PaperTrade, Optional, EventType
  <2>2. QED
    BY <2>1 DEF Standing
<1>4. Resolving(u)'
  BY KeysTyped DEF Resolving
<1>5. QED
  BY <1>2, <1>3, <1>4

(* An approval keeps the agreement: what it admits starts with the event   *)
(* of its admission, and no file of the trade refers to anything else.     *)
LEMMA AdmissionKeepsAgreement ==
    ASSUME Agreement, IInv', NEW t \in Trade, ApproveAndAdmit(t, 5)
    PROVE  Agreement'
<1>1. /\ position[t] = None /\ position'[t] # None
      /\ position'[t].state = "approved_pending_fill"
      /\ position'[t].latest = AdmissionKey(t)
      /\ position'[t].openedAt = None /\ position'[t].closedAt = None
      /\ position'[t].outcomes = {} /\ position'[t].followups \subseteq followup'
      /\ position'[t].entryPrice = None =>
           MaterializationFollowup(t) \in position'[t].followups
      /\ trade'[t].status = "approved" /\ trade'[t].outcome = trade[t].outcome
      /\ \A u \in Trade \ {t} : trade'[u] = trade[u] /\ position'[u] = position[u]
      /\ \A j \in Key : event'[j] = IF j = AdmissionKey(t)
                                    THEN [prior |-> None, new |-> "approved_pending_fill"]
                                    ELSE event[j]
      /\ \A j \in Key : entry[j] # None => entry'[j] # None
      /\ entry'[AdmissionKey(t)] # None
      /\ followup \subseteq followup' /\ UNCHANGED <<outcome, attributed>>
  BY AdmissionFiles DEF Agreement
<1>2. /\ AdmissionKey(t) \in Key /\ AdmissionKey(t).type = "approval_admitted"
      /\ LeadsTo("approval_admitted") = "approved_pending_fill"
      /\ "approved_pending_fill" \notin Terminal
  BY KeysTyped DEF AdmissionKey, LeadsTo, Terminal
<1>3. [prior |-> None, new |-> "approved_pending_fill"] # None
  <2>1. [prior |-> None, new |-> "approved_pending_fill"] \in LifecycleEvent
    BY DEF LifecycleEvent, Optional, PositionStatus
  <2>2. QED
    BY <2>1, NoneAssumption
<1>4. trade[t].outcome = None
  BY <1>1 DEF Agreement, Resolving
<1>5. \A j \in Key : event[j] # None => event'[j] # None
  BY <1>1, <1>3
<1>6. EventsInv'
  BY <1>1, <1>2 DEF Agreement, EventsInv
<1>7. ASSUME NEW u \in Trade \ {t} PROVE (Explained(u) /\ Standing(u) /\ Resolving(u))'
  BY <1>1, <1>5, OthersAgree
<1>8. Explained(t)'
  BY <1>1, <1>2, <1>3 DEF Explained
<1>9. Standing(t)' /\ Resolving(t)'
  BY <1>1, <1>4 DEF Standing, Resolving
<1>10. QED
  BY <1>6, <1>7, <1>8, <1>9 DEF Agreement

(* A lifecycle event keeps the agreement.  A position that has not ended   *)
(* has no outcome and, once open, the time it was opened; the event dates  *)
(* whatever it changes.                                                    *)
LEMMA EventKeepsAgreement ==
    ASSUME Agreement, IInv', NEW t \in Trade, NEW type \in EventType, NEW at \in Time,
           NEW price \in Optional(Price), NEW qty \in Optional(Qty),
           RecordLifecycleEvent(t, type, at, price, qty, 5)
    PROVE  Agreement'
<1> DEFINE k == EventKey(t, type, at)
<1>1. /\ position[t] # None /\ position[t].state \notin Terminal /\ position'[t] # None
      /\ position'[t].state = LeadsTo(type)
      /\ position'[t].latest = k
      /\ position'[t].openedAt = IF LeadsTo(type) = "open" /\ position[t].openedAt = None
                                 THEN at ELSE position[t].openedAt
      /\ position'[t].closedAt = IF type \in Terminal THEN at ELSE position[t].closedAt
      /\ position'[t].outcomes = position[t].outcomes
      /\ position'[t].followups = position[t].followups
      /\ position'[t].entryPrice = position[t].entryPrice
      /\ trade'[t] = TradeAfterEvent(trade[t], type, at)
      /\ \A u \in Trade \ {t} : trade'[u] = trade[u] /\ position'[u] = position[u]
      /\ \A j \in Key : j # k => event'[j] = event[j]
      /\ event'[k] # None /\ event'[k].new = LeadsTo(type)
      /\ \A j \in Key : entry[j] # None => entry'[j] # None
      /\ followup' = followup /\ UNCHANGED <<outcome, attributed>>
  BY EventFiles DEF Agreement
<1>2. /\ k \in Key /\ k.type = type
      /\ \A ty \in EventType, a \in Time : EventKey(t, ty, a) \in Key
      /\ at # None
  BY KeysTyped, NoneAssumption, ConstantsAssumption
<1>3. TypeOK /\ EventsInv /\ Explained(t) /\ Standing(t) /\ Resolving(t)
  BY DEF Agreement, IInv
<1>4. trade[t] \in PaperTrade /\ position[t] \in PositionState
  BY <1>1, <1>3 DEF TypeOK, Optional
<1> HIDE DEF k
<1>5. \A j \in Key : event[j] # None => event'[j] # None
  BY <1>1
<1>6. EventsInv'
  BY <1>1, <1>2, <1>3 DEF EventsInv
<1>7. ASSUME NEW u \in Trade \ {t} PROVE (Explained(u) /\ Standing(u) /\ Resolving(u))'
  BY <1>1, <1>5, OthersAgree
<1>8. LeadsTo(type) = "open" <=> type \in Opening
  BY DEF LeadsTo, Opening, EventType, Terminal
<1>9. LeadsTo(type) \in Terminal <=> type \in Terminal
  BY DEF LeadsTo, EventType, Terminal
<1>10. Explained(t)'
  <2>1. position'[t].state = "open" => position'[t].openedAt # None
    BY <1>1, <1>2
  <2>2. ASSUME NEW o, o = position'[t].openedAt, o # None
        PROVE  \E ty \in Opening : event'[EventKey(t, ty, o)] # None
    <3>1. CASE o = at /\ type \in Opening
      BY <1>1, <3>1 DEF k
    <3>2. CASE o = position[t].openedAt
      <4>1. o \in Time /\ Recorded(t, Opening, o)
        BY <1>1, <1>3, <1>4, <2>2, <3>2 DEF Explained, PositionState, Optional
      <4>2. PICK ty \in Opening : event[EventKey(t, ty, o)] # None
        BY <4>1 DEF Recorded
      <4>3. EventKey(t, ty, o) \in Key
        BY <1>2, <4>1, <4>2 DEF Opening, EventType
      <4>4. QED
        BY <1>5, <4>2, <4>3
    <3>3. QED
      BY <1>1, <1>8, <2>2, <3>1, <3>2
  <2>3. ASSUME position'[t].closedAt # None
        PROVE  type \in Terminal /\ position'[t].closedAt = at
    BY <1>1, <1>3, <2>3 DEF Explained
  <2>4. ASSUME NEW o, o = position'[t].closedAt, o # None
        PROVE  \E ty \in Terminal : event'[EventKey(t, ty, o)] # None
    BY <1>1, <2>3, <2>4 DEF k
  <2>5. position'[t].closedAt # None <=> position'[t].state \in Terminal
    BY <1>1, <1>2, <1>9, <2>3
  <2>6. /\ event'[position'[t].latest] # None
        /\ position'[t].state = LeadsTo(position'[t].latest.type)
    BY <1>1, <1>2
  <2>7. QED
    BY <2>1, <2>2, <2>4, <2>5, <2>6 DEF Explained, Recorded
<1>11. Standing(t)'
  <2>1. CASE type = "simulated_fill_placeholder"
    <3>1. trade'[t].status = "simulated" /\ trade'[t].filledAt = at
      BY <1>1, <1>4, <2>1 DEF TradeAfterEvent, PaperTrade
    <3>2. position'[t].state = "open" /\ position'[t].openedAt # None
      BY <1>1, <1>2, <1>8, <2>1 DEF Opening
    <3>3. QED
      BY <1>1, <1>2, <2>1, <3>1, <3>2 DEF Standing, k
  <2>2. CASE type = "cancelled"
    <3>1. trade'[t].status = "cancelled"
      BY <1>1, <1>4, <2>2 DEF TradeAfterEvent, PaperTrade
    <3>2. position'[t].state = "cancelled"
      BY <1>1, <2>2 DEF LeadsTo, Terminal
    <3>3. QED
      BY <1>1, <3>1, <3>2 DEF Standing
  <2>3. CASE type \in {"mark_updated", "closed"}
    <3>1. trade'[t] = trade[t]
      BY <1>1, <2>3 DEF TradeAfterEvent
    <3>2. position'[t].state \in {"open", "closed"}
      BY <1>1, <2>3 DEF LeadsTo, Terminal
    <3>3. trade[t].status # "cancelled"
      BY <1>1, <1>3 DEF Standing, Terminal
    <3>4. ASSUME trade[t].status = "simulated" PROVE Standing(t)'
      <4>1. /\ trade[t].filledAt # None
            /\ event[EventKey(t, "simulated_fill_placeholder", trade[t].filledAt)] # None
            /\ position[t].openedAt # None
        BY <1>3, <3>4 DEF Standing
      <4>2. trade[t].filledAt \in Time
        BY <1>4, <4>1 DEF PaperTrade, Optional
      <4>3. EventKey(t, "simulated_fill_placeholder", trade[t].filledAt) \in Key
        BY <1>2, <4>2 DEF EventType
      <4>4. event'[EventKey(t, "simulated_fill_placeholder", trade'[t].filledAt)] # None
        BY <1>5, <3>1, <4>1, <4>3
      <4>5. QED
        BY <1>1, <3>1, <3>2, <3>4, <4>1, <4>4 DEF Standing
    <3>5. QED
      BY <3>1, <3>3, <3>4 DEF Standing
  <2>4. QED
    BY <2>1, <2>2, <2>3 DEF EventType
<1>12. Resolving(t)'
  <2>1. trade'[t].admitted = trade[t].admitted /\ trade'[t].outcome = trade[t].outcome
    BY <1>1, <1>4 DEF TradeAfterEvent, PaperTrade
  <2>2. AdmissionKey(t) \in Key
    BY KeysTyped
  <2>3. QED
    BY <1>1, <1>3, <2>1, <2>2 DEF Resolving
<1>13. QED
  BY <1>6, <1>7, <1>10, <1>11, <1>12 DEF Agreement

(* An outcome keeps the agreement: it adds the outcome, its attribution    *)
(* and its followups to what the position refers to.                       *)
LEMMA OutcomeKeepsAgreement ==
    ASSUME Agreement, IInv', NEW t \in Trade, NEW o \in OutcomeId, NEW asked \in BOOLEAN,
           RecordTradeOutcome(t, o, asked, 5)
    PROVE  Agreement'
<1> DEFINE new == IF asked THEN {[trade |-> t, outcome |-> o]} ELSE {}
<1>1. TypeOK /\ EventsInv /\ Explained(t) /\ Standing(t) /\ Resolving(t)
  BY DEF Agreement, IInv
<1>2. /\ trade[t] \in PaperTrade
      /\ position[t] \in PositionState /\ position[t] # None
  BY <1>1, NoneAssumption DEF TypeOK, RecordTradeOutcome, Resolves, Optional
<1> 5 >= 2 /\ 5 >= 3 /\ 5 >= 4 /\ 5 >= 5
  OBVIOUS
<1> DEFINE pos == [position[t] EXCEPT !.outcomes = @ \cup {o}, !.followups = @ \cup new]
<1>3. /\ position' = [position EXCEPT ![t] = pos]
      /\ followup' = followup \cup new
      /\ trade' = [trade EXCEPT ![t] = [trade[t] EXCEPT !.outcome = o]]
      /\ outcome' = [outcome EXCEPT ![t] = [outcome[t] EXCEPT ![o] = [pnl |-> position[t].pnl]]]
      /\ attributed' = [attributed EXCEPT ![t] = attributed[t] \cup {o}]
      /\ UNCHANGED <<entry, event>>
  <2>1. position' = [position EXCEPT ![t] = pos]
    BY DEF RecordTradeOutcome
  <2>2. followup' = followup \cup new
    BY DEF RecordTradeOutcome
  <2>3. trade' = [trade EXCEPT ![t] = [trade[t] EXCEPT !.outcome = o]]
    BY DEF RecordTradeOutcome
  <2>4. outcome' = [outcome EXCEPT ![t] = [outcome[t] EXCEPT ![o] = [pnl |-> position[t].pnl]]]
    BY DEF RecordTradeOutcome
  <2>5. attributed' = [attributed EXCEPT ![t] = attributed[t] \cup {o}]
    BY DEF RecordTradeOutcome
  <2>6. UNCHANGED <<entry, event>>
    BY DEF RecordTradeOutcome
  <2>7. QED
    BY <2>1, <2>2, <2>3, <2>4, <2>5, <2>6
<1> HIDE DEF new
<1>4. PICK p : p = pos
  OBVIOUS
<1>5. PICK tr : tr = [trade[t] EXCEPT !.outcome = o]
  OBVIOUS
<1>6. /\ p.state = position[t].state /\ p.latest = position[t].latest
      /\ p.openedAt = position[t].openedAt /\ p.closedAt = position[t].closedAt
      /\ p.entryPrice = position[t].entryPrice
      /\ p.outcomes = position[t].outcomes \cup {o}
      /\ p.followups = position[t].followups \cup new
  BY <1>2, <1>4 DEF PositionState
<1>7. /\ tr.status = trade[t].status /\ tr.filledAt = trade[t].filledAt
      /\ tr.admitted = trade[t].admitted /\ tr.outcome = o
  BY <1>2, <1>5 DEF PaperTrade
<1>8. [pnl |-> position[t].pnl] # None /\ p # None
  <2>1. [pnl |-> position[t].pnl] \in TradeOutcome
    BY <1>2 DEF TradeOutcome, PositionState
  <2>2. position[t].outcomes \cup {o} \in SUBSET OutcomeId /\ new \in SUBSET FollowupId
    BY <1>2 DEF PositionState, new, FollowupId, Optional
  <2>3. p \in PositionState
    BY <1>2, <1>4, <2>2 DEF PositionState
  <2>4. QED
    BY <2>1, <2>3, NoneAssumption
<1>9. /\ position'[t] = p /\ trade'[t] = tr
      /\ \A u \in Trade \ {t} : /\ trade'[u] = trade[u] /\ position'[u] = position[u]
                                /\ outcome'[u] = outcome[u] /\ attributed'[u] = attributed[u]
      /\ \A x \in OutcomeId : outcome'[t][x] = IF x = o THEN [pnl |-> position[t].pnl]
                                                        ELSE outcome[t][x]
      /\ attributed'[t] = attributed[t] \cup {o}
      /\ position[t].outcomes \subseteq OutcomeId
  BY <1>1, <1>2, <1>3, <1>4, <1>5 DEF TypeOK, PositionState
<1>10. EventsInv'
  BY <1>1, <1>3 DEF EventsInv
<1>11. ASSUME NEW u \in Trade \ {t} PROVE (Explained(u) /\ Standing(u) /\ Resolving(u))'
  BY <1>3, <1>9, <1>11, OthersAgree
<1>12. Explained(t)'
  BY <1>1, <1>2, <1>3, <1>6, <1>9 DEF Explained, Recorded
<1>13. Standing(t)'
  BY <1>1, <1>2, <1>3, <1>6, <1>7, <1>8, <1>9 DEF Standing
<1>14. Resolving(t)'
  BY <1>1, <1>2, <1>3, <1>6, <1>7, <1>8, <1>9 DEF Resolving
<1>15. QED
  BY <1>10, <1>11, <1>12, <1>13, <1>14 DEF Agreement

(* A review touches the status of the trade, and takes back what a fill or *)
(* a cancellation had made of it.                                          *)
LEMMA ReviewKeepsAgreement ==
    ASSUME Agreement, IInv', NEW t \in Trade, NEW o \in ReviewOutcome, ReviewTrade(t, o)
    PROVE  Agreement'
<1>1. TypeOK /\ EventsInv /\ Explained(t) /\ Standing(t) /\ Resolving(t)
  BY DEF Agreement, IInv
<1>2. /\ trade' = [trade EXCEPT ![t] = Reviewed(trade[t], o)]
      /\ UNCHANGED <<position, entry, event, outcome, attributed, followup>>
  BY DEF ReviewTrade
<1>3. /\ Reviewed(trade[t], o).status \in {"approved", "rejected", "proposed"}
      /\ Reviewed(trade[t], o).admitted = trade[t].admitted
      /\ Reviewed(trade[t], o).outcome = trade[t].outcome
  BY <1>1 DEF Reviewed, StatusAfterReview, TypeOK, PaperTrade, ReviewOutcome
<1>4. /\ trade'[t] = Reviewed(trade[t], o)
      /\ \A u \in Trade \ {t} : trade'[u] = trade[u]
  BY <1>1, <1>2 DEF TypeOK
<1>5. EventsInv'
  BY <1>1, <1>2 DEF EventsInv
<1>6. ASSUME NEW u \in Trade \ {t} PROVE (Explained(u) /\ Standing(u) /\ Resolving(u))'
  BY <1>2, <1>4, OthersAgree
<1>7. Explained(t)'
  BY <1>1, <1>2 DEF Explained, Recorded
<1>8. Standing(t)' /\ Resolving(t)'
  BY <1>1, <1>2, <1>3, <1>4 DEF Standing, Resolving
<1>9. QED
  BY <1>5, <1>6, <1>7, <1>8 DEF Agreement

LEMMA InitAgreement == Init => Agreement
<1> SUFFICES ASSUME Init PROVE Agreement
  OBVIOUS
<1>1. IInv
  BY InitIInv
<1>2. \A t \in Trade : /\ trade[t].status = "proposed" /\ ~ trade[t].admitted
                       /\ trade[t].outcome = None
  BY DEF Init, ProposedTrade
<1>3. QED
  BY <1>1, <1>2 DEF Agreement, EventsInv, Explained, Standing, Resolving, Init

(* What is stated by keys is what FilesAgree says. *)
LEMMA AgreementAgrees == Agreement => FilesAgree
<1> SUFFICES ASSUME Agreement PROVE FilesAgree
  OBVIOUS
<1>1. ASSUME NEW t \in Trade, NEW at \in Time, NEW types, types \subseteq EventType,
             Recorded(t, types, at)
      PROVE  \E k \in Key : /\ k.trade = t /\ k.at = at /\ event[k] # None
                            /\ k.type \in types /\ event[k].new = LeadsTo(k.type)
  <2>1. PICK type \in types : event[EventKey(t, type, at)] # None
    BY <1>1 DEF Recorded
  <2>2. QED
    BY <1>1, <2>1, KeysTyped DEF Agreement, EventsInv
<1>2. /\ \A type \in Opening : type \in EventType /\ LeadsTo(type) = "open"
      /\ \A type \in Terminal : type \in EventType /\ LeadsTo(type) \in Terminal
  BY DEF Opening, Terminal, EventType, LeadsTo
<1>3. HistoryExplainsPosition
  <2> SUFFICES ASSUME NEW t \in Trade, position[t] # None
               PROVE  /\ event[position[t].latest] # None
                      /\ event[position[t].latest].new = position[t].state
                      /\ position[t].openedAt # None => EventExplains(t, position[t].openedAt, {"open"})
                      /\ position[t].closedAt # None => EventExplains(t, position[t].closedAt, Terminal)
                      /\ (position[t].closedAt # None) <=> (position[t].state \in Terminal)
    BY DEF HistoryExplainsPosition
  <2>1. EventsInv /\ Explained(t)
    BY DEF Agreement
  <2>2. /\ position[t].latest \in Key
        /\ position[t].openedAt \in Optional(Time) /\ position[t].closedAt \in Optional(Time)
    BY DEF Agreement, IInv, TypeOK, PositionState, Optional
  <2>3. position[t].openedAt # None => EventExplains(t, position[t].openedAt, {"open"})
    BY <1>1, <1>2, <2>1, <2>2 DEF Explained, EventExplains, Optional
  <2>4. position[t].closedAt # None => EventExplains(t, position[t].closedAt, Terminal)
    BY <1>1, <1>2, <2>1, <2>2 DEF Explained, EventExplains, Optional
  <2>5. QED
    BY <2>1, <2>2, <2>3, <2>4 DEF Explained, EventsInv
<1>4. TradeAgreesWithPosition
  BY DEF Agreement, Standing, TradeAgreesWithPosition
<1>5. ReferencesResolve
  BY DEF Agreement, Resolving, ReferencesResolve
<1>6. QED
  BY <1>3, <1>4, <1>5 DEF FilesAgree

(* When no operation is cut short, the files of every trade agree: its     *)
(* events explain its position, its trade has the status of its position,  *)
(* and every reference leads to a file (services/paper_ledger/service.py). *)
THEOREM WholeOperationsAgree == ASSUME AllowCrash = FALSE PROVE Spec => []FilesAgree
<1>1. Agreement /\ [Next]_vars => Agreement'
  <2> SUFFICES ASSUME Agreement, [Next]_vars PROVE Agreement'
    OBVIOUS
  <2>1. IInv'
    BY NextIInv DEF Agreement
  <2>2. Written = {5}
    BY DEF Written
  <2>3. CASE UNCHANGED vars
    <3>1. ASSUME NEW t \in Trade PROVE (Explained(t) /\ Standing(t) /\ Resolving(t))'
      BY <2>3, OthersAgree DEF vars
    <3>2. EventsInv'
      BY <2>3 DEF Agreement, EventsInv, vars
    <3>3. QED
      BY <2>1, <3>1, <3>2 DEF Agreement
  <2>4. CASE Next
    <3>1. PICK t \in Trade : TradeStep(t)
      BY <2>4 DEF Next
    <3>2. CASE \E o \in ReviewOutcome : ReviewTrade(t, o)
      BY <2>1, <3>2, ReviewKeepsAgreement
    <3>3. CASE \E n \in Written \cup (IF AllowCrash THEN {0} ELSE {}) : ApproveAndAdmit(t, n)
      BY <2>1, <2>2, <3>3, AdmissionKeepsAgreement
    <3>4. CASE \E type \in EventType, at \in Time, price \in Optional(Price), qty \in Optional(Qty),
                  n \in Written : RecordLifecycleEvent(t, type, at, price, qty, n)
      BY <2>1, <2>2, <3>4, EventKeepsAgreement
    <3>5. CASE \E o \in OutcomeId, asked \in BOOLEAN, n \in Written :
                  RecordTradeOutcome(t, o, asked, n)
      BY <2>1, <2>2, <3>5, OutcomeKeepsAgreement
    <3>6. QED
      BY <3>1, <3>2, <3>3, <3>4, <3>5 DEF TradeStep
  <2>5. QED
    BY <2>3, <2>4
<1>2. QED
  BY <1>1, InitAgreement, AgreementAgrees, PTL DEF Spec
=============================================================================
