------------------------- MODULE OperatorReviewProofs -------------------------
(***************************************************************************)
(* What no interleaving of requests and no death can break, for any number *)
(* of targets and of requests that are served at the same time; and what   *)
(* holds besides when the requests are served one after the other.         *)
(***************************************************************************)
EXTENDS OperatorReview, FiniteSetTheorems, WellFoundedInduction, TLAPS

-----------------------------------------------------------------------------
(* The invariant.                                                          *)

(* A decision in dec stands behind what a file of t reads; a target that   *)
(* lists its decisions lists this one.                                     *)
BackedBy(t, f, outcome, dec) ==
    \E d \in Request : /\ dec[d] = [target |-> t, outcome |-> outcome]
                       /\ Lists(t) => d \in f.decisions

(* A target file that a request may rely on, whoever wrote it: what it     *)
(* reads is backed by decisions in dec, and nothing blocked is approved.   *)
GoodFile(t, f, dec) ==
    /\ f \in TargetFile /\ f.status \in StatusOf(t)
    /\ t \in Trade \/ f.status = Approved(t) => ~ f.blocked
    /\ \A d \in f.decisions : dec[d] # None /\ dec[d].target = t
    /\ f.status = Approved(t) => BackedBy(t, f, "approve", dec)
    /\ f.status = "rejected" => BackedBy(t, f, "reject", dec)

FilesInv == \A t \in Target : GoodFile(t, target[t], decision)

(* An item only names an assignment that was written.                      *)
GoodItem(i, asg) == i \in ReviewQueueItem /\ (i.assignment # None => asg[i.assignment] # None)

ItemsInv ==
    /\ \A t \in Target, i \in Request : item[t][i] # None => GoodItem(item[t][i], assignment)
    /\ \A r \in Request : \A w \in todo[r] : GoodItem(w[2], assignment)

Undecided == {"idle", "sync", "refresh", "note", "unassign", "assign", "decision"}
Loaded == {"note", "unassign", "assign", "decision", "target", "item", "audit", "admit"}
Deciding == {"decision", "target", "item", "audit", "admit"}

(* What a request has established by the place it has reached, and still   *)
(* may rely on while others write the files it has read.                   *)
RequestInv(r) ==
    /\ pc[r] # "idle" => op[r] \in Operation
    /\ pc[r] \in Undecided => decision[r] = None
    /\ pc[r] \in Loaded =>
         /\ op[r].kind # "sync"
         /\ seen[r] \in Snapshot
         /\ GoodFile(op[r].target, seen[r].target, decision)
         /\ GoodItem(seen[r].item, assignment)
    /\ pc[r] = "note" => op[r].kind = "note"
    /\ pc[r] \in {"unassign", "assign"} => op[r].kind = "assign"
    /\ pc[r] = "unassign" => seen[r].item.assignment # None
    /\ pc[r] = "item" /\ op[r].kind = "assign" => assignment[r] # None
    /\ pc[r] \in {"decision", "target", "admit", "summary"} => op[r].kind = "action"
    /\ pc[r] \in Deciding /\ op[r].kind = "action" /\ op[r].outcome = "approve" =>
         MayApprove(op[r].target, seen[r].target, seen[r].parent) /\ ~ op[r].issues
    /\ pc[r] \in Deciding \ {"decision"} /\ op[r].kind = "action" =>
         decision[r] = [target |-> op[r].target, outcome |-> op[r].outcome]
    /\ pc[r] = "admit" =>
         /\ op[r].target \in Trade /\ op[r].outcome = "approve"
         /\ audit[r] # None /\ audit[r].after = "approved"

RequestsInv == \A r \in Request : RequestInv(r)

(* The request that admitted a trade will not write its decision, audit    *)
(* log or snapshot again.                                                  *)
PositionInv ==
    /\ \A t \in Trade : position[t] # None => pc[position[t]] \in {"summary", "done", "dead"}
    /\ PositionsWereApproved

IInv == TypeOK /\ FilesInv /\ ItemsInv /\ RequestsInv /\ PositionInv

-----------------------------------------------------------------------------
(* Facts about the constants and the operators of the actions.             *)

(* A nonempty finite set of numbers has a greatest one: the one above      *)
(* which the set has least.                                                *)
LEMMA GreatestExists ==
    ASSUME NEW S, IsFiniteSet(S), S # {}, S \subseteq Nat
    PROVE  \E i \in S : \A j \in S : j <= i
<1> DEFINE Higher(j, i) == j > i
<1> DEFINE Above(i) == {j \in S : Higher(j, i)}
<1> DEFINE T == {Above(i) : i \in S}
<1>0. /\ \A i, j, k \in S : Higher(k, j) /\ Higher(j, i) => Higher(k, i)
      /\ \A i \in S : ~ Higher(i, i)
  <2>1. \A i \in S : i \in Nat
    OBVIOUS
  <2>2. QED
    BY <2>1
<1> HIDE DEF Higher
<1>1. T \subseteq FiniteSubsetsOf(S) /\ T # {}
  <2>1. \A A \in SUBSET S : IsFiniteSet(A)
    BY FS_Subset
  <2>2. QED
    BY <2>1 DEF FiniteSubsetsOf
<1>2. PICK A \in T : \A B \in T : ~ (<<B, A>> \in StrictSubsetOrdering(S))
  <2> HIDE DEF T
  <2>1. IsWellFoundedOn(StrictSubsetOrdering(S), FiniteSubsetsOf(S))
    BY FS_StrictSubsetOrderingWellFounded
  <2>2. QED
    BY <1>1, <2>1, WFMin
<1>3. PICK i \in S : A = Above(i)
  OBVIOUS
<1>4. ASSUME NEW j \in S, Higher(j, i)
      PROVE  FALSE
  <2>1. Above(j) \subseteq Above(i) /\ j \in Above(i) /\ j \notin Above(j)
    BY <1>0, <1>4
  <2>2. <<Above(j), Above(i)>> \in StrictSubsetOrdering(S)
    BY <2>1 DEF StrictSubsetOrdering
  <2>3. QED
    BY <1>2, <1>3, <2>2
<1>5. \A j \in S : j <= i
  BY <1>4 DEF Higher
<1>6. QED
  BY <1>5

LEMMA CurrentItemTyped ==
    ASSUME TypeOK, NEW t \in Target
    PROVE  CurrentItem(t) # None => \E i \in Request : CurrentItem(t) = item[t][i]
<1>1. CASE Items(t) = {}
  BY <1>1 DEF CurrentItem
<1>2. CASE Items(t) # {}
  <2>1. Items(t) \subseteq Request
    BY DEF Items
  <2>2. IsFiniteSet(Items(t)) /\ Items(t) \subseteq Nat
    BY <2>1, ReviewAssumption, FS_Subset
  <2>3. \E i \in Items(t) : \A j \in Items(t) : j <= i
    BY <1>2, <2>2, GreatestExists
  <2>4. (CHOOSE i \in Items(t) : \A j \in Items(t) : j <= i) \in Request
    BY <2>1, <2>3
  <2>5. QED
    BY <1>2, <2>4 DEF CurrentItem
<1>3. QED
  BY <1>1, <1>2

LEMMA StatusTyped ==
    ASSUME NEW t \in Target, NEW outcome \in ReviewOutcome, NEW status \in StatusOf(t)
    PROVE  /\ StatusAfter(t, outcome, status) \in StatusOf(t)
           /\ StatusOf(t) \subseteq TargetStatus
<1>1. StatusOf(t) \subseteq TargetStatus
  BY DEF TargetStatus
<1>2. StatusAfter(t, outcome, status) \in StatusOf(t)
  <2>1. t \in Brief \/ t \in Signal \/ t \in Proposal \/ t \in Trade
    BY DEF Target
  <2>2. QED
    BY <2>1, TypesAreDisjoint DEF StatusAfter, StatusOf, Approved, ReviewOutcome
<1>3. QED
  BY <1>1, <1>2

LEMMA OperationTyped ==
    ASSUME NEW o \in Operation
    PROVE  /\ o.kind \in {"sync", "note", "assign", "action"} /\ o.target \in Target
           /\ o.outcome \in ReviewOutcome /\ o.issues \in BOOLEAN
           /\ o.issues => o.kind = "action" /\ o.target \in Proposal
BY DEF Operation

(* Files stay good while decisions and assignments are only added.         *)
Kept ==
    /\ \A d \in Request : decision[d] # None => decision'[d] = decision[d]
    /\ \A a \in Request : assignment[a] # None => assignment'[a] # None

LEMMA GoodFileStays ==
    ASSUME Kept, NEW t \in Target, NEW f, GoodFile(t, f, decision)
    PROVE  GoodFile(t, f, decision')
<1>1. f.decisions \subseteq Request
  BY DEF GoodFile, TargetFile
<1>2. ASSUME NEW outcome \in ReviewOutcome, BackedBy(t, f, outcome, decision)
      PROVE  BackedBy(t, f, outcome, decision')
  <2>1. PICK d \in Request : /\ decision[d] = [target |-> t, outcome |-> outcome]
                             /\ Lists(t) => d \in f.decisions
    BY <1>2 DEF BackedBy
  <2>2. decision[d] \in ReviewDecision
    BY <2>1 DEF ReviewDecision
  <2>3. decision'[d] = decision[d]
    BY <2>2, NoneAssumption DEF Kept
  <2>4. QED
    BY <2>1, <2>3 DEF BackedBy
<1>3. /\ BackedBy(t, f, "approve", decision) => BackedBy(t, f, "approve", decision')
      /\ BackedBy(t, f, "reject", decision) => BackedBy(t, f, "reject", decision')
  BY <1>2 DEF ReviewOutcome
<1>4. \A d \in f.decisions : decision'[d] # None /\ decision'[d].target = t
  BY <1>1 DEF Kept, GoodFile
<1>5. QED
  BY <1>3, <1>4 DEF GoodFile

LEMMA GoodItemStays ==
    ASSUME Kept, NEW i, GoodItem(i, assignment)
    PROVE  GoodItem(i, assignment')
<1>1. i.assignment \in Request \cup {None}
  BY DEF GoodItem, ReviewQueueItem
<1>2. QED
  BY <1>1 DEF Kept, GoodItem

(* The target that a review leaves is as good as the one it has read.      *)
LEMMA ReviewedIsGood ==
    ASSUME NEW r \in Request, RequestInv(r), op[r] \in Operation, op[r].kind = "action",
           pc[r] \in {"target", "item", "audit", "admit"}
    PROVE  /\ GoodFile(op[r].target, Reviewed(r), decision)
           /\ op[r].outcome = "approve" => Reviewed(r).status = Approved(op[r].target)
<1> DEFINE t == op[r].target
<1> DEFINE f == seen[r].target
<1> DEFINE g == Reviewed(r)
<1>1. /\ GoodFile(t, f, decision) /\ t \in Target
      /\ decision[r] = [target |-> t, outcome |-> op[r].outcome]
      /\ op[r].outcome = "approve" => MayApprove(t, f, seen[r].parent) /\ ~ op[r].issues
  BY OperationTyped DEF RequestInv, Deciding, Loaded
<1>2. f \in TargetFile /\ f.status \in StatusOf(t)
  BY <1>1 DEF GoodFile
<1>3. /\ g.status = StatusAfter(t, op[r].outcome, f.status)
      /\ g.blocked = (f.blocked \/ op[r].issues)
      /\ g.decisions = IF Lists(t) THEN f.decisions \cup {r} ELSE f.decisions
      /\ g \in [status : {StatusAfter(t, op[r].outcome, f.status)}, blocked : BOOLEAN,
                decisions : SUBSET Request, admitted : BOOLEAN]
  BY <1>2 DEF TargetFile, Reviewed
<1>4. g \in TargetFile /\ g.status \in StatusOf(t)
  <2>1. StatusAfter(t, op[r].outcome, f.status) \in StatusOf(t) /\ StatusOf(t) \subseteq TargetStatus
    BY <1>1, <1>2, StatusTyped, OperationTyped
  <2>2. QED
    BY <1>3, <2>1 DEF TargetFile
<1>5. \A d \in g.decisions : decision[d] # None /\ decision[d].target = t
  <2>1. decision[r] \in ReviewDecision
    BY <1>1, OperationTyped DEF ReviewDecision
  <2>2. decision[r] # None
    BY <2>1, NoneAssumption
  <2>3. QED
    BY <1>1, <1>3, <2>2 DEF GoodFile
<1>6. t \in Brief \/ t \in Signal \/ t \in Proposal \/ t \in Trade
  BY <1>1 DEF Target
<1>7. CASE op[r].outcome = "approve"
  <2>1. g.status = Approved(t) /\ Approved(t) # "rejected" /\ ~ g.blocked
    BY <1>1, <1>3, <1>7 DEF StatusAfter, Approved, MayApprove, GoodFile
  <2>2. BackedBy(t, g, "approve", decision)
    BY <1>1, <1>3, <1>7 DEF BackedBy
  <2>3. QED
    BY <1>1, <1>4, <1>5, <1>7, <2>1, <2>2 DEF GoodFile
<1>8. CASE op[r].outcome # "approve"
  <2>1. t \in Trade => ~ g.blocked
    BY <1>1, <1>3, TypesAreDisjoint, OperationTyped DEF GoodFile
  <2>2. CASE op[r].outcome = "reject"
    <3>1. g.status = "rejected" /\ Approved(t) # "rejected"
      BY <1>3, <2>2 DEF StatusAfter, Approved
    <3>2. BackedBy(t, g, "reject", decision)
      BY <1>1, <1>3, <2>2 DEF BackedBy
    <3>3. QED
      BY <1>1, <1>4, <1>5, <1>8, <2>1, <3>1, <3>2 DEF GoodFile
  <2>3. CASE op[r].outcome = "needs_revision"
    <3>1. g.status # "rejected" /\ g.status # Approved(t)
      BY <1>3, <1>6, <2>3 DEF StatusAfter, Approved
    <3>2. QED
      BY <1>4, <1>5, <1>8, <2>1, <3>1 DEF GoodFile
  <2>4. CASE op[r].outcome = "escalate"
    <3>1. CASE t \in Proposal \cup Trade
      <4>1. g.status # "rejected" /\ g.status # Approved(t)
        BY <1>3, <2>4, <3>1, TypesAreDisjoint DEF StatusAfter, Approved
      <4>2. QED
        BY <1>4, <1>5, <1>8, <2>1, <4>1 DEF GoodFile
    <3>2. CASE t \notin Proposal \cup Trade
      <4>1. g.status = f.status /\ g.blocked = f.blocked
        BY <1>1, <1>2, <1>3, <2>4, <3>2, OperationTyped DEF StatusAfter, TargetFile
      <4>2. g.decisions = f.decisions
        BY <1>3, <3>2 DEF Lists
      <4>3. /\ g.status = Approved(t) => BackedBy(t, g, "approve", decision)
            /\ g.status = "rejected" => BackedBy(t, g, "reject", decision)
        BY <1>1, <4>1, <4>2 DEF GoodFile, BackedBy
      <4>4. QED
        BY <1>1, <1>4, <1>5, <1>8, <2>1, <4>1, <4>3 DEF GoodFile
    <3>3. QED
      BY <3>1, <3>2
  <2>5. op[r].outcome \in ReviewOutcome
    BY OperationTyped
  <2>6. QED
    BY <1>8, <2>2, <2>3, <2>4, <2>5 DEF ReviewOutcome
<1>9. QED
  BY <1>7, <1>8

(* What a sync writes: well-formed items that name assignments on file.    *)
LEMMA SyncWritesGood ==
    ASSUME TypeOK, ItemsInv, NEW r \in Request, NEW w \in SyncWrites(r)
    PROVE  w \in Target \X ReviewQueueItem /\ GoodItem(w[2], assignment)
<1>1. \A t \in Target : target[t].status \in TargetStatus
  BY DEF TypeOK, TargetFile
<1>2. \A t \in Target : CurrentItem(t) # None => GoodItem(CurrentItem(t), assignment)
  BY CurrentItemTyped DEF ItemsInv
<1>3. \A t \in Target : NewItem(r, t) \in ReviewQueueItem /\ GoodItem(NewItem(r, t), assignment)
  BY <1>1 DEF NewItem, GoodItem, ReviewQueueItem, ReviewQueueStatus, EscalationStatus
<1>4. \A t \in Target : CurrentItem(t) # None => GoodItem(RefreshedItem(t), assignment)
  BY <1>1, <1>2 DEF RefreshedItem, SyncStatus, GoodItem, ReviewQueueItem, ReviewQueueStatus
<1>5. \A t \in Target : CurrentItem(t) # None => GoodItem(ResolvedItem(t), assignment)
  BY <1>1, <1>2 DEF ResolvedItem, GoodItem, ReviewQueueItem, ReviewQueueStatus, EscalationStatus
<1>6. \E t \in Target : /\ w \in {<<t, NewItem(r, t)>>, <<t, RefreshedItem(t)>>, <<t, ResolvedItem(t)>>}
                        /\ w = <<t, NewItem(r, t)>> \/ CurrentItem(t) # None
  BY DEF SyncWrites
<1>7. QED
  BY <1>3, <1>4, <1>5, <1>6 DEF GoodItem

(* The item that a request writes last.                                    *)
LEMMA UpdatedItemGood ==
    ASSUME NEW r \in Request, RequestInv(r), op[r] \in Operation,
           pc[r] = "item" \/ (pc[r] = "audit" /\ op[r].kind # "action")
    PROVE  /\ UpdatedItem(r) \in ReviewQueueItem
           /\ pc[r] = "item" => GoodItem(UpdatedItem(r), assignment)
<1> DEFINE i == seen[r].item
<1>1. i \in ReviewQueueItem /\ GoodItem(i, assignment)
  BY DEF RequestInv, Loaded, GoodItem
<1>2. CASE op[r].kind = "note"
  BY <1>1, <1>2 DEF UpdatedItem, ReviewQueueItem, GoodItem
<1>3. CASE op[r].kind = "assign"
  BY <1>1, <1>3 DEF UpdatedItem, ReviewQueueItem, GoodItem, ReviewQueueStatus, RequestInv
<1>4. CASE op[r].kind \notin {"note", "assign"}
  <2>1. op[r].kind = "action"
    BY <1>4, OperationTyped DEF RequestInv, Loaded
  <2>2. Reviewed(r).status \in TargetStatus
    BY <2>1, ReviewedIsGood DEF GoodFile, TargetFile
  <2>3. QueueStatusAfter(op[r].outcome) \in ReviewQueueStatus
    BY DEF QueueStatusAfter, ReviewQueueStatus
  <2>4. EscalationAfter(op[r].outcome, i.escalation) \in EscalationStatus
    BY DEF EscalationAfter, EscalationStatus
  <2>5. UpdatedItem(r) = [i EXCEPT !.shown = Reviewed(r).status,
                              !.status = QueueStatusAfter(op[r].outcome),
                              !.escalation = EscalationAfter(op[r].outcome, i.escalation),
                              !.decisions = @ \cup {r}]
    BY <1>1, <1>4 DEF UpdatedItem, ReviewQueueItem
  <2> DEFINE status == QueueStatusAfter(op[r].outcome)
  <2> DEFINE escalation == EscalationAfter(op[r].outcome, i.escalation)
  <2> DEFINE shown == Reviewed(r).status
  <2> HIDE DEF status, escalation, shown
  <2>6. UpdatedItem(r) \in ReviewQueueItem /\ UpdatedItem(r).assignment = i.assignment
    <3>1. status \in ReviewQueueStatus /\ escalation \in EscalationStatus /\ shown \in TargetStatus
      BY <2>2, <2>3, <2>4 DEF status, escalation, shown
    <3>2. UpdatedItem(r) = [i EXCEPT !.shown = shown, !.status = status, !.escalation = escalation,
                                     !.decisions = @ \cup {r}]
      BY <2>5 DEF status, escalation, shown
    <3>3. UpdatedItem(r) = [id |-> i.id, status |-> status, shown |-> shown,
                            escalation |-> escalation, decisions |-> i.decisions \cup {r},
                            notes |-> i.notes, assignment |-> i.assignment]
      BY <1>1, <3>2 DEF ReviewQueueItem
    <3>4. /\ i.id \in Request /\ i.decisions \cup {r} \in SUBSET Request
          /\ i.notes \in SUBSET Request /\ i.assignment \in Request \cup {None}
      BY <1>1 DEF ReviewQueueItem
    <3>5. QED
      BY <3>1, <3>3, <3>4 DEF ReviewQueueItem
  <2>7. QED
    BY <1>1, <2>6 DEF GoodItem
<1>5. QED
  BY <1>2, <1>3, <1>4

-----------------------------------------------------------------------------
(* The types.                                                              *)

LEMMA TypeStep ==
    ASSUME TypeOK, ItemsInv, RequestsInv, [Next]_vars
    PROVE  TypeOK'
<1>1. ASSUME NEW r \in Request, NEW o \in Asked, Start(r, o)
      PROVE  TypeOK'
  BY <1>1, ReviewAssumption DEF Start, Goto, files, TypeOK, Control
<1>2. ASSUME NEW r \in Request, LoadForSync(r)
      PROVE  TypeOK'
  <2>1. SyncWrites(r) \in SUBSET (Target \X ReviewQueueItem)
    BY SyncWritesGood
  <2>2. QED
    BY <1>2, <2>1 DEF LoadForSync, Goto, files, TypeOK, Control
<1>3. ASSUME NEW r \in Request, WriteSyncedItem(r)
      PROVE  TypeOK'
  <2>1. PICK w \in todo[r] : /\ item' = [item EXCEPT ![w[1]][w[2].id] = w[2]]
                             /\ todo' = [todo EXCEPT ![r] = @ \ {w}]
    BY <1>3 DEF WriteSyncedItem
  <2>2. w[1] \in Target /\ w[2] \in ReviewQueueItem /\ w[2].id \in Request
    BY DEF TypeOK, ReviewQueueItem
  <2>3. item' \in [Target -> [Request -> ReviewQueueItem \cup {None}]]
    BY <2>1, <2>2 DEF TypeOK
  <2>4. QED
    BY <1>3, <2>1, <2>3 DEF WriteSyncedItem, TypeOK
<1>4. ASSUME NEW r \in Request, SyncDone(r)
      PROVE  TypeOK'
  BY <1>4 DEF SyncDone, Goto, files, TypeOK, Control
<1>5. ASSUME NEW r \in Request, Load(r)
      PROVE  TypeOK'
  <2> DEFINE t == op[r].target
  <2> DEFINE current == CurrentItem(t)
  <2> DEFINE assigned == current.assignment # None /\ assignment[current.assignment].active
  <2> DEFINE parent == IF t \in Trade THEN target[Parent[t]] ELSE None
  <2> DEFINE snapshot == [target |-> target[t], parent |-> parent, item |-> current, assigned |-> assigned]
  <2>1. t \in Target
    BY <1>5, OperationTyped DEF Load, RequestsInv, RequestInv
  <2>2. ASSUME current # None
        PROVE  snapshot \in Snapshot
    <3>1. current \in ReviewQueueItem
      BY <2>1, <2>2, CurrentItemTyped DEF ItemsInv, GoodItem
    <3>2. parent \in TargetFile \cup {None} /\ target[t] \in TargetFile
      BY <2>1, ReviewAssumption DEF TypeOK, Target
    <3>3. assigned \in BOOLEAN
      OBVIOUS
    <3>4. QED
      BY <3>1, <3>2, <3>3 DEF Snapshot
  <2>3. \/ current # None /\ seen' = [seen EXCEPT ![r] = snapshot]
        \/ seen' = seen
    BY <1>5 DEF Load
  <2>4. \E where \in Control : pc' = [pc EXCEPT ![r] = where]
    BY <1>5 DEF Load, Goto, Control
  <2>5. seen' \in [Request -> Snapshot \cup {None}]
    BY <2>2, <2>3 DEF TypeOK
  <2>6. pc' \in [Request -> Control]
    BY <2>4 DEF TypeOK
  <2>7. UNCHANGED <<files, op, todo>>
    BY <1>5 DEF Load
  <2>8. QED
    BY <2>5, <2>6, <2>7 DEF files, TypeOK
<1>6. ASSUME NEW r \in Request, WriteNote(r)
      PROVE  TypeOK'
  <2>1. op[r].target \in Target
    BY <1>6, OperationTyped DEF WriteNote, RequestsInv, RequestInv
  <2>2. QED
    BY <1>6, <2>1 DEF WriteNote, Goto, TypeOK, Control
<1>7. ASSUME NEW r \in Request, DeactivateAssignment(r)
      PROVE  TypeOK'
  <2> DEFINE a == seen[r].item.assignment
  <2>1. a # None /\ GoodItem(seen[r].item, assignment)
    BY <1>7 DEF DeactivateAssignment, RequestsInv, RequestInv, Loaded
  <2>2. a \in Request /\ assignment[a] \in ReviewAssignment
    BY <2>1 DEF GoodItem, ReviewQueueItem, TypeOK
  <2>3. Unassigned(assignment[a]) \in ReviewAssignment
    BY <2>2 DEF Unassigned, ReviewAssignment
  <2>4. QED
    BY <1>7, <2>2, <2>3 DEF DeactivateAssignment, Goto, TypeOK, Control
<1>8. ASSUME NEW r \in Request, WriteAssignment(r)
      PROVE  TypeOK'
  <2>1. op[r].target \in Target /\ seen[r].item \in ReviewQueueItem
    BY <1>8, OperationTyped DEF WriteAssignment, RequestsInv, RequestInv, Loaded, GoodItem
  <2>2. [target |-> op[r].target, item |-> seen[r].item.id, active |-> TRUE] \in ReviewAssignment
    BY <2>1 DEF ReviewAssignment, ReviewQueueItem
  <2>3. QED
    BY <1>8, <2>2 DEF WriteAssignment, Goto, TypeOK, Control
<1>9. ASSUME NEW r \in Request, WriteDecision(r)
      PROVE  TypeOK'
  <2>1. [target |-> op[r].target, outcome |-> op[r].outcome] \in ReviewDecision
    BY <1>9, OperationTyped DEF WriteDecision, RequestsInv, RequestInv, ReviewDecision
  <2>2. QED
    BY <1>9, <2>1 DEF WriteDecision, Goto, TypeOK, Control
<1>10. ASSUME NEW r \in Request, WriteTarget(r)
       PROVE  TypeOK'
  <2>1. /\ op[r].target \in Target
        /\ GoodFile(op[r].target, Reviewed(r), decision)
    BY <1>10, OperationTyped, ReviewedIsGood DEF WriteTarget, RequestsInv, RequestInv
  <2>2. Reviewed(r) \in TargetFile /\ Reviewed(r).status \in StatusOf(op[r].target)
    BY <2>1 DEF GoodFile
  <2>3. QED
    BY <1>10, <2>1, <2>2 DEF WriteTarget, Goto, TypeOK, Control
<1>11. ASSUME NEW r \in Request, WriteItem(r)
       PROVE  TypeOK'
  <2>1. /\ op[r] \in Operation /\ seen[r].item \in ReviewQueueItem /\ seen[r].item.id \in Request
        /\ pc[r] = "item"
    BY <1>11 DEF WriteItem, RequestsInv, RequestInv, Loaded, GoodItem, ReviewQueueItem
  <2>2. UpdatedItem(r) \in ReviewQueueItem
    <3>1. RequestInv(r)
      BY DEF RequestsInv
    <3>2. op[r] \in Operation /\ (pc[r] = "item" \/ (pc[r] = "audit" /\ op[r].kind # "action"))
      BY <2>1
    <3>3. QED
      BY <3>1, <3>2, UpdatedItemGood
  <2>3. QED
    BY <1>11, <2>1, <2>2, OperationTyped DEF WriteItem, Goto, TypeOK, Control
<1>12. ASSUME NEW r \in Request, WriteAudit(r)
       PROVE  TypeOK'
  <2>1. /\ op[r] \in Operation /\ op[r].target \in Target /\ pc[r] = "audit"
        /\ seen[r].item \in ReviewQueueItem /\ seen[r].target \in TargetFile
    BY <1>12, OperationTyped DEF WriteAudit, RequestsInv, RequestInv, Loaded, GoodItem, GoodFile
  <2>2. CASE op[r].kind = "action"
    <3>1. Reviewed(r).status \in TargetStatus
      BY <2>1, <2>2, ReviewedIsGood DEF RequestsInv, GoodFile, TargetFile
    <3>2. audit' = [audit EXCEPT ![r] = [target |-> op[r].target,
              before |-> seen[r].target.status, after |-> Reviewed(r).status]]
      BY <1>12, <2>2 DEF WriteAudit
    <3>3. audit' \in [Request -> AuditLog \cup {None}]
      BY <2>1, <3>1, <3>2 DEF TypeOK, AuditLog, TargetFile
    <3>4. QED
      BY <1>12, <3>3 DEF WriteAudit, Goto, TypeOK, Control
  <2>3. CASE op[r].kind # "action"
    <3>1. UpdatedItem(r) \in ReviewQueueItem
      BY <2>1, <2>3, UpdatedItemGood DEF RequestsInv
    <3>2. audit' = [audit EXCEPT ![r] = [target |-> op[r].target,
              before |-> seen[r].item.status, after |-> UpdatedItem(r).status]]
      BY <1>12, <2>3 DEF WriteAudit
    <3>3. audit' \in [Request -> AuditLog \cup {None}]
      BY <2>1, <3>1, <3>2 DEF TypeOK, AuditLog, ReviewQueueItem
    <3>4. QED
      BY <1>12, <3>3 DEF WriteAudit, Goto, TypeOK, Control
  <2>4. QED
    BY <2>2, <2>3
<1>13. ASSUME NEW r \in Request, AdmitTrade(r)
       PROVE  TypeOK'
  <2>1. /\ op[r].target \in Trade /\ op[r].target \in Target
        /\ GoodFile(op[r].target, Reviewed(r), decision)
    BY <1>13, ReviewedIsGood DEF AdmitTrade, RequestsInv, RequestInv, Target
  <2>2. /\ [Reviewed(r) EXCEPT !.admitted = TRUE] \in TargetFile
        /\ [Reviewed(r) EXCEPT !.admitted = TRUE].status \in StatusOf(op[r].target)
    BY <2>1 DEF GoodFile, TargetFile
  <2>3. QED
    BY <1>13, <2>1, <2>2 DEF AdmitTrade, Goto, TypeOK, Control
<1>14. ASSUME NEW r \in Request, WriteSummary(r) \/ Raise(r)
       PROVE  TypeOK'
  BY <1>14 DEF WriteSummary, Raise, Goto, TypeOK, Control
<1>15. CASE Die
  BY <1>15 DEF Die, files, TypeOK, Control
<1>16. CASE UNCHANGED vars
  BY <1>16, SMTT(40) DEF vars, files, TypeOK
<1>17. QED
  BY <1>1, <1>2, <1>3, <1>4, <1>5, <1>6, <1>7, <1>8, <1>9, <1>10, <1>11, <1>12, <1>13,
     <1>14, <1>15, <1>16 DEF Next, Serve

-----------------------------------------------------------------------------
(* The steps.                                                              *)

(* A decision is never rewritten: only its own request writes it, once.    *)
LEMMA KeptStep ==
    ASSUME TypeOK, RequestsInv, [Next]_vars
    PROVE  Kept
<1>1. ASSUME NEW r \in Request, WriteDecision(r)
      PROVE  Kept
  <2>1. decision[r] = None
    BY <1>1 DEF WriteDecision, RequestsInv, RequestInv, Undecided
  <2>2. QED
    BY <1>1, <2>1 DEF WriteDecision, Kept, TypeOK
<1>2. ASSUME NEW r \in Request, DeactivateAssignment(r)
      PROVE  Kept
  <2> DEFINE a == seen[r].item.assignment
  <2>1. assignment[a] # None /\ a \in Request
    BY <1>2 DEF DeactivateAssignment, RequestsInv, RequestInv, Loaded, GoodItem, ReviewQueueItem
  <2>2. assignment[a] \in ReviewAssignment
    BY <2>1 DEF TypeOK
  <2>3. Unassigned(assignment[a]) # None
    BY <2>2, NoneAssumption DEF Unassigned, ReviewAssignment
  <2>4. QED
    BY <1>2, <2>1, <2>3 DEF DeactivateAssignment, Kept, TypeOK
<1>3. ASSUME NEW r \in Request, WriteAssignment(r)
      PROVE  Kept
  <2>1. [target |-> op[r].target, item |-> seen[r].item.id, active |-> TRUE] \in ReviewAssignment
    BY <1>3, OperationTyped
       DEF WriteAssignment, RequestsInv, RequestInv, Loaded, GoodItem, ReviewQueueItem, ReviewAssignment
  <2>2. [target |-> op[r].target, item |-> seen[r].item.id, active |-> TRUE] # None
    BY <2>1, NoneAssumption
  <2>3. QED
    BY <1>3, <2>2 DEF WriteAssignment, Kept, TypeOK
<1>4. ASSUME UNCHANGED <<decision, assignment>>
      PROVE  Kept
  BY <1>4, SMTT(40) DEF Kept
<1>5. QED
  BY <1>1, <1>2, <1>3, <1>4
     DEF Next, Serve, vars, files, Start, LoadForSync, WriteSyncedItem, SyncDone, Load, WriteNote,
         WriteTarget, WriteItem, WriteAudit, AdmitTrade, WriteSummary, Raise, Die

(* Only a review writes targets, and it writes what it may.                *)
LEMMA FilesStep ==
    ASSUME TypeOK, FilesInv, RequestsInv, [Next]_vars
    PROVE  FilesInv'
<1>1. Kept
  BY KeptStep
<1>2. ASSUME NEW r \in Request, WriteTarget(r) \/ AdmitTrade(r)
      PROVE  FilesInv'
  <2> DEFINE t == op[r].target
  <2>1. /\ op[r] \in Operation /\ op[r].kind = "action" /\ t \in Target
        /\ pc[r] \in {"target", "item", "audit", "admit"} /\ RequestInv(r)
    BY <1>2, OperationTyped DEF WriteTarget, AdmitTrade, RequestsInv, RequestInv
  <2>2. GoodFile(t, Reviewed(r), decision)
    BY <2>1, ReviewedIsGood
  <2>3. GoodFile(t, [Reviewed(r) EXCEPT !.admitted = TRUE], decision)
    <3>1. PICK g : g = Reviewed(r)
      OBVIOUS
    <3>2. PICK h : h = [g EXCEPT !.admitted = TRUE]
      OBVIOUS
    <3>3. GoodFile(t, g, decision)
      BY <2>2, <3>1
    <3>4. /\ h \in TargetFile /\ h.status = g.status /\ h.blocked = g.blocked
          /\ h.decisions = g.decisions
      BY <3>2, <3>3 DEF GoodFile, TargetFile
    <3>5. GoodFile(t, h, decision)
      BY <3>3, <3>4 DEF GoodFile, BackedBy
    <3>6. QED
      BY <3>1, <3>2, <3>5
  <2>4. \/ target' = [target EXCEPT ![t] = Reviewed(r)]
        \/ target' = [target EXCEPT ![t] = [Reviewed(r) EXCEPT !.admitted = TRUE]]
        \/ target' = target
    BY <1>2 DEF WriteTarget, AdmitTrade
  <2>5. decision' = decision
    BY <1>2 DEF WriteTarget, AdmitTrade
  <2>6. \A u \in Target : GoodFile(u, target'[u], decision)
    BY <2>1, <2>2, <2>3, <2>4, SMTT(40) DEF FilesInv, TypeOK
  <2>7. QED
    BY <2>5, <2>6 DEF FilesInv
<1>3. ASSUME target' = target
      PROVE  FilesInv'
  <2>1. \A t \in Target : GoodFile(t, target[t], decision')
    BY <1>1, GoodFileStays DEF FilesInv
  <2>2. QED
    BY <1>3, <2>1 DEF FilesInv
<1>4. QED
  BY <1>2, <1>3
     DEF Next, Serve, vars, files, Start, LoadForSync, WriteSyncedItem, SyncDone, Load, WriteNote,
         DeactivateAssignment, WriteAssignment, WriteDecision, WriteItem, WriteAudit, WriteSummary,
         Raise, Die

LEMMA ItemsStep ==
    ASSUME TypeOK, TypeOK', ItemsInv, RequestsInv, [Next]_vars
    PROVE  ItemsInv'
<1>1. Kept
  BY KeptStep
<1>2. /\ \A t \in Target, i \in Request : item[t][i] # None => GoodItem(item[t][i], assignment')
      /\ \A r \in Request : \A w \in todo[r] : GoodItem(w[2], assignment')
  BY <1>1, GoodItemStays DEF ItemsInv
<1>3. ASSUME NEW r \in Request, LoadForSync(r)
      PROVE  ItemsInv'
  <2>1. \A w \in SyncWrites(r) : GoodItem(w[2], assignment)
    BY SyncWritesGood
  <2>2. assignment' = assignment /\ item' = item /\ todo' = [todo EXCEPT ![r] = SyncWrites(r)]
    BY <1>3 DEF LoadForSync, files
  <2>3. QED
    BY <1>2, <2>1, <2>2 DEF ItemsInv, TypeOK
<1>4. ASSUME NEW r \in Request, WriteSyncedItem(r)
      PROVE  ItemsInv'
  <2>1. PICK w \in todo[r] : /\ item' = [item EXCEPT ![w[1]][w[2].id] = w[2]]
                             /\ todo' = [todo EXCEPT ![r] = @ \ {w}]
    BY <1>4 DEF WriteSyncedItem
  <2>2. GoodItem(w[2], assignment)
    BY DEF ItemsInv
  <2>3. \A t \in Target, i \in Request : item'[t][i] \in {item[t][i], w[2]}
    BY <2>1 DEF TypeOK
  <2>4. \A s \in Request : todo'[s] \subseteq todo[s]
    BY <2>1 DEF TypeOK
  <2>5. assignment' = assignment
    BY <1>4 DEF WriteSyncedItem
  <2>6. QED
    BY <1>2, <2>2, <2>3, <2>4, <2>5 DEF ItemsInv
<1>5. ASSUME NEW r \in Request, WriteItem(r)
      PROVE  ItemsInv'
  <2>1. op[r] \in Operation /\ pc[r] = "item" /\ RequestInv(r)
    BY <1>5 DEF WriteItem, RequestsInv, RequestInv
  <2>2. GoodItem(UpdatedItem(r), assignment)
    BY <2>1, UpdatedItemGood
  <2>3. \A t \in Target, i \in Request : item'[t][i] \in {item[t][i], UpdatedItem(r)}
    BY <1>5 DEF WriteItem, TypeOK
  <2>4. assignment' = assignment /\ todo' = todo
    BY <1>5 DEF WriteItem
  <2>5. QED
    BY <1>2, <2>2, <2>3, <2>4 DEF ItemsInv
<1>6. ASSUME UNCHANGED <<item, todo>>
      PROVE  ItemsInv'
  BY <1>2, <1>6 DEF ItemsInv
<1>7. QED
  BY <1>3, <1>4, <1>5, <1>6
     DEF Next, Serve, vars, files, Start, SyncDone, Load, WriteNote, DeactivateAssignment,
         WriteAssignment, WriteDecision, WriteTarget, WriteAudit, AdmitTrade, WriteSummary, Raise, Die

(* What a request relies on survives the steps of the others.              *)
LEMMA OthersKeep ==
    ASSUME Kept, NEW s \in Request, RequestInv(s), pc'[s] = pc[s], op'[s] = op[s],
           seen'[s] = seen[s], decision'[s] = decision[s], audit'[s] = audit[s]
    PROVE  RequestInv(s)'
<1>1. pc[s] \in Loaded => /\ GoodFile(op[s].target, seen[s].target, decision')
                          /\ GoodItem(seen[s].item, assignment')
  BY GoodFileStays, GoodItemStays, OperationTyped DEF RequestInv, Loaded
<1>2. assignment[s] # None => assignment'[s] # None
  BY DEF Kept
<1>3. QED
  BY <1>1, <1>2 DEF RequestInv

LEMMA OwnStep ==
    ASSUME TypeOK, FilesInv, ItemsInv, RequestsInv, NEW r \in Request, Kept,
           Serve(r) \/ (\E o \in Asked : Start(r, o))
    PROVE  RequestInv(r)'
<1> DEFINE t == op[r].target
<1>0. RequestInv(r)
  BY DEF RequestsInv
<1>1. pc[r] \in Loaded => /\ GoodFile(t, seen[r].target, decision')
                          /\ GoodItem(seen[r].item, assignment')
  BY <1>0, GoodFileStays, GoodItemStays, OperationTyped DEF RequestInv, Loaded
<1>2. ASSUME NEW o \in Asked, Start(r, o)
      PROVE  RequestInv(r)'
  <2>1. /\ pc[r] = "idle" /\ pc'[r] = "sync" /\ op'[r] \in Operation /\ decision'[r] = decision[r]
    BY <1>2, ReviewAssumption DEF Start, Goto, files, TypeOK
  <2>2. QED
    BY <1>0, <2>1 DEF RequestInv, Undecided, Loaded, Deciding
<1>3. CASE LoadForSync(r) \/ WriteSyncedItem(r) \/ SyncDone(r)
  <2>1. /\ pc[r] \in {"sync", "refresh"} /\ pc'[r] \in {"refresh", "done"}
        /\ op'[r] = op[r] /\ decision'[r] = decision[r]
    BY <1>3 DEF LoadForSync, WriteSyncedItem, SyncDone, Goto, files, TypeOK
  <2>2. QED
    BY <1>0, <2>1 DEF RequestInv, Undecided, Loaded, Deciding
<1>4. CASE Load(r)
  <2> DEFINE file == target[t]
  <2> DEFINE parent == IF t \in Trade THEN target[Parent[t]] ELSE None
  <2> DEFINE current == CurrentItem(t)
  <2> DEFINE assigned == current.assignment # None /\ assignment[current.assignment].active
  <2> DEFINE snapshot == [target |-> file, parent |-> parent, item |-> current, assigned |-> assigned]
  <2>1. /\ op[r] \in Operation /\ t \in Target /\ op[r].kind # "sync" /\ pc[r] = "refresh"
    BY <1>0, <1>4, OperationTyped DEF Load, RequestInv
  <2>2. /\ UNCHANGED <<decision, assignment, audit, op>> /\ decision[r] = None
    BY <1>0, <1>4 DEF Load, files, RequestInv, Undecided
  <2>3. CASE pc'[r] = "raise"
    BY <2>1, <2>2, <2>3 DEF RequestInv, Undecided, Loaded, Deciding
  <2>4. CASE pc'[r] # "raise"
    <3>1. /\ current # None /\ seen' = [seen EXCEPT ![r] = snapshot]
          /\ op[r].kind = "action" /\ op[r].outcome = "approve" =>
               MayApprove(t, file, parent) /\ ~ op[r].issues
          /\ pc' = [pc EXCEPT ![r] = CASE op[r].kind = "note" -> "note"
                                       [] op[r].kind = "action" -> "decision"
                                       [] OTHER -> IF assigned THEN "unassign" ELSE "assign"]
      BY <1>4, <2>4 DEF Load, Goto, TypeOK
    <3>2. seen'[r] = snapshot
      BY <3>1 DEF TypeOK
    <3>3. /\ op[r].kind = "note" => pc'[r] = "note"
          /\ op[r].kind = "action" => pc'[r] = "decision"
          /\ op[r].kind = "assign" => pc'[r] = "assign" \/ (pc'[r] = "unassign" /\ assigned)
      <4>1. CASE op[r].kind = "note"
        BY <3>1, <4>1 DEF TypeOK
      <4>2. CASE op[r].kind = "action"
        BY <3>1, <4>2 DEF TypeOK
      <4>3. CASE op[r].kind = "assign" /\ assigned
        <5>1. pc' = [pc EXCEPT ![r] = "unassign"]
          BY <3>1, <4>3
        <5>2. QED
          BY <4>3, <5>1 DEF TypeOK
      <4>4. CASE op[r].kind = "assign" /\ ~ assigned
        <5>1. pc' = [pc EXCEPT ![r] = "assign"]
          BY <3>1, <4>4
        <5>2. QED
          BY <4>4, <5>1 DEF TypeOK
      <4>5. QED
        BY <4>1, <4>2, <4>3, <4>4
    <3>4. GoodFile(t, file, decision) /\ GoodItem(current, assignment)
      BY <2>1, <3>1, CurrentItemTyped DEF FilesInv, ItemsInv
    <3>5. snapshot \in Snapshot
      <4>1. parent \in TargetFile \cup {None} /\ file \in TargetFile
        BY <2>1, ReviewAssumption DEF TypeOK, Target
      <4>2. assigned \in BOOLEAN
        OBVIOUS
      <4>3. QED
        BY <3>4, <4>1, <4>2 DEF Snapshot, GoodItem
    <3>6. /\ seen'[r].target = file /\ seen'[r].parent = parent /\ seen'[r].item = current
      BY <3>2
    <3>7. op[r].kind \in {"note", "assign", "action"}
      BY <2>1, OperationTyped
    <3>8. /\ seen'[r] \in Snapshot /\ GoodFile(t, seen'[r].target, decision)
          /\ GoodItem(seen'[r].item, assignment)
      BY <3>2, <3>4, <3>5, <3>6
    <3>9. CASE op[r].kind = "note"
      BY <2>1, <2>2, <3>3, <3>8, <3>9 DEF RequestInv, Undecided, Loaded, Deciding
    <3>10. CASE op[r].kind = "assign"
      BY <2>1, <2>2, <3>3, <3>6, <3>8, <3>10 DEF RequestInv, Undecided, Loaded, Deciding
    <3>11. CASE op[r].kind = "action"
      BY <2>1, <2>2, <3>1, <3>3, <3>6, <3>8, <3>11 DEF RequestInv, Undecided, Loaded, Deciding
    <3>12. QED
      BY <3>7, <3>9, <3>10, <3>11
  <2>5. QED
    BY <2>3, <2>4
<1>5. CASE WriteNote(r)
  <2>1. /\ pc[r] = "note" /\ pc'[r] = "item" /\ UNCHANGED <<op, seen, decision, assignment>>
    BY <1>5 DEF WriteNote, Goto, TypeOK
  <2>2. QED
    BY <1>0, <1>1, <2>1 DEF RequestInv, Undecided, Loaded, Deciding
<1>6. CASE DeactivateAssignment(r)
  <2>1. /\ pc[r] = "unassign" /\ pc'[r] = "assign" /\ UNCHANGED <<op, seen, decision>>
    BY <1>6 DEF DeactivateAssignment, Goto, TypeOK
  <2>2. QED
    BY <1>0, <1>1, <2>1 DEF RequestInv, Undecided, Loaded, Deciding
<1>7. CASE WriteAssignment(r)
  <2>1. /\ pc[r] = "assign" /\ pc'[r] = "item" /\ UNCHANGED <<op, seen, decision>>
        /\ assignment'[r] = [target |-> t, item |-> seen[r].item.id, active |-> TRUE]
    BY <1>7 DEF WriteAssignment, Goto, TypeOK
  <2>2. assignment'[r] \in ReviewAssignment
    BY <1>0, <2>1, OperationTyped DEF RequestInv, Loaded, GoodItem, ReviewQueueItem, ReviewAssignment
  <2>3. assignment'[r] # None
    BY <2>2, NoneAssumption
  <2>4. QED
    BY <1>0, <1>1, <2>1, <2>3 DEF RequestInv, Undecided, Loaded, Deciding
<1>8. CASE WriteDecision(r)
  <2>1. /\ pc[r] = "decision" /\ pc'[r] = "target" /\ UNCHANGED <<op, seen, assignment>>
        /\ decision'[r] = [target |-> t, outcome |-> op[r].outcome]
    BY <1>8 DEF WriteDecision, Goto, TypeOK
  <2>2. QED
    BY <1>0, <1>1, <2>1 DEF RequestInv, Undecided, Loaded, Deciding
<1>9. CASE WriteTarget(r)
  <2>1. /\ pc[r] = "target" /\ pc'[r] = "item" /\ UNCHANGED <<op, seen, decision, assignment>>
    BY <1>9 DEF WriteTarget, Goto, TypeOK
  <2>2. QED
    BY <1>0, <1>1, <2>1 DEF RequestInv, Undecided, Loaded, Deciding
<1>10. CASE WriteItem(r)
  <2>1. /\ pc[r] = "item" /\ pc'[r] = "audit" /\ UNCHANGED <<op, seen, decision, assignment>>
    BY <1>10 DEF WriteItem, Goto, TypeOK
  <2>2. QED
    BY <1>0, <1>1, <2>1 DEF RequestInv, Undecided, Loaded, Deciding
<1>11. CASE WriteAudit(r)
  <2>1. /\ pc[r] = "audit" /\ UNCHANGED <<op, seen, decision, assignment>>
        /\ pc'[r] = IF op[r].kind # "action" THEN "done"
                    ELSE IF t \in Trade /\ op[r].outcome = "approve" THEN "admit"
                    ELSE "summary"
    BY <1>11 DEF WriteAudit, Goto, TypeOK
  <2>2. op[r] \in Operation /\ t \in Target /\ GoodFile(t, seen[r].target, decision)
    BY <1>0, <2>1, OperationTyped DEF RequestInv, Loaded
  <2>3. CASE op[r].kind = "action" /\ t \in Trade /\ op[r].outcome = "approve"
    <3>1. /\ audit'[r] = [target |-> t, before |-> seen[r].target.status, after |-> Reviewed(r).status]
          /\ pc'[r] = "admit"
      BY <1>11, <2>1, <2>3 DEF WriteAudit, TypeOK
    <3>2. /\ GoodFile(t, Reviewed(r), decision) /\ Reviewed(r).status = Approved(t)
      BY <1>0, <2>1, <2>2, <2>3, ReviewedIsGood
    <3>3. Reviewed(r).status = "approved"
      BY <2>3, <3>2, TypesAreDisjoint DEF Approved
    <3>4. audit'[r] \in AuditLog
      BY <2>2, <3>1, <3>2 DEF AuditLog, GoodFile, TargetFile
    <3>5. audit'[r] # None /\ audit'[r].after = "approved"
      BY <3>1, <3>3, <3>4, NoneAssumption
    <3>6. QED
      BY <1>0, <1>1, <2>1, <2>3, <3>1, <3>5 DEF RequestInv, Undecided, Loaded, Deciding
  <2>4. CASE ~ (op[r].kind = "action" /\ t \in Trade /\ op[r].outcome = "approve")
    <3>1. pc'[r] = "done" \/ (pc'[r] = "summary" /\ op[r].kind = "action")
      <4>1. CASE op[r].kind # "action"
        BY <2>1, <4>1
      <4>2. CASE op[r].kind = "action"
        <5>1. ~ (t \in Trade /\ op[r].outcome = "approve")
          BY <2>4, <4>2
        <5>2. pc'[r] = "summary"
          BY <2>1, <4>2, <5>1
        <5>3. QED
          BY <4>2, <5>2
      <4>3. QED
        BY <4>1, <4>2
    <3>2. QED
      BY <2>1, <2>2, <3>1 DEF RequestInv, Undecided, Loaded, Deciding
  <2>5. QED
    BY <2>3, <2>4
<1>12. CASE AdmitTrade(r) \/ WriteSummary(r) \/ Raise(r)
  <2>1. /\ pc[r] \in {"admit", "summary", "raise"} /\ op'[r] = op[r]
        /\ pc'[r] \in {"raise", "done"} \/ (pc'[r] = "summary" /\ pc[r] = "admit")
    BY <1>12 DEF AdmitTrade, WriteSummary, Raise, Goto, TypeOK
  <2>2. QED
    BY <1>0, <2>1 DEF RequestInv, Undecided, Loaded, Deciding
<1>13. QED
  BY <1>2, <1>3, <1>4, <1>5, <1>6, <1>7, <1>8, <1>9, <1>10, <1>11, <1>12 DEF Serve

LEMMA RequestsStep ==
    ASSUME TypeOK, FilesInv, ItemsInv, RequestsInv, [Next]_vars
    PROVE  RequestsInv'
<1>1. Kept
  BY KeptStep
<1>2. ASSUME NEW r \in Request, Serve(r) \/ (\E o \in Asked : Start(r, o))
      PROVE  RequestsInv'
  <2>1. RequestInv(r)'
    BY <1>1, <1>2, OwnStep
  <2>2. ASSUME NEW s \in Request \ {r}
        PROVE  /\ pc'[s] = pc[s] /\ op'[s] = op[s] /\ seen'[s] = seen[s]
               /\ decision'[s] = decision[s] /\ audit'[s] = audit[s]
    BY <1>2
       DEF Serve, files, Start, LoadForSync, WriteSyncedItem, SyncDone, Load, WriteNote,
           DeactivateAssignment, WriteAssignment, WriteDecision, WriteTarget, WriteItem, WriteAudit,
           AdmitTrade, WriteSummary, Raise, Goto, TypeOK
  <2>3. \A s \in Request \ {r} : RequestInv(s)'
    BY <1>1, <2>2, OthersKeep DEF RequestsInv
  <2>4. QED
    BY <2>1, <2>3 DEF RequestsInv
<1>3. CASE Die
  <2>1. /\ UNCHANGED <<op, seen, decision, audit, assignment>>
        /\ \A s \in Request : pc'[s] = pc[s] \/ pc'[s] = "dead"
    BY <1>3 DEF Die, files
  <2>2. ASSUME NEW s \in Request, pc'[s] = "dead", pc[s] # "dead"
        PROVE  RequestInv(s)'
    <3>1. pc[s] # "idle"
      BY <1>3, <2>2 DEF Die, Open
    <3>2. QED
      BY <2>1, <2>2, <3>1 DEF RequestsInv, RequestInv, Undecided, Loaded, Deciding
  <2>3. ASSUME NEW s \in Request, pc'[s] = pc[s]
        PROVE  RequestInv(s)'
    BY <1>1, <2>1, <2>3, OthersKeep DEF RequestsInv
  <2>4. QED
    BY <2>1, <2>2, <2>3 DEF RequestsInv
<1>4. CASE UNCHANGED vars
  BY <1>1, <1>4, OthersKeep DEF vars, files, RequestsInv
<1>5. QED
  BY <1>2, <1>3, <1>4 DEF Next

(* A position only comes from an admission, which a single request makes   *)
(* and which is the last thing it writes but its summary.                  *)
LEMMA PositionStep ==
    ASSUME TypeOK, RequestsInv, PositionInv, [Next]_vars
    PROVE  PositionInv'
<1> DEFINE Backed(t, r) ==
        /\ decision[r] = [target |-> t, outcome |-> "approve"]
        /\ audit[r] # None /\ audit[r].after = "approved"
        /\ seen[r].parent.status = "approved" /\ ~ seen[r].parent.blocked
<1> DEFINE BackedNext(t, r) ==
        /\ decision'[r] = [target |-> t, outcome |-> "approve"]
        /\ audit'[r] # None /\ audit'[r].after = "approved"
        /\ seen'[r].parent.status = "approved" /\ ~ seen'[r].parent.blocked
<1> DEFINE Ended == {"summary", "done", "dead"}
<1>1. ASSUME NEW t \in Trade, position[t] # None
      PROVE  position[t] \in Request /\ pc[position[t]] \in Ended /\ Backed(t, position[t])
  BY <1>1 DEF PositionInv, PositionsWereApproved, TypeOK
<1>2. ASSUME NEW s \in Request, pc[s] \in Ended
      PROVE  /\ pc'[s] \in Ended /\ decision'[s] = decision[s] /\ audit'[s] = audit[s]
             /\ seen'[s] = seen[s]
  <2>1. ASSUME NEW r \in Request, Serve(r) \/ (\E o \in Asked : Start(r, o)), r # s
        PROVE  /\ pc'[s] = pc[s] /\ decision'[s] = decision[s] /\ audit'[s] = audit[s]
               /\ seen'[s] = seen[s]
    BY <2>1
       DEF Serve, files, Start, LoadForSync, WriteSyncedItem, SyncDone, Load, WriteNote,
           DeactivateAssignment, WriteAssignment, WriteDecision, WriteTarget, WriteItem, WriteAudit,
           AdmitTrade, WriteSummary, Raise, Goto, TypeOK
  <2>2. ASSUME Serve(s) \/ (\E o \in Asked : Start(s, o))
        PROVE  WriteSummary(s)
    BY <1>2, <2>2
       DEF Serve, Start, LoadForSync, WriteSyncedItem, SyncDone, Load, WriteNote,
           DeactivateAssignment, WriteAssignment, WriteDecision, WriteTarget, WriteItem, WriteAudit,
           AdmitTrade, WriteSummary, Raise
  <2>3. CASE WriteSummary(s)
    BY <2>3 DEF WriteSummary, Goto, TypeOK
  <2>4. CASE Die
    BY <1>2, <2>4 DEF Die, files
  <2>5. CASE UNCHANGED vars
    BY <1>2, <2>5 DEF vars, files
  <2>6. QED
    BY <1>2, <2>1, <2>2, <2>3, <2>4, <2>5 DEF Next
<1>3. ASSUME NEW r \in Request, AdmitTrade(r), position' # position
      PROVE  /\ op[r].target \in Trade /\ position' = [position EXCEPT ![op[r].target] = r]
             /\ pc'[r] = "summary" /\ Backed(op[r].target, r)
             /\ UNCHANGED <<decision, audit, seen>>
  <2>1. /\ pc[r] = "admit" /\ position' = [position EXCEPT ![op[r].target] = r]
        /\ pc'[r] = "summary" /\ UNCHANGED <<decision, audit, seen>>
    BY <1>3 DEF AdmitTrade, Goto, TypeOK
  <2>2. /\ op[r].kind = "action" /\ op[r].outcome = "approve" /\ op[r].target \in Trade
        /\ audit[r] # None /\ audit[r].after = "approved"
        /\ decision[r] = [target |-> op[r].target, outcome |-> op[r].outcome]
        /\ MayApprove(op[r].target, seen[r].target, seen[r].parent)
    BY <2>1 DEF RequestsInv, RequestInv, Deciding
  <2>3. QED
    BY <2>1, <2>2 DEF MayApprove
<1>4. ASSUME NEW t \in Trade, position'[t] # None
      PROVE  /\ pc'[position'[t]] \in Ended /\ BackedNext(t, position'[t])
  <2>1. CASE position'[t] = position[t]
    <3>1. /\ position[t] \in Request /\ pc[position[t]] \in Ended /\ Backed(t, position[t])
      BY <1>1, <1>4, <2>1
    <3>2. QED
      BY <1>2, <2>1, <3>1
  <2>2. CASE position'[t] # position[t]
    <3>1. PICK r \in Request : AdmitTrade(r)
      BY <2>2
         DEF Next, Serve, vars, files, Start, LoadForSync, WriteSyncedItem, SyncDone, Load, WriteNote,
             DeactivateAssignment, WriteAssignment, WriteDecision, WriteTarget, WriteItem, WriteAudit,
             WriteSummary, Raise, Die
    <3>2. position' # position
      BY <2>2
    <3>3. op[r].target = t /\ position'[t] = r
      BY <1>3, <2>2, <3>1, <3>2 DEF TypeOK
    <3>4. QED
      BY <1>3, <3>1, <3>2, <3>3, SMTT(40)
  <2>3. QED
    BY <2>1, <2>2
<1>5. QED
  BY <1>4 DEF PositionInv, PositionsWereApproved

LEMMA InitEstablishes == Init => IInv
<1> SUFFICES ASSUME Init PROVE IInv
  OBVIOUS
<1>1. /\ \A t \in Target : /\ target[t] \in TargetFile /\ target[t].decisions = {}
                           /\ target[t].status \in Submitted(t)
                           /\ t \in Trade => ~ target[t].blocked
      /\ target \in [Target -> TargetFile]
  BY DEF Init, TargetFile
<1>2. \A t \in Target : t \in Brief \/ t \in Signal \/ t \in Proposal \/ t \in Trade
  BY DEF Target
<1>3. \A t \in Target : /\ Submitted(t) \subseteq StatusOf(t)
                        /\ Approved(t) \notin Submitted(t) /\ "rejected" \notin Submitted(t)
  BY <1>2, TypesAreDisjoint DEF Submitted, StatusOf, Approved
<1>4. FilesInv
  BY <1>1, <1>3 DEF FilesInv, GoodFile
<1>5. TypeOK
  BY <1>1, <1>3 DEF Init, TypeOK, Control
<1>6. ItemsInv /\ RequestsInv /\ PositionInv
  BY DEF Init, ItemsInv, RequestsInv, RequestInv, PositionInv, PositionsWereApproved,
         Undecided, Loaded, Deciding
<1>7. QED
  BY <1>4, <1>5, <1>6 DEF IInv

LEMMA Invariance == Spec => []IInv
<1>1. IInv /\ [Next]_vars => IInv'
  BY TypeStep, FilesStep, ItemsStep, RequestsStep, PositionStep DEF IInv
<1>2. QED
  BY InitEstablishes, <1>1, PTL DEF Spec

-----------------------------------------------------------------------------
(* The theorems.                                                           *)

(* Every file has its type, and a target the statuses of its own kind.     *)
THEOREM TypeCorrect == Spec => []TypeOK
<1>1. IInv => TypeOK
  BY DEF IInv
<1>2. QED
  BY Invariance, <1>1, PTL

(* However requests overlap and whenever the process dies, a target on     *)
(* file reads approved or rejected only through a decision on file: the    *)
(* decision is written first, and what a request writes from its snapshot  *)
(* was backed when it was read.                                            *)
THEOREM StatusesAreBacked == Spec => []DecisionsBackStatuses
<1>1. IInv => DecisionsBackStatuses
  BY DEF IInv, FilesInv, GoodFile, BackedBy, DecisionsBackStatuses
<1>2. QED
  BY Invariance, <1>1, PTL

(* No overlap of requests gets a brief, signal or proposal approved that   *)
(* carries a reason against it: status and reasons are written together.   *)
THEOREM NothingBlockedIsApproved == Spec => []ApprovedIsNeverBlocked
<1>1. IInv => ApprovedIsNeverBlocked
  BY DEF IInv, FilesInv, GoodFile, ApprovedIsNeverBlocked
<1>2. QED
  BY Invariance, <1>1, PTL

(* Every position in the ledger was admitted by a request that recorded    *)
(* and audited the approval of its trade and had read an approved and      *)
(* unblocked proposal.                                                     *)
THEOREM PositionsRestOnApprovals == Spec => []PositionsWereApproved
<1>1. IInv => PositionsWereApproved
  BY DEF IInv, PositionInv
<1>2. QED
  BY Invariance, <1>1, PTL

-----------------------------------------------------------------------------
(* What holds as long as requests are served one after the other, whether  *)
(* or not some of them die.                                                *)

Sequential == MaxOpen <= 1

(* Reviewable, of a status.                                                *)
Awaits(t, status) ==
    CASE t \in Brief -> status \in {"pending_human_review", "revision_requested"}
      [] t \in Signal -> status = "candidate"
      [] t \in Proposal -> status \in {"pending_review", "draft"}
      [] OTHER -> status = "proposed"

(* What an item of t says is what is on file.                              *)
Tells(t, i, file) ==
    /\ i.shown = file.status
    /\ i.status = "resolved" => ~ Awaits(t, file.status)
    /\ i.status \in {"pending_review", "in_review", "awaiting_revision"} =>
         Awaits(t, file.status)

(* A request in one of these places has written its item or never will.    *)
Settled == {"audit", "admit", "summary", "raise", "done"}

(* An item of t records what settled requests decided and noted, and the   *)
(* escalations among it.                                                   *)
Records(t, i) ==
    /\ \A r \in Decided(t) : pc[r] \in Settled => r \in i.decisions
    /\ i.decisions \subseteq Decided(t)
    /\ Lists(t) => i.decisions \subseteq target[t].decisions
    /\ \A r \in NotesAbout(t) : pc[r] \in Settled => r \in i.notes
    /\ i.notes \subseteq NotesAbout(t)
    /\ i.status = "escalated" <=> i.escalation = "requested"
    /\ i.escalation = "none" <=> \A r \in i.decisions : decision[r].outcome # "escalate"

OneOpen == \A r, s \in Open : r = s

(* Only the request that is about to write an item has left it behind, and *)
(* one that died there until the next sync is through.                     *)
Busy(t) == \E r \in Request : pc[r] = "item" /\ op[r].target = t
Unsynced == {"idle", "sync", "refresh", "dead"}
Synced == \E r \in Request : pc[r] \notin Unsynced \cup {"done"}

QueueOf(t) ==
    /\ \A i \in Items(t) : item[t][i].id = i /\ \A j \in Items(t) : j = i
    /\ Items(t) = {} => Decided(t) = {} /\ NotesAbout(t) = {}
    /\ \A i \in Items(t) : Records(t, item[t][i])
    /\ ~ Busy(t) /\ (Synced \/ ~ Interrupted(t)) =>
         \A i \in Items(t) : Tells(t, item[t][i], target[t])

QueueInv == \A t \in Target : QueueOf(t)

(* What a request saw is still on file, but for what it wrote itself.      *)
Holding == {"note", "unassign", "assign", "decision", "target", "item"}
HeldInv ==
    \A r \in Request : pc[r] \in Holding =>
        LET t == op[r].target IN
        /\ item[t][seen[r].item.id] = seen[r].item
        /\ Tells(t, seen[r].item, seen[r].target)
        /\ target[t] = IF pc[r] = "item" /\ op[r].kind = "action" THEN Reviewed(r)
                                                                  ELSE seen[r].target
        /\ t \in Trade => seen[r].parent = target[Parent[t]]

(* What a request has left behind is about what it was asked for.          *)
NotesInv ==
    \A r \in Request :
        /\ note[r] # None =>
             /\ pc[r] \in {"item", "audit", "done", "dead"}
             /\ op[r].kind = "note" /\ note[r] = op[r].target
        /\ pc[r] = "item" /\ op[r].kind = "note" => note[r] # None
        /\ decision[r] # None => op[r].kind = "action" /\ decision[r].target = op[r].target
        /\ pc[r] \in Undecided \cup {"target", "item", "audit"} => audit[r] = None

WrittenInv ==
    \A r \in Request : pc[r] \in {"audit", "admit", "summary"} /\ op[r].kind = "action" =>
        LET t == op[r].target IN
        /\ Lists(t) => r \in target[t].decisions
        /\ decision[r] # None
        /\ \E i \in Items(t) : r \in item[t][i].decisions
        /\ pc[r] # "summary" => target[t] = Reviewed(r)
        /\ pc[r] # "audit" => audit[r] # None
        /\ pc[r] = "summary" /\ t \in Trade /\ op[r].outcome = "approve" => position[t] # None

OutcomeInv ==
    /\ SummariesTellTheTruth
    /\ \A r \in Request :
         /\ summary[r] # None => pc[r] = "done"
         /\ pc[r] = "raise" /\ op[r].kind = "action" =>
              \/ decision[r] = None
              \/ op[r].target \in Trade /\ position[op[r].target] \notin {r, None}

(* A trade file that was admitted is one that has a position.              *)
LedgerInv ==
    \A t \in Trade :
        /\ position[t] # None <=> target[t].admitted
        /\ position[t] # None => pc[position[t]] \in {"summary", "done", "dead"}

(* An active assignment of a request that lives is the one its item names, *)
(* or will name next.                                                      *)
Assigning(r, t) == op[r].kind = "assign" /\ op[r].target = t
AssignInv ==
    \A a \in Request : pc[a] # "dead" /\ assignment[a] # None /\ assignment[a].active =>
        LET t == assignment[a].target IN
        /\ \/ \E i \in Items(t) : item[t][i].assignment = a
           \/ pc[a] = "item" /\ Assigning(a, t)
        /\ \A r \in Request \ {a} : ~ (pc[r] \in {"assign", "item"} /\ Assigning(r, t))

SyncInv ==
    /\ \A r \in Request : pc[r] = "refresh" =>
         /\ todo[r] \subseteq SyncWrites(r)
         /\ \A t \in Target : (\A w \in todo[r] : w[1] # t) =>
              /\ Reviewable(t) => Items(t) # {}
              /\ \A i \in Items(t) : Tells(t, item[t][i], target[t])
    /\ (\E r \in Request : pc[r] \notin Unsynced) =>
         \A t \in Target : Reviewable(t) => Items(t) # {}

-----------------------------------------------------------------------------
(* Facts about the operators.                                              *)

LEMMA AwaitsReview == \A t : Reviewable(t) <=> Awaits(t, target[t].status)
BY DEF Reviewable, Awaits

(* A load finds the item of a target that has one.                         *)
LEMMA TheOnlyItem ==
    ASSUME NEW t \in Target, \A i, j \in Items(t) : j = i
    PROVE  /\ \A i \in Items(t) : CurrentItem(t) = item[t][i]
           /\ CurrentItem(t) # None <=> Items(t) # {}
<1>1. CASE Items(t) = {}
  BY <1>1 DEF CurrentItem
<1>2. ASSUME NEW i \in Items(t)
      PROVE  CurrentItem(t) = item[t][i] /\ item[t][i] # None
  <2>1. i \in Nat /\ item[t][i] # None
    BY ReviewAssumption DEF Items
  <2>2. Items(t) = {i}
    OBVIOUS
  <2>3. \A j \in Items(t) : j <= i
    BY <2>1, <2>2
  <2>4. (CHOOSE k \in Items(t) : \A j \in Items(t) : j <= k) = i
    BY <2>2, <2>3
  <2>5. QED
    BY <2>1, <2>2, <2>4 DEF CurrentItem
<1>3. QED
  BY <1>1, <1>2

(* An item that a request writes agrees with the files it leaves.          *)
LEMMA UpdatedTells ==
    ASSUME IInv, HeldInv, NEW r \in Request, pc[r] = "item"
    PROVE  Tells(op[r].target, UpdatedItem(r), target[op[r].target])
<1> DEFINE t == op[r].target
           i == seen[r].item
           f == seen[r].target
<1>1. /\ RequestInv(r) /\ op[r] \in Operation /\ op[r].kind # "sync"
      /\ i \in ReviewQueueItem /\ GoodFile(t, f, decision)
  BY DEF IInv, RequestsInv, RequestInv, Loaded, GoodItem
<1>2. /\ Tells(t, i, f)
      /\ target[t] = IF op[r].kind = "action" THEN Reviewed(r) ELSE f
  BY DEF HeldInv, Holding
<1>3. t \in Target /\ op[r].outcome \in ReviewOutcome
      /\ op[r].kind \in {"sync", "note", "assign", "action"}
  BY <1>1, OperationTyped
<1>4. CASE op[r].kind = "note"
  BY <1>1, <1>2, <1>4 DEF UpdatedItem, Tells, ReviewQueueItem
<1>5. CASE op[r].kind = "assign"
  BY <1>1, <1>2, <1>5 DEF UpdatedItem, Tells, ReviewQueueItem
<1>6. CASE op[r].kind = "action"
  <2>1. /\ UpdatedItem(r).shown = Reviewed(r).status
        /\ UpdatedItem(r).status = QueueStatusAfter(op[r].outcome)
    BY <1>1, <1>6 DEF UpdatedItem, ReviewQueueItem
  <2>2. Reviewed(r).status = StatusAfter(t, op[r].outcome, f.status)
    BY <1>1 DEF Reviewed, GoodFile, TargetFile
  <2>3. t \in Brief \/ t \in Signal \/ t \in Proposal \/ t \in Trade
    BY <1>3 DEF Target
  <2>4. /\ op[r].outcome \in {"approve", "reject"} =>
             ~ Awaits(t, StatusAfter(t, op[r].outcome, f.status))
        /\ op[r].outcome = "needs_revision" =>
             Awaits(t, StatusAfter(t, op[r].outcome, f.status))
    BY <2>3, TypesAreDisjoint DEF StatusAfter, Approved, Awaits
  <2>5. QED
    BY <1>2, <1>3, <1>6, <2>1, <2>2, <2>4 DEF Tells, QueueStatusAfter, ReviewOutcome
<1>7. QED
  BY <1>1, <1>3, <1>4, <1>5, <1>6

-----------------------------------------------------------------------------
(* One request at a time.                                                  *)

(* The requests but r are not being served, and keep what is theirs.       *)
Alone(r) ==
    /\ pc[r] \notin {"idle", "done", "dead"} /\ pc'[r] \notin {"idle", "dead"}
    /\ \A q \in Request \ {r} :
         /\ pc[q] \in {"idle", "done", "dead"} /\ pc'[q] = pc[q] /\ note'[q] = note[q]
         /\ decision'[q] = decision[q] /\ audit'[q] = audit[q] /\ summary'[q] = summary[q]
         /\ todo'[q] = todo[q]
    /\ op' = op

LEMMA ServedAlone ==
    ASSUME IInv, OneOpen, NEW r \in Request, Serve(r)
    PROVE  Alone(r) /\ OneOpen'
<1>1. pc[r] \notin {"idle", "done", "dead"}
  BY DEF Serve, LoadForSync, WriteSyncedItem, SyncDone, Load, WriteNote, DeactivateAssignment,
         WriteAssignment, WriteDecision, WriteTarget, WriteItem, WriteAudit, AdmitTrade,
         WriteSummary, Raise
<1>2. op' = op /\ TypeOK
  BY DEF IInv, Serve, LoadForSync, WriteSyncedItem, SyncDone, Load, WriteNote, DeactivateAssignment,
         WriteAssignment, WriteDecision, WriteTarget, WriteItem, WriteAudit, AdmitTrade,
         WriteSummary, Raise
<1>3. \E where \in Control \ {"idle", "dead"} : pc' = [pc EXCEPT ![r] = where]
  <2>1. CASE WriteSyncedItem(r)
    BY <1>1, <1>2, <2>1 DEF WriteSyncedItem, TypeOK
  <2>2. CASE Load(r)
    <3>1. PICK where : Goto(r, where) /\ where \in {"raise", "note", "decision", "unassign", "assign"}
      BY <2>2 DEF Load
    <3>2. QED
      BY <3>1 DEF Goto, Control
  <2>3. CASE WriteAudit(r)
    BY <2>3 DEF WriteAudit, Goto, Control
  <2>4. CASE AdmitTrade(r)
    BY <2>4 DEF AdmitTrade, Goto, Control
  <2>5. CASE ~ WriteSyncedItem(r) /\ ~ Load(r) /\ ~ WriteAudit(r) /\ ~ AdmitTrade(r)
    BY <2>5 DEF Serve, LoadForSync, SyncDone, WriteNote, DeactivateAssignment,
         WriteAssignment, WriteDecision, WriteTarget, WriteItem,
         WriteSummary, Raise, Goto, Control
  <2>6. QED
    BY <2>1, <2>2, <2>3, <2>4, <2>5
<1>4. \A q \in Request \ {r} : pc'[q] = pc[q]
  BY <1>2, <1>3 DEF TypeOK
<1>5. \A q \in Request \ {r} : pc[q] \in {"idle", "done", "dead"}
  BY <1>1 DEF OneOpen, Open
<1>6. \A q \in Request \ {r} :
         /\ note'[q] = note[q] /\ decision'[q] = decision[q] /\ audit'[q] = audit[q]
         /\ summary'[q] = summary[q]
  BY <1>2 DEF TypeOK, Serve, LoadForSync, WriteSyncedItem, SyncDone, Load, WriteNote,
         DeactivateAssignment, WriteAssignment, WriteDecision, WriteTarget, WriteItem, WriteAudit,
         AdmitTrade, WriteSummary, Raise, files
<1>7. \A q \in Request \ {r} : todo'[q] = todo[q]
  BY <1>2 DEF TypeOK, Serve, LoadForSync, WriteSyncedItem, SyncDone, Load, WriteNote,
         DeactivateAssignment, WriteAssignment, WriteDecision, WriteTarget, WriteItem, WriteAudit,
         AdmitTrade, WriteSummary, Raise, files
<1>8. pc'[r] \notin {"idle", "dead"}
  BY <1>2, <1>3 DEF TypeOK
<1>9. OneOpen'
  BY <1>4, <1>5, <1>8 DEF OneOpen, Open
<1>10. QED
  BY <1>1, <1>2, <1>4, <1>5, <1>6, <1>7, <1>8, <1>9 DEF Alone


-----------------------------------------------------------------------------
(* The steps, one part of the invariant after the other.                   *)

SeqInv ==
    /\ OneOpen /\ QueueInv /\ HeldInv /\ NotesInv /\ WrittenInv
    /\ OutcomeInv /\ LedgerInv /\ AssignInv /\ SyncInv

(* The item a request holds is the item of its target.                     *)
LEMMA HeldItem ==
    ASSUME IInv, SeqInv, NEW r \in Request, pc[r] \in Holding
    PROVE  /\ op[r] \in Operation /\ op[r].target \in Target /\ op[r].kind # "sync"
           /\ op[r].kind \in {"note", "assign", "action"}
           /\ seen[r].item \in ReviewQueueItem
           /\ seen[r].item.id \in Items(op[r].target)
           /\ \A i \in Items(op[r].target) : i = seen[r].item.id
<1>1. RequestInv(r) /\ pc[r] \in Loaded /\ pc[r] # "idle"
  BY DEF IInv, RequestsInv, Holding, Loaded
<1>2. /\ op[r] \in Operation /\ op[r].kind # "sync" /\ GoodItem(seen[r].item, assignment)
  BY <1>1 DEF RequestInv
<1>3. op[r].target \in Target /\ op[r].kind \in {"note", "assign", "action"}
  BY <1>2, OperationTyped
<1>4. seen[r].item \in ReviewQueueItem /\ seen[r].item # None /\ seen[r].item.id \in Request
  BY <1>2, NoneAssumption DEF GoodItem, ReviewQueueItem
<1>5. item[op[r].target][seen[r].item.id] = seen[r].item
  BY DEF SeqInv, HeldInv
<1>6. QED
  BY <1>2, <1>3, <1>4, <1>5 DEF Items, SeqInv, QueueInv, QueueOf

(* An item that a sync writes for y: all that y records.                   *)
Follows(x, y) ==
    /\ x.decisions = y.decisions /\ x.notes = y.notes /\ x.assignment = y.assignment
    /\ (y.status = "escalated" <=> y.escalation = "requested") =>
         (x.status = "escalated" <=> x.escalation = "requested")
    /\ x.escalation = "none" <=> y.escalation = "none"

(* What is written while a sync goes on: an item for a target without one, *)
(* or the item of the target, brought up to date.                          *)
LEMMA SyncedItem ==
    ASSUME IInv, SeqInv, NEW r \in Request, pc[r] = "refresh", NEW w \in todo[r]
    PROVE  \E t \in Target :
             /\ w[1] = t /\ w[2].id \in Request /\ w[2] \in ReviewQueueItem
             /\ Tells(t, w[2], target[t])
             /\ \/ Items(t) = {} /\ Reviewable(t) /\ w[2] = NewItem(r, t)
                \/ /\ w[2].id \in Items(t) /\ \A i \in Items(t) : i = w[2].id
                   /\ Follows(w[2], item[t][w[2].id])
<1>1. w \in SyncWrites(r) /\ w[2] \in ReviewQueueItem
  BY SyncWritesGood DEF SeqInv, SyncInv, IInv, GoodItem
<1>2. PICK t \in Target :
         \/ Reviewable(t) /\ CurrentItem(t) = None /\ w = <<t, NewItem(r, t)>>
         \/ Reviewable(t) /\ CurrentItem(t) # None /\ w = <<t, RefreshedItem(t)>>
         \/ ~ Reviewable(t) /\ CurrentItem(t) # None /\ w = <<t, ResolvedItem(t)>>
  BY <1>1 DEF SyncWrites
<1>3. /\ \A i \in Items(t) : CurrentItem(t) = item[t][i] /\ item[t][i].id = i
      /\ CurrentItem(t) # None <=> Items(t) # {}
      /\ \A i, j \in Items(t) : j = i
  BY TheOnlyItem DEF SeqInv, QueueInv, QueueOf
<1>4. CASE CurrentItem(t) = None
  <2>1. w = <<t, NewItem(r, t)>> /\ Reviewable(t) /\ Items(t) = {}
    BY <1>2, <1>3, <1>4
  <2>2. w[1] = t /\ w[2].id = r /\ Tells(t, w[2], target[t])
    BY <2>1, AwaitsReview DEF NewItem, Tells
  <2>3. QED
    BY <1>1, <2>1, <2>2
<1>5. CASE CurrentItem(t) # None
  <2>1. PICK i \in Items(t) : CurrentItem(t) = item[t][i]
    BY <1>3, <1>5
  <2>2. PICK y : y = item[t][i]
    OBVIOUS
  <2>3. y.id = i /\ i \in Request /\ y \in ReviewQueueItem
    BY <1>3, <2>1, <2>2 DEF Items, IInv, TypeOK
  <2>4. PICK file : file = target[t].status
    OBVIOUS
  <2>5. CASE Reviewable(t)
    <3>1. w = <<t, RefreshedItem(t)>>
      BY <1>2, <1>5, <2>5
    <3>2. RefreshedItem(t) = [y EXCEPT !.status = SyncStatus(@), !.shown = file]
      BY <2>1, <2>2, <2>4 DEF RefreshedItem
    <3>3. w[1] = t /\ w[2] = [y EXCEPT !.status = SyncStatus(@), !.shown = file]
      BY <3>1, <3>2
    <3>4. w[2].id = i /\ w[2].shown = file /\ w[2].status = SyncStatus(y.status)
          /\ w[2].escalation = y.escalation
          /\ w[2].decisions = y.decisions /\ w[2].notes = y.notes /\ w[2].assignment = y.assignment
      BY <2>3, <3>3 DEF ReviewQueueItem
    <3>5. Follows(w[2], y)
      BY <3>4 DEF Follows, SyncStatus
    <3>6. Tells(t, w[2], target[t])
      BY <2>4, <2>5, <3>4, AwaitsReview DEF Tells, SyncStatus
    <3>7. QED
      BY <1>1, <1>3, <2>1, <2>2, <2>3, <3>3, <3>4, <3>5, <3>6
  <2>6. CASE ~ Reviewable(t)
    <3> DEFINE x == [y EXCEPT !.status = "resolved", !.shown = file,
                              !.escalation = IF @ = "none" THEN "none" ELSE "resolved"]
    <3>1. w = <<t, ResolvedItem(t)>>
      BY <1>2, <1>5, <2>6
    <3>2. ResolvedItem(t) = x
      BY <2>1, <2>2, <2>4 DEF ResolvedItem
    <3>3. w[1] = t /\ w[2] = x
      BY <3>1, <3>2
    <3>4. w[2].id = i /\ w[2].shown = file /\ w[2].status = "resolved"
          /\ w[2].escalation = (IF y.escalation = "none" THEN "none" ELSE "resolved")
          /\ w[2].decisions = y.decisions /\ w[2].notes = y.notes /\ w[2].assignment = y.assignment
      BY <2>3, <3>3 DEF ReviewQueueItem
    <3>5. Follows(w[2], y)
      BY <3>4 DEF Follows
    <3>6. Tells(t, w[2], target[t])
      BY <2>4, <2>6, <3>4, AwaitsReview DEF Tells
    <3>7. QED
      BY <1>1, <1>3, <2>1, <2>2, <2>3, <3>3, <3>4, <3>5, <3>6
  <2>7. QED
    BY <2>5, <2>6
<1>6. QED
  BY <1>4, <1>5

(* What a load that does not raise has seen.                               *)
LEMMA LoadedFacts ==
    ASSUME IInv, NEW r \in Request, Load(r), pc'[r] # "raise"
    PROVE  LET t == op[r].target IN
           /\ op[r] \in Operation /\ t \in Target /\ op[r].kind \in {"note", "assign", "action"}
           /\ pc[r] = "refresh" /\ todo[r] = {} /\ UNCHANGED <<files, op, todo>>
           /\ CurrentItem(t) # None
           /\ seen'[r].target = target[t] /\ seen'[r].item = CurrentItem(t)
           /\ t \in Trade => seen'[r].parent = target[Parent[t]]
           /\ op[r].kind = "note" => pc'[r] = "note"
           /\ op[r].kind = "action" => pc'[r] = "decision"
           /\ op[r].kind = "assign" =>
                \/ /\ pc'[r] = "unassign" /\ CurrentItem(t).assignment # None
                   /\ assignment[CurrentItem(t).assignment].active
                \/ /\ pc'[r] = "assign"
                   /\ ~ (/\ CurrentItem(t).assignment # None
                         /\ assignment[CurrentItem(t).assignment].active)
<1> DEFINE t == op[r].target
           current == CurrentItem(t)
           parent == IF t \in Trade THEN target[Parent[t]] ELSE None
           assigned == current.assignment # None /\ assignment[current.assignment].active
           snapshot == [target |-> target[t], parent |-> parent, item |-> current,
                        assigned |-> assigned]
<1>1. TypeOK /\ RequestInv(r)
  BY DEF IInv, RequestsInv
<1>2. /\ pc[r] = "refresh" /\ todo[r] = {} /\ UNCHANGED <<files, op, todo>>
      /\ op[r].kind # "sync"
  BY DEF Load
<1>3. op[r] \in Operation /\ t \in Target /\ op[r].kind \in {"note", "assign", "action"}
  BY <1>1, <1>2, OperationTyped DEF RequestInv
<1>4. /\ current # None /\ seen' = [seen EXCEPT ![r] = snapshot]
      /\ pc' = [pc EXCEPT ![r] = CASE op[r].kind = "note" -> "note"
                                   [] op[r].kind = "action" -> "decision"
                                   [] OTHER -> IF assigned THEN "unassign" ELSE "assign"]
  BY <1>1 DEF Load, Goto, TypeOK
<1>5. seen'[r] = snapshot
  BY <1>1, <1>4 DEF TypeOK
<1>6. seen'[r].target = target[t] /\ seen'[r].item = current /\ seen'[r].parent = parent
  BY <1>5
<1>7. CASE op[r].kind = "note"
  BY <1>1, <1>2, <1>3, <1>4, <1>6, <1>7 DEF TypeOK
<1>8. CASE op[r].kind = "action"
  BY <1>1, <1>2, <1>3, <1>4, <1>6, <1>8 DEF TypeOK
<1>9. CASE op[r].kind = "assign" /\ assigned
  <2>1. pc' = [pc EXCEPT ![r] = "unassign"]
    BY <1>4, <1>9
  <2>2. pc'[r] = "unassign"
    BY <1>1, <2>1 DEF TypeOK
  <2>3. QED
    BY <1>2, <1>3, <1>4, <1>6, <1>9, <2>2
<1>10. CASE op[r].kind = "assign" /\ ~ assigned
  <2>1. pc' = [pc EXCEPT ![r] = "assign"]
    BY <1>4, <1>10
  <2>2. pc'[r] = "assign"
    BY <1>1, <2>1 DEF TypeOK
  <2>3. QED
    BY <1>2, <1>3, <1>4, <1>6, <1>10, <2>2
<1>11. QED
  BY <1>3, <1>7, <1>8, <1>9, <1>10

(* A trade is admitted from a file that has no position yet.               *)
LEMMA AdmitFacts ==
    ASSUME IInv, SeqInv, NEW r \in Request, AdmitTrade(r)
    PROVE  LET t == op[r].target IN
           /\ pc[r] = "admit" /\ UNCHANGED <<item, decision, note, assignment, audit, summary, op>>
           /\ t \in Trade /\ t \in Target /\ op[r].kind = "action" /\ op[r].outcome = "approve"
           /\ target[t] \in TargetFile /\ target[t] = Reviewed(r)
           /\ IF position[t] = None
                THEN /\ target' = [target EXCEPT ![t] = [target[t] EXCEPT !.admitted = TRUE]]
                     /\ position' = [position EXCEPT ![t] = r] /\ pc'[r] = "summary"
                ELSE UNCHANGED <<target, position>> /\ pc'[r] = "raise"
<1> DEFINE t == op[r].target
<1>1. pc[r] = "admit" /\ UNCHANGED <<item, decision, note, assignment, audit, summary, op>>
  BY DEF AdmitTrade
<1>2. t \in Trade /\ op[r].kind = "action" /\ op[r].outcome = "approve" /\ RequestInv(r)
  BY <1>1 DEF IInv, RequestsInv, RequestInv
<1>3. t \in Target /\ target[t] \in TargetFile /\ TypeOK
  BY <1>2 DEF Target, IInv, TypeOK
<1>4. target[t] = Reviewed(r)
  BY <1>1, <1>2 DEF SeqInv, WrittenInv
<1>5. seen[r].target \in TargetFile
  BY <1>1, <1>2 DEF RequestInv, Loaded, GoodFile
<1>6. Reviewed(r).admitted = seen[r].target.admitted
  BY <1>5 DEF Reviewed, TargetFile
<1>7. position[t] # None <=> seen[r].target.admitted
  BY <1>2, <1>4, <1>6 DEF SeqInv, LedgerInv
<1>8. CASE position[t] = None
  BY <1>1, <1>2, <1>3, <1>4, <1>7, <1>8 DEF AdmitTrade, Admissible, Goto, TypeOK
<1>9. CASE position[t] # None
  BY <1>1, <1>2, <1>3, <1>4, <1>7, <1>9 DEF AdmitTrade, Admissible, Goto, TypeOK
<1>10. QED
  BY <1>8, <1>9

(* A step that writes no item of u, and changes of its file nothing that   *)
(* the item shows unless the item is about to be written.                  *)
LEMMA QueueKept ==
    ASSUME NEW u \in Target, QueueOf(u),
           item'[u] = item[u], target[u].decisions \subseteq target'[u].decisions,
           Decided(u) \subseteq Decided(u)', \A q \in Decided(u) : decision'[q] = decision[q],
           NotesAbout(u) \subseteq NotesAbout(u)',
           \A q \in Decided(u)' : pc'[q] \in Settled => q \in Decided(u) /\ pc[q] \in Settled,
           \A q \in NotesAbout(u)' : pc'[q] \in Settled => q \in NotesAbout(u) /\ pc[q] \in Settled,
           Items(u) = {} => Decided(u)' = {} /\ NotesAbout(u)' = {},
           ~ Busy(u)' /\ (Synced' \/ ~ Interrupted(u)') =>
               /\ target'[u].status = target[u].status
               /\ \A i \in Items(u) : Tells(u, item[u][i], target[u])
    PROVE  QueueOf(u)'
<1>1. Items(u)' = Items(u)
  BY DEF Items
<1>2. ASSUME NEW i \in Items(u)
      PROVE  Records(u, item[u][i])'
  <2>1. PICK x : x = item[u][i]
    OBVIOUS
  <2>2. Records(u, x)
    BY <2>1 DEF QueueOf
  <2>3. \A q \in x.decisions : decision'[q] = decision[q]
    BY <2>2 DEF Records
  <2>4. /\ \A q \in Decided(u)' : pc'[q] \in Settled => q \in x.decisions
        /\ \A q \in NotesAbout(u)' : pc'[q] \in Settled => q \in x.notes
        /\ x.decisions \subseteq Decided(u)' /\ x.notes \subseteq NotesAbout(u)'
        /\ Lists(u) => x.decisions \subseteq target'[u].decisions
    BY <2>2 DEF Records
  <2>5. /\ x.status = "escalated" <=> x.escalation = "requested"
        /\ x.escalation = "none" <=> \A q \in x.decisions : decision'[q].outcome # "escalate"
    BY <2>2, <2>3 DEF Records
  <2>6. Records(u, x)'
    BY <2>4, <2>5 DEF Records
  <2>7. item'[u][i] = x
    BY <2>1
  <2>8. QED
    BY <2>1, <2>6
<1>3. ASSUME ~ Busy(u)', Synced' \/ ~ Interrupted(u)', NEW i \in Items(u)
      PROVE  Tells(u, item[u][i], target[u])'
  BY <1>3 DEF Tells
<1>4. QED
  BY <1>1, <1>2, <1>3 DEF QueueOf

(* A step that writes an item x for u, its only one.                       *)
LEMMA QueueWritten ==
    ASSUME NEW u \in Target, NEW x \in ReviewQueueItem, NEW j \in Request,
           x.id = j, \A i \in Items(u) : i = j,
           item'[u][j] = x, \A i \in Request \ {j} : item'[u][i] = item[u][i],
           Records(u, x)', ~ Busy(u)' => Tells(u, x, target'[u])
    PROVE  QueueOf(u)'
<1>1. Items(u)' = {j}
  BY NoneAssumption DEF Items
<1>2. PICK y : y = x
  OBVIOUS
<1>3. item'[u][j] = y /\ y.id = j /\ Records(u, y)'
  BY <1>2
<1>4. ~ Busy(u)' => Tells(u, y, target[u])'
  BY <1>2 DEF Tells
<1>5. QED
  BY <1>1, <1>3, <1>4 DEF QueueOf

(* Where the one request that is served stands.                            *)
LEMMA AloneFacts ==
    ASSUME IInv, NEW r \in Request, Alone(r)
    PROVE  /\ \A u \in Target : /\ Busy(u) <=> pc[r] = "item" /\ op[r].target = u
                                /\ Busy(u)' <=> pc'[r] = "item" /\ op[r].target = u
                                /\ Interrupted(u)' <=> Interrupted(u)
                                /\ Decided(u)' \ {r} = Decided(u) \ {r}
                                /\ NotesAbout(u)' \ {r} = NotesAbout(u) \ {r}
           /\ Synced <=> pc[r] \notin Unsynced \cup {"done"}
           /\ Synced' <=> pc'[r] \notin Unsynced \cup {"done"}
<1>1. /\ op' = op /\ pc[r] # "dead" /\ pc'[r] # "dead"
      /\ \A q \in Request \ {r} : /\ pc[q] \in {"idle", "done", "dead"} /\ pc'[q] = pc[q]
                                  /\ decision'[q] = decision[q] /\ note'[q] = note[q]
                                  /\ audit'[q] = audit[q]
  BY DEF Alone
<1>2. \A u \in Target : /\ Decided(u)' \ {r} = Decided(u) \ {r}
                        /\ NotesAbout(u)' \ {r} = NotesAbout(u) \ {r}
  BY <1>1 DEF Decided, NotesAbout
<1>3. \A u \in Target : Interrupted(u)' <=> Interrupted(u)
  <2>1. \A u \in Target : Decided(u) \subseteq Request /\ Decided(u)' \subseteq Request
    BY DEF Decided
  <2>2. QED
    BY <1>1, <1>2, <2>1 DEF Interrupted
<1>4. /\ Synced <=> pc[r] \notin Unsynced \cup {"done"}
      /\ Synced' <=> pc'[r] \notin Unsynced \cup {"done"}
  BY <1>1 DEF Synced, Unsynced
<1>5. \A u \in Target : /\ Busy(u) <=> pc[r] = "item" /\ op[r].target = u
                        /\ Busy(u)' <=> pc'[r] = "item" /\ op[r].target = u
  BY <1>1 DEF Busy
<1>6. QED
  BY <1>2, <1>3, <1>4, <1>5

LEMMA QueueStep ==
    ASSUME IInv, SeqInv, NEW r \in Request, Serve(r), Alone(r)
    PROVE  QueueInv'
<1> DEFINE t == op[r].target
<1>1. TypeOK /\ op' = op /\ \A u \in Target : QueueOf(u)
  BY DEF IInv, Alone, SeqInv, QueueInv
<1>2. \A q \in Request \ {r} : pc'[q] = pc[q] /\ decision'[q] = decision[q] /\ note'[q] = note[q]
  BY DEF Alone
(* What has to be shown of a step that writes no item.                     *)
<1>3. ASSUME item' = item,
             \A u \in Target : target[u].decisions \subseteq target'[u].decisions,
             \A u \in Target : ~ Busy(u)' => target'[u].status = target[u].status,
             decision[r] # None => decision'[r] = decision[r],
             note[r] # None => note'[r] = note[r],
             pc'[r] \in Settled =>
                 \/ pc[r] \in Settled /\ decision'[r] = decision[r] /\ note'[r] = note[r]
                 \/ decision'[r] = None /\ note'[r] = None,
             \A u \in Target : Items(u) = {} => r \notin Decided(u)' /\ r \notin NotesAbout(u)',
             \A u \in Target : ~ Busy(u)' /\ (Synced' \/ ~ Interrupted(u)) =>
                 \A i \in Items(u) : Tells(u, item[u][i], target[u])
      PROVE  QueueInv'
  <2> SUFFICES ASSUME NEW u \in Target PROVE QueueOf(u)'
    BY DEF QueueInv
  <2>1. /\ Decided(u)' \ {r} = Decided(u) \ {r} /\ NotesAbout(u)' \ {r} = NotesAbout(u) \ {r}
        /\ Interrupted(u)' <=> Interrupted(u)
    BY AloneFacts
  <2>2. /\ r \in Decided(u) => r \in Decided(u)' /\ decision'[r] = decision[r]
        /\ r \in NotesAbout(u) => r \in NotesAbout(u)'
    BY <1>3, NoneAssumption DEF Decided, NotesAbout
  <2>3. /\ r \in Decided(u)' /\ pc'[r] \in Settled => r \in Decided(u) /\ pc[r] \in Settled
        /\ r \in NotesAbout(u)' /\ pc'[r] \in Settled => r \in NotesAbout(u) /\ pc[r] \in Settled
    BY <1>3, NoneAssumption DEF Decided, NotesAbout
  <2>4. Items(u) = {} => Decided(u)' = {} /\ NotesAbout(u)' = {}
    BY <1>1, <1>3, <2>1 DEF QueueOf
  <2>5. Decided(u) \subseteq Decided(u)' /\ \A q \in Decided(u) : decision'[q] = decision[q]
    BY <1>2, <2>1, <2>2 DEF Decided
  <2>6. NotesAbout(u) \subseteq NotesAbout(u)'
    BY <2>1, <2>2
  <2>7. /\ \A q \in Decided(u)' : pc'[q] \in Settled => q \in Decided(u) /\ pc[q] \in Settled
        /\ \A q \in NotesAbout(u)' : pc'[q] \in Settled => q \in NotesAbout(u) /\ pc[q] \in Settled
    <3>1. \A q \in Decided(u)' \cup NotesAbout(u)' : q \in Request
      BY DEF Decided, NotesAbout
    <3>2. QED
      BY <1>2, <2>1, <2>3, <3>1
  <2>8. ~ Busy(u)' /\ (Synced' \/ ~ Interrupted(u)') =>
            /\ target'[u].status = target[u].status
            /\ \A i \in Items(u) : Tells(u, item[u][i], target[u])
    BY <1>3, <2>1
  <2>9. item'[u] = item[u] /\ target[u].decisions \subseteq target'[u].decisions
    BY <1>3
  <2>10. QED
    BY <1>1, <2>4, <2>5, <2>6, <2>7, <2>8, <2>9, QueueKept
<1>4. ASSUME pc[r] \in Undecided \/ pc[r] \in {"target", "item"}
      PROVE  pc[r] \in {"item"} \/ note[r] = None
  BY <1>4 DEF SeqInv, NotesInv, Undecided
<1>5. pc[r] \in Undecided => decision[r] = None
  BY DEF IInv, RequestsInv, RequestInv
<1>6. \A u \in Target : ~ (pc[r] = "item" /\ t = u) /\ (Synced \/ ~ Interrupted(u)) =>
          \A i \in Items(u) : Tells(u, item[u][i], target[u])
  BY <1>1, AloneFacts DEF QueueOf
<1>7. \A u \in Target : Items(u) = {} => r \notin Decided(u) /\ r \notin NotesAbout(u)
  BY <1>1 DEF QueueOf
<1>8. CASE LoadForSync(r) \/ SyncDone(r) \/ Load(r)
  <2>1. /\ pc[r] \in {"sync", "refresh"} /\ UNCHANGED <<item, target, decision, note>>
        /\ pc'[r] # "item"
    <3>1. CASE Load(r)
      BY <3>1, LoadedFacts DEF Load, files
    <3>2. CASE LoadForSync(r) \/ SyncDone(r)
      BY <1>1, <3>2 DEF LoadForSync, SyncDone, files, Goto, TypeOK
    <3>3. QED
      BY <1>8, <3>1, <3>2
  <2>2. decision[r] = None /\ note[r] = None
    BY <1>4, <1>5, <2>1 DEF Undecided
  <2>3. \A u \in Target : Decided(u)' = Decided(u) /\ NotesAbout(u)' = NotesAbout(u)
    BY <2>1 DEF Decided, NotesAbout
  <2>4. ASSUME NEW u \in Target, Synced' \/ ~ Interrupted(u)
        PROVE  \A i \in Items(u) : Tells(u, item[u][i], target[u])
    <3>1. CASE Load(r)
      <4>1. pc[r] = "refresh" /\ todo[r] = {}
        BY <3>1 DEF Load
      <4>2. QED
        BY <4>1 DEF SeqInv, SyncInv
    <3>2. CASE LoadForSync(r) \/ SyncDone(r)
      <4>1. pc'[r] \in {"refresh", "done"}
        BY <1>1, <3>2 DEF LoadForSync, SyncDone, Goto, TypeOK
      <4>2. ~ Synced'
        BY <4>1, AloneFacts DEF Unsynced
      <4>3. QED
        BY <1>6, <2>1, <2>4, <4>2
    <3>3. QED
      BY <1>8, <3>1, <3>2
  <2>5. QED
    BY <1>3, <1>7, <2>1, <2>2, <2>3, <2>4
<1>9. CASE DeactivateAssignment(r) \/ WriteAssignment(r)
  <2>1. /\ pc[r] \in {"unassign", "assign"} /\ UNCHANGED <<item, target, decision, note>>
        /\ pc'[r] \in {"assign", "item"}
    BY <1>1, <1>9 DEF DeactivateAssignment, WriteAssignment, Goto, TypeOK
  <2>2. \A u \in Target : Decided(u)' = Decided(u) /\ NotesAbout(u)' = NotesAbout(u)
    BY <2>1 DEF Decided, NotesAbout
  <2>3. Synced
    BY <2>1, AloneFacts DEF Unsynced
  <2>4. pc'[r] \notin Settled /\ pc[r] # "item"
    BY <2>1 DEF Settled
  <2>5. QED
    BY <1>3, <1>6, <1>7, <2>1, <2>2, <2>3, <2>4
<1>10. CASE WriteDecision(r)
  <2>1. /\ pc[r] = "decision" /\ pc[r] \in Holding /\ UNCHANGED <<item, target, note>>
        /\ pc'[r] = "target"
        /\ decision' = [decision EXCEPT ![r] = [target |-> t, outcome |-> op[r].outcome]]
    BY <1>1, <1>10 DEF WriteDecision, Goto, TypeOK, Holding
  <2>2. decision[r] = None /\ Synced
    BY <1>5, <2>1, AloneFacts DEF Undecided, Unsynced
  <2>3. t \in Target /\ Items(t) # {}
    BY <2>1, HeldItem
  <2>4. \A u \in Target : /\ u # t => r \notin Decided(u)'
                          /\ NotesAbout(u)' = NotesAbout(u)
    BY <1>1, <2>1 DEF Decided, NotesAbout, TypeOK
  <2>5. pc'[r] \notin Settled
    BY <2>1 DEF Settled
  <2>6. QED
    BY <1>3, <1>6, <1>7, <2>1, <2>2, <2>3, <2>4, <2>5
<1>11. CASE WriteNote(r)
  <2>1. /\ pc[r] = "note" /\ pc[r] \in Holding /\ UNCHANGED <<item, target, decision>>
        /\ pc'[r] = "item" /\ note' = [note EXCEPT ![r] = t]
    BY <1>1, <1>11 DEF WriteNote, Goto, TypeOK, Holding
  <2>2. note[r] = None /\ Synced
    BY <1>4, <2>1, AloneFacts DEF Undecided, Unsynced
  <2>3. t \in Target /\ Items(t) # {}
    BY <2>1, HeldItem
  <2>4. \A u \in Target : /\ u # t => r \notin NotesAbout(u)'
                          /\ Decided(u)' = Decided(u)
    BY <1>1, <2>1 DEF Decided, NotesAbout, TypeOK
  <2>5. pc'[r] \notin Settled
    BY <2>1 DEF Settled
  <2>6. QED
    BY <1>3, <1>6, <1>7, <2>1, <2>2, <2>3, <2>4, <2>5
<1>12. CASE WriteTarget(r)
  <2>1. /\ pc[r] = "target" /\ pc[r] \in Holding /\ UNCHANGED <<item, note, decision>>
        /\ pc'[r] = "item" /\ target' = [target EXCEPT ![t] = Reviewed(r)]
    BY <1>1, <1>12 DEF WriteTarget, Goto, TypeOK, Holding
  <2>2. /\ t \in Target /\ target[t] = seen[r].target /\ target[t] \in TargetFile
    BY <1>1, <2>1, HeldItem DEF SeqInv, HeldInv, TypeOK
  <2>3. target[t].decisions \subseteq Reviewed(r).decisions
    BY <2>2 DEF Reviewed, TargetFile
  <2>4. \A u \in Target : /\ target[u].decisions \subseteq target'[u].decisions
                          /\ u # t => target'[u] = target[u]
    BY <1>1, <2>1, <2>2, <2>3 DEF TypeOK
  <2>5. \A u \in Target : Decided(u)' = Decided(u) /\ NotesAbout(u)' = NotesAbout(u)
    BY <2>1 DEF Decided, NotesAbout
  <2>6. \A u \in Target : ~ Busy(u)' => u # t
    BY <2>1, AloneFacts
  <2>7. Synced /\ pc'[r] \notin Settled
    BY <2>1, AloneFacts DEF Unsynced, Settled
  <2>8. QED
    BY <1>3, <1>6, <1>7, <2>1, <2>4, <2>5, <2>6, <2>7
<1>13. CASE WriteAudit(r) \/ WriteSummary(r) \/ Raise(r) \/ AdmitTrade(r)
  <2>1. /\ pc[r] \in {"audit", "summary", "raise", "admit"} /\ UNCHANGED <<item, decision, note>>
        /\ pc'[r] # "item"
    BY <1>1, <1>13 DEF WriteAudit, WriteSummary, Raise, AdmitTrade, Goto, TypeOK
  <2>2. \A u \in Target : /\ target'[u].decisions = target[u].decisions
                          /\ target'[u].status = target[u].status
    <3>1. CASE AdmitTrade(r)
      <4>1. PICK u : u = t
        OBVIOUS
      <4>2. /\ u \in Target /\ target[u] \in TargetFile
            /\ \/ target' = [target EXCEPT ![u] = [target[u] EXCEPT !.admitted = TRUE]]
               \/ target' = target
        BY <3>1, <4>1, AdmitFacts
      <4>3. /\ [target[u] EXCEPT !.admitted = TRUE].status = target[u].status
            /\ [target[u] EXCEPT !.admitted = TRUE].decisions = target[u].decisions
        BY <4>2 DEF TargetFile
      <4>4. QED
        BY <1>1, <4>2, <4>3 DEF TypeOK
    <3>2. CASE ~ AdmitTrade(r)
      BY <1>13, <3>2 DEF WriteAudit, WriteSummary, Raise
    <3>3. QED
      BY <3>1, <3>2
  <2>3. \A u \in Target : Decided(u)' = Decided(u) /\ NotesAbout(u)' = NotesAbout(u)
    BY <2>1 DEF Decided, NotesAbout
  <2>4. Synced /\ pc[r] \in Settled
    BY <2>1, AloneFacts DEF Unsynced, Settled
  <2>5. QED
    BY <1>3, <1>6, <1>7, <2>1, <2>2, <2>3, <2>4
<1>14. CASE WriteSyncedItem(r)
  <2>1. PICK w \in todo[r] : item' = [item EXCEPT ![w[1]][w[2].id] = w[2]]
    BY <1>14 DEF WriteSyncedItem
  <2>2. pc[r] = "refresh" /\ UNCHANGED <<target, note, decision, pc>>
    BY <1>14 DEF WriteSyncedItem
  <2>3. PICK x, j : x = w[2] /\ j = w[2].id
    OBVIOUS
  <2>4. PICK u \in Target :
             /\ w[1] = u /\ j \in Request /\ x \in ReviewQueueItem /\ x.id = j
             /\ Tells(u, x, target[u])
             /\ \/ Items(u) = {} /\ Reviewable(u) /\ x = NewItem(r, u)
                \/ /\ j \in Items(u) /\ \A i \in Items(u) : i = j
                   /\ Follows(x, item[u][j])
    BY <2>2, <2>3, SyncedItem
  <2>5. /\ \A v \in Target \ {u} : item'[v] = item[v]
        /\ \A i \in Request \ {j} : item'[u][i] = item[u][i]
        /\ item'[u][j] = x
    BY <1>1, <2>1, <2>3, <2>4 DEF TypeOK
  <2>6. \A v \in Target : /\ Decided(v)' = Decided(v) /\ NotesAbout(v)' = NotesAbout(v)
                          /\ ~ Busy(v)' /\ ~ Busy(v) /\ (Interrupted(v)' <=> Interrupted(v))
    BY <2>2, AloneFacts DEF Decided, NotesAbout
  <2>7. ~ Synced' /\ ~ Synced
    BY <2>2, AloneFacts DEF Unsynced
  <2>8. Records(u, x)
    <3>1. CASE Items(u) = {} /\ x = NewItem(r, u)
      <4>1. Decided(u) = {} /\ NotesAbout(u) = {}
        BY <1>1, <3>1 DEF QueueOf
      <4>2. /\ x.decisions = {} /\ x.notes = {} /\ x.escalation = "none"
            /\ x.status = "pending_review"
        BY <3>1 DEF NewItem
      <4>3. QED
        BY <4>1, <4>2 DEF Records
    <3>2. CASE j \in Items(u) /\ Follows(x, item[u][j])
      <4>1. PICK y : y = item[u][j]
        OBVIOUS
      <4>2. Records(u, y) /\ Follows(x, y)
        BY <1>1, <3>2, <4>1 DEF QueueOf
      <4>3. QED
        BY <4>2, SMTT(20) DEF Records, Follows
    <3>3. QED
      BY <2>4, <3>1, <3>2
  <2>9. Records(u, x)'
    <3>1. PICK dec, n, p, tar : dec = Decided(u) /\ n = NotesAbout(u) /\ p = pc /\ tar = target
      OBVIOUS
    <3>2. Decided(u)' = Decided(u) /\ NotesAbout(u)' = NotesAbout(u) /\ pc' = pc /\ target' = target
          /\ decision' = decision
      BY <2>2, <2>6
    <3>3. QED
      BY <2>8, <3>2 DEF Records
  <2>10. QueueOf(u)'
    <3>1. Tells(u, x, target'[u])
      BY <2>2, <2>4
    <3>2. \A i \in Items(u) : i = j
      BY <2>4
    <3>3. QED
      BY <2>4, <2>5, <2>9, <3>1, <3>2, QueueWritten
  <2>11. ASSUME NEW v \in Target \ {u}
         PROVE  QueueOf(v)'
    <3>1. /\ v \in Target /\ item'[v] = item[v] /\ QueueOf(v) /\ target' = target
          /\ decision' = decision /\ pc' = pc
      BY <1>1, <2>2, <2>5
    <3>2. ~ Busy(v)' /\ (Synced' \/ ~ Interrupted(v)') =>
            \A i \in Items(v) : Tells(v, item[v][i], target[v])
      BY <2>6, <2>7, <3>1 DEF QueueOf
    <3>3. Items(v) = {} => Decided(v)' = {} /\ NotesAbout(v)' = {}
      BY <2>6, <3>1 DEF QueueOf
    <3>4. QED
      BY <2>6, <3>1, <3>2, <3>3, QueueKept
  <2>12. QED
    BY <2>10, <2>11 DEF QueueInv
<1>15. CASE WriteItem(r)
  <2>1. /\ pc[r] \in Holding /\ pc[r] = "item" /\ UNCHANGED <<target, note, decision>>
        /\ pc' = [pc EXCEPT ![r] = "audit"]
        /\ item' = [item EXCEPT ![t][seen[r].item.id] = UpdatedItem(r)]
    BY <1>15 DEF WriteItem, Holding, Goto
  <2>2. PICK u, j, x, y : u = t /\ j = seen[r].item.id /\ x = UpdatedItem(r) /\ y = seen[r].item
    OBVIOUS
  <2>3. /\ u \in Target /\ j \in Items(u) /\ j \in Request /\ \A i \in Items(u) : i = j
        /\ op[r] \in Operation /\ op[r].kind \in {"note", "assign", "action"}
        /\ y \in ReviewQueueItem /\ item[u][j] = y
    BY <2>1, <2>2, HeldItem DEF SeqInv, HeldInv, ReviewQueueItem
  <2>4. /\ \A v \in Target \ {u} : item'[v] = item[v]
        /\ \A i \in Request \ {j} : item'[u][i] = item[u][i]
        /\ item'[u][j] = x
    BY <1>1, <2>1, <2>2, <2>3 DEF TypeOK
  <2>5. x \in ReviewQueueItem
    BY <2>1, <2>2, <2>3, UpdatedItemGood DEF IInv, RequestsInv
  <2>6. x.id = j
    BY <2>2, <2>3 DEF UpdatedItem, ReviewQueueItem
  <2>7. Tells(u, x, target'[u])
    BY <2>1, <2>2, UpdatedTells DEF SeqInv
  <2>8. Records(u, y)
    BY <1>1, <2>3 DEF QueueOf
  <2>9. /\ pc'[r] = "audit" /\ Synced
        /\ \A v \in Target : Decided(v)' = Decided(v) /\ NotesAbout(v)' = NotesAbout(v)
    BY <1>1, <2>1, AloneFacts DEF Decided, NotesAbout, TypeOK, Unsynced
  <2>10. \A q \in Request \ {r} : pc'[q] = pc[q]
    BY <1>2
  <2>11. Records(u, x)'
    <3>1. CASE op[r].kind = "note"
      <4>1. x = [y EXCEPT !.notes = @ \cup {r}]
        BY <2>2, <3>1 DEF UpdatedItem
      <4>2. /\ x.status = y.status /\ x.decisions = y.decisions /\ x.escalation = y.escalation
            /\ x.notes = y.notes \cup {r}
        BY <2>3, <4>1 DEF ReviewQueueItem
      <4>3. r \in NotesAbout(u) /\ r \notin Decided(u)
        <5>1. note[r] # None
          BY <2>1, <3>1 DEF SeqInv, NotesInv
        <5>2. note[r] = op[r].target /\ decision[r] = None
          BY <3>1, <5>1 DEF SeqInv, NotesInv
        <5>3. QED
          BY <2>2, <5>2 DEF NotesAbout, Decided
      <4>4. \A q \in Decided(u) : pc'[q] \in Settled => q \in x.decisions
        BY <2>8, <2>10, <4>2, <4>3 DEF Records, Decided
      <4>5. \A q \in NotesAbout(u) : pc'[q] \in Settled => q \in x.notes
        BY <2>8, <2>10, <4>2 DEF Records, NotesAbout
      <4>6. /\ x.decisions \subseteq Decided(u) /\ x.notes \subseteq NotesAbout(u)
            /\ Lists(u) => x.decisions \subseteq target[u].decisions
            /\ x.status = "escalated" <=> x.escalation = "requested"
            /\ x.escalation = "none" <=> \A q \in x.decisions : decision[q].outcome # "escalate"
        BY <2>8, <4>2, <4>3 DEF Records
      <4>7. QED
        BY <2>1, <2>3, <2>9, <4>4, <4>5, <4>6 DEF Records
    <3>2. CASE op[r].kind = "assign"
      <4>1. x = [y EXCEPT !.assignment = r,
                          !.status = IF @ \in {"pending_review", "awaiting_revision"}
                                       THEN "in_review" ELSE @]
        BY <2>2, <3>2 DEF UpdatedItem
      <4>2. /\ x.decisions = y.decisions /\ x.escalation = y.escalation /\ x.notes = y.notes
            /\ x.status = "escalated" <=> y.status = "escalated"
        BY <2>3, <4>1 DEF ReviewQueueItem
      <4>3. r \notin NotesAbout(u) /\ r \notin Decided(u)
        BY <2>3, <3>2, NoneAssumption DEF SeqInv, NotesInv, NotesAbout, Decided
      <4>4. \A q \in Decided(u) : pc'[q] \in Settled => q \in x.decisions
        BY <2>8, <2>10, <4>2, <4>3 DEF Records, Decided
      <4>5. \A q \in NotesAbout(u) : pc'[q] \in Settled => q \in x.notes
        BY <2>8, <2>10, <4>2, <4>3 DEF Records, NotesAbout
      <4>6. /\ x.decisions \subseteq Decided(u) /\ x.notes \subseteq NotesAbout(u)
            /\ Lists(u) => x.decisions \subseteq target[u].decisions
            /\ x.status = "escalated" <=> x.escalation = "requested"
            /\ x.escalation = "none" <=> \A q \in x.decisions : decision[q].outcome # "escalate"
        BY <2>8, <4>2 DEF Records
      <4>7. QED
        BY <2>1, <2>3, <2>9, <4>4, <4>5, <4>6 DEF Records
    <3>3. CASE op[r].kind = "action"
      <4>1. x = [y EXCEPT !.shown = Reviewed(r).status,
                          !.status = QueueStatusAfter(op[r].outcome),
                          !.escalation = EscalationAfter(op[r].outcome, @),
                          !.decisions = @ \cup {r}]
        BY <2>2, <2>3, <3>3 DEF UpdatedItem
      <4>2. /\ x.decisions = y.decisions \cup {r} /\ x.notes = y.notes
            /\ x.escalation = EscalationAfter(op[r].outcome, y.escalation)
            /\ x.status = QueueStatusAfter(op[r].outcome)
        BY <2>3, <4>1 DEF ReviewQueueItem
      <4>3. decision[r] = [target |-> u, outcome |-> op[r].outcome]
        BY <2>1, <2>2, <3>3 DEF IInv, RequestsInv, RequestInv, Deciding
      <4>4. r \in Decided(u) /\ r \notin NotesAbout(u)
        <5>1. decision[r] \in ReviewDecision
          BY <2>3, <4>3, OperationTyped DEF ReviewDecision
        <5>2. QED
          BY <2>3, <3>3, <4>3, <5>1, NoneAssumption DEF SeqInv, NotesInv, NotesAbout, Decided
      <4>5. Lists(u) => r \in target[u].decisions
        <5>1. target[u] = Reviewed(r) /\ GoodFile(t, seen[r].target, decision)
          BY <2>1, <2>2, <3>3 DEF SeqInv, HeldInv, IInv, RequestsInv, RequestInv, Loaded
        <5>2. QED
          BY <2>2, <5>1 DEF Reviewed, GoodFile, TargetFile
      <4>6. \A q \in Decided(u) : pc'[q] \in Settled => q \in x.decisions
        BY <2>8, <2>10, <4>2 DEF Records, Decided
      <4>7. \A q \in NotesAbout(u) : pc'[q] \in Settled => q \in x.notes
        BY <2>8, <2>10, <4>2, <4>4 DEF Records, NotesAbout
      <4>8. /\ x.decisions \subseteq Decided(u) /\ x.notes \subseteq NotesAbout(u)
            /\ Lists(u) => x.decisions \subseteq target[u].decisions
        BY <2>8, <4>2, <4>4, <4>5 DEF Records
      <4>9. x.status = "escalated" <=> x.escalation = "requested"
        BY <2>3, <4>2, OperationTyped DEF QueueStatusAfter, EscalationAfter, ReviewOutcome,
                                          ReviewQueueItem, EscalationStatus
      <4>10. x.escalation = "none" <=> \A q \in x.decisions : decision[q].outcome # "escalate"
        <5>1. decision[r].outcome = op[r].outcome
          BY <4>3
        <5>2. y.escalation = "none" <=> \A q \in y.decisions : decision[q].outcome # "escalate"
          BY <2>8 DEF Records
        <5>3. x.escalation = "none" <=> op[r].outcome # "escalate" /\ y.escalation = "none"
          BY <4>2 DEF EscalationAfter
        <5>4. QED
          BY <4>2, <5>1, <5>2, <5>3
      <4>11. QED
        BY <2>1, <2>3, <2>9, <4>6, <4>7, <4>8, <4>9, <4>10 DEF Records
    <3>4. QED
      BY <2>3, <3>1, <3>2, <3>3
  <2>12. QueueOf(u)'
    BY <2>3, <2>4, <2>5, <2>6, <2>7, <2>11, QueueWritten
  <2>13. ASSUME NEW v \in Target \ {u}
         PROVE  QueueOf(v)'
    <3>1. /\ v \in Target /\ item'[v] = item[v] /\ QueueOf(v) /\ target' = target
          /\ decision' = decision /\ ~ Busy(v) /\ v # op[r].target
      BY <1>1, <2>1, <2>2, <2>4, AloneFacts
    <3>2. \A i \in Items(v) : Tells(v, item[v][i], target[v])
      BY <2>9, <3>1 DEF QueueOf
    <3>3. Items(v) = {} => Decided(v)' = {} /\ NotesAbout(v)' = {}
      BY <2>9, <3>1 DEF QueueOf
    <3>4. r \notin Decided(v) /\ r \notin NotesAbout(v)
      BY <2>3, <3>1, NoneAssumption DEF SeqInv, NotesInv, Decided, NotesAbout
    <3>5. /\ \A q \in Decided(v)' : pc'[q] \in Settled => q \in Decided(v) /\ pc[q] \in Settled
          /\ \A q \in NotesAbout(v)' : pc'[q] \in Settled => q \in NotesAbout(v) /\ pc[q] \in Settled
      BY <2>9, <2>10, <3>4 DEF Decided, NotesAbout
    <3>6. QED
      BY <2>9, <3>1, <3>2, <3>3, <3>5, QueueKept
  <2>14. QED
    BY <2>12, <2>13 DEF QueueInv
<1>16. QED
  BY <1>8, <1>9, <1>10, <1>11, <1>12, <1>13, <1>14, <1>15 DEF Serve

LEMMA HeldStep ==
    ASSUME IInv, SeqInv, NEW r \in Request, Serve(r), Alone(r)
    PROVE  HeldInv'
<1> DEFINE t == op[r].target
           Held == /\ item'[t][seen'[r].item.id] = seen'[r].item
                   /\ Tells(t, seen'[r].item, seen'[r].target)
                   /\ target'[t] = IF pc'[r] = "item" /\ op[r].kind = "action" THEN Reviewed(r)'
                                                                              ELSE seen'[r].target
                   /\ t \in Trade => seen'[r].parent = target'[Parent[t]]
<1>1. TypeOK /\ op' = op /\ \A q \in Request \ {r} : pc'[q] \notin Holding
  BY DEF IInv, Alone, Holding
<1>2. SUFFICES ASSUME pc'[r] \in Holding PROVE Held
  BY <1>1 DEF HeldInv
<1>3. ASSUME seen' = seen
      PROVE  Reviewed(r)' = Reviewed(r)
  BY <1>1, <1>3 DEF Reviewed
<1>4. CASE LoadForSync(r) \/ WriteSyncedItem(r) \/ SyncDone(r) \/ WriteItem(r) \/ WriteAudit(r)
           \/ AdmitTrade(r) \/ WriteSummary(r) \/ Raise(r)
  <2>1. pc'[r] \notin Holding
    BY <1>1, <1>4 DEF LoadForSync, WriteSyncedItem, SyncDone, WriteItem, WriteAudit, AdmitTrade,
                      WriteSummary, Raise, Goto, TypeOK, Holding
  <2>2. QED
    BY <1>2, <2>1
<1>5. CASE Load(r)
  <2>1. pc'[r] # "raise"
    BY <1>2 DEF Holding
  <2>2. /\ t \in Target /\ pc[r] = "refresh" /\ UNCHANGED <<target, item, note>>
        /\ CurrentItem(t) # None
        /\ seen'[r].target = target[t] /\ seen'[r].item = CurrentItem(t)
        /\ t \in Trade => seen'[r].parent = target[Parent[t]]
        /\ pc'[r] # "item"
    BY <1>5, <2>1, LoadedFacts DEF files
  <2>3. PICK i \in Items(t) : CurrentItem(t) = item[t][i] /\ item[t][i].id = i
    <3>1. \A i, j \in Items(t) : j = i
      BY <2>2 DEF SeqInv, QueueInv, QueueOf
    <3>2. QED
      BY <2>2, <3>1, TheOnlyItem DEF SeqInv, QueueInv, QueueOf
  <2>4. Tells(t, item[t][i], target[t])
    BY <1>5, <2>2 DEF SeqInv, SyncInv, Load
  <2>5. QED
    BY <2>2, <2>3, <2>4
<1>6. CASE WriteNote(r)
  <2>1. /\ pc[r] = "note" /\ pc'[r] = "item" /\ UNCHANGED <<target, item, seen>>
    BY <1>1, <1>6 DEF WriteNote, Goto, TypeOK
  <2>2. op[r].kind = "note"
    BY <2>1 DEF IInv, RequestsInv, RequestInv
  <2>3. QED
    BY <2>1, <2>2 DEF SeqInv, HeldInv, Holding
<1>7. CASE DeactivateAssignment(r) \/ WriteAssignment(r) \/ WriteDecision(r)
  <2>1. /\ pc[r] \in Holding \ {"item"} /\ UNCHANGED <<target, item, note, seen>>
        /\ pc'[r] = "item" => pc[r] = "assign"
    BY <1>1, <1>7 DEF DeactivateAssignment, WriteAssignment, WriteDecision, Goto, TypeOK, Holding
  <2>2. pc'[r] = "item" => op[r].kind # "action"
    BY <2>1 DEF IInv, RequestsInv, RequestInv
  <2>3. QED
    BY <2>1, <2>2 DEF SeqInv, HeldInv
<1>8. CASE WriteTarget(r)
  <2>1. /\ pc[r] = "target" /\ pc'[r] = "item" /\ UNCHANGED <<item, note, seen>>
        /\ target' = [target EXCEPT ![t] = Reviewed(r)]
    BY <1>1, <1>8 DEF WriteTarget, Goto, TypeOK
  <2>2. op[r].kind = "action" /\ t \in Target
    <3>1. pc[r] \in Holding
      BY <2>1 DEF Holding
    <3>2. QED
      BY <2>1, <3>1, HeldItem DEF IInv, RequestsInv, RequestInv
  <2>3. target'[t] = Reviewed(r) /\ \A u \in Target \ {t} : target'[u] = target[u]
    BY <1>1, <2>1, <2>2 DEF TypeOK
  <2>4. t \in Trade => Parent[t] \in Target \ {t}
    BY ReviewAssumption, TypesAreDisjoint DEF Target
  <2>5. Reviewed(r)' = Reviewed(r)
    BY <1>3, <2>1
  <2>6. QED
    BY <2>1, <2>2, <2>3, <2>4, <2>5 DEF SeqInv, HeldInv, Holding
<1>9. QED
  BY <1>4, <1>5, <1>6, <1>7, <1>8 DEF Serve

LEMMA NotesStep ==
    ASSUME IInv, SeqInv, NEW r \in Request, Serve(r), Alone(r)
    PROVE  NotesInv'
<1>1. TypeOK /\ op' = op /\ \A q \in Request \ {r} :
          /\ pc'[q] = pc[q] /\ pc[q] # "item" /\ note'[q] = note[q]
          /\ decision'[q] = decision[q] /\ audit'[q] = audit[q]
  BY DEF IInv, Alone
<1>2. /\ note'[r] # None => /\ pc'[r] \in {"item", "audit", "done", "dead"}
                            /\ op[r].kind = "note" /\ note'[r] = op[r].target
      /\ pc'[r] = "item" /\ op[r].kind = "note" => note'[r] # None
  <2>1. CASE WriteNote(r)
    <3>1. pc[r] = "note" /\ pc'[r] = "item" /\ note'[r] = op[r].target
      BY <1>1, <2>1 DEF WriteNote, Goto, TypeOK
    <3>2. op[r].kind = "note" /\ op[r].target \in Target
      BY <3>1, OperationTyped DEF IInv, RequestsInv, RequestInv
    <3>3. QED
      BY <3>1, <3>2, NoneAssumption
  <2>2. CASE ~ WriteNote(r)
    <3>1. note' = note
      BY <2>2 DEF Serve, LoadForSync, WriteSyncedItem, SyncDone, Load, DeactivateAssignment,
           WriteAssignment, WriteDecision, WriteTarget, WriteItem, WriteAudit, AdmitTrade,
           WriteSummary, Raise, files
    <3>2. CASE note[r] # None
      <4>1. op[r].kind = "note" /\ pc[r] \in {"item", "audit"}
        BY <3>2 DEF SeqInv, NotesInv, Alone
      <4>2. pc'[r] \in {"audit", "done"}
        BY <1>1, <2>2, <4>1 DEF Serve, LoadForSync, WriteSyncedItem, SyncDone, Load,
           DeactivateAssignment, WriteAssignment, WriteDecision, WriteTarget, WriteItem, WriteAudit,
           AdmitTrade, WriteSummary, Raise, Goto, TypeOK
      <4>3. QED
        BY <3>1, <3>2, <4>1, <4>2 DEF SeqInv, NotesInv
    <3>3. CASE note[r] = None /\ pc'[r] = "item"
      <4>1. pc[r] \in {"assign", "target"}
        <5>1. CASE Load(r)
          BY <1>1, <5>1, <3>3, LoadedFacts
        <5>2. CASE ~ Load(r)
          BY <1>1, <2>2, <3>3, <5>2 DEF Serve, LoadForSync, WriteSyncedItem, SyncDone,
             DeactivateAssignment, WriteAssignment, WriteDecision, WriteTarget, WriteItem,
             WriteAudit, AdmitTrade, WriteSummary, Raise, Goto, TypeOK
        <5>3. QED
          BY <5>1, <5>2
      <4>2. op[r].kind # "note"
        BY <4>1 DEF IInv, RequestsInv, RequestInv
      <4>3. QED
        BY <3>1, <3>3, <4>2
    <3>4. QED
      BY <3>1, <3>2, <3>3
  <2>3. QED
    BY <2>1, <2>2
<1>3. decision'[r] # None => op[r].kind = "action" /\ decision'[r].target = op[r].target
  <2>1. CASE WriteDecision(r)
    <3>1. pc[r] = "decision" /\ decision'[r].target = op[r].target
      BY <1>1, <2>1 DEF WriteDecision, TypeOK
    <3>2. QED
      BY <3>1 DEF IInv, RequestsInv, RequestInv
  <2>2. CASE ~ WriteDecision(r)
    <3>1. decision' = decision
      BY <2>2 DEF Serve, LoadForSync, WriteSyncedItem, SyncDone, Load, WriteNote,
           DeactivateAssignment, WriteAssignment, WriteTarget, WriteItem, WriteAudit, AdmitTrade,
           WriteSummary, Raise, files
    <3>2. QED
      BY <3>1 DEF SeqInv, NotesInv
  <2>3. QED
    BY <2>1, <2>2
<1>4. pc'[r] \in Undecided \cup {"target", "item", "audit"} => audit'[r] = None
  <2>1. CASE Load(r)
    <3>1. pc[r] = "refresh" /\ audit' = audit
      BY <2>1 DEF Load, files
    <3>2. QED
      BY <3>1 DEF SeqInv, NotesInv, Undecided
  <2>2. CASE WriteAudit(r)
    <3>1. pc'[r] \in {"done", "admit", "summary"}
      BY <1>1, <2>2 DEF WriteAudit, Goto, TypeOK
    <3>2. QED
      BY <3>1 DEF Undecided
  <2>3. CASE ~ Load(r) /\ ~ WriteAudit(r)
    <3>1. audit' = audit
      BY <2>3 DEF Serve, LoadForSync, WriteSyncedItem, SyncDone, WriteNote,
           DeactivateAssignment, WriteAssignment, WriteDecision, WriteTarget, WriteItem, AdmitTrade,
           WriteSummary, Raise, files
    <3>2. pc'[r] \in Undecided \cup {"target", "item", "audit"} =>
             pc[r] \in Undecided \cup {"target", "item", "audit"}
      BY <1>1, <2>3 DEF Serve, LoadForSync, WriteSyncedItem, SyncDone, WriteNote,
           DeactivateAssignment, WriteAssignment, WriteDecision, WriteTarget, WriteItem, AdmitTrade,
           WriteSummary, Raise, Goto, TypeOK, Undecided
    <3>3. QED
      BY <3>1, <3>2 DEF SeqInv, NotesInv
  <2>4. QED
    BY <2>1, <2>2, <2>3
<1>5. QED
  <2> SUFFICES ASSUME NEW q \in Request
               PROVE  /\ note'[q] # None =>
                           /\ pc'[q] \in {"item", "audit", "done", "dead"}
                           /\ op[q].kind = "note" /\ note'[q] = op[q].target
                      /\ pc'[q] = "item" /\ op[q].kind = "note" => note'[q] # None
                      /\ decision'[q] # None =>
                           op[q].kind = "action" /\ decision'[q].target = op[q].target
                      /\ pc'[q] \in Undecided \cup {"target", "item", "audit"} => audit'[q] = None
    BY <1>1 DEF NotesInv
  <2>1. CASE q = r
    BY <1>2, <1>3, <1>4, <2>1
  <2>2. CASE q # r
    BY <1>1, <2>2 DEF SeqInv, NotesInv
  <2>3. QED
    BY <2>1, <2>2

(* Where a review that was written down stays written down.                *)
Listed(u, d) ==
    (Lists(u) => d \in target[u].decisions) /\ \E i \in Items(u) : d \in item[u][i].decisions

(* No step takes a decision off a target or an item, or a position away.   *)
LEMMA Growth ==
    ASSUME IInv, SeqInv, NEW r \in Request, Serve(r), Alone(r)
    PROVE  /\ \A u \in Target : \A d : Listed(u, d) => Listed(u, d)'
           /\ \A u \in Target : Items(u) # {} => Items(u)' # {}
           /\ \A u \in Trade : position[u] # None => position'[u] = position[u]
<1> DEFINE t == op[r].target
<1>1. TypeOK
  BY DEF IInv
<1>2. ASSUME UNCHANGED <<target, item, position>>
      PROVE  /\ \A u \in Target : \A d : Listed(u, d) => Listed(u, d)'
             /\ \A u \in Target : Items(u) # {} => Items(u)' # {}
             /\ \A u \in Trade : position[u] # None => position'[u] = position[u]
  BY <1>2 DEF Listed, Items
<1>3. CASE LoadForSync(r) \/ SyncDone(r) \/ Load(r) \/ WriteNote(r) \/ DeactivateAssignment(r)
             \/ WriteAssignment(r) \/ WriteDecision(r) \/ WriteAudit(r) \/ WriteSummary(r)
             \/ Raise(r)
  BY <1>2, <1>3 DEF LoadForSync, SyncDone, Load, WriteNote, DeactivateAssignment, WriteAssignment,
                    WriteDecision, WriteAudit, WriteSummary, Raise, files
<1>4. ASSUME NEW u \in Target, NEW j \in Request, NEW x \in ReviewQueueItem,
             item' = [item EXCEPT ![u][j] = x], UNCHANGED <<target, position>>,
             \A i \in Items(u) : i = j /\ item[u][i].decisions \subseteq x.decisions
      PROVE  /\ \A v \in Target : \A d : Listed(v, d) => Listed(v, d)'
             /\ \A v \in Target : Items(v) # {} => Items(v)' # {}
             /\ \A v \in Trade : position[v] # None => position'[v] = position[v]
  <2>1. item'[u][j] = x /\ \A v \in Target \ {u} : item'[v] = item[v]
    BY <1>1, <1>4 DEF TypeOK
  <2>2. j \in Items(u)'
    BY <1>4, <2>1, NoneAssumption DEF Items
  <2>3. \A d : Listed(u, d) => Listed(u, d)'
    BY <1>4, <2>1, <2>2 DEF Listed
  <2>4. \A v \in Target \ {u} : Items(v)' = Items(v)
    BY <2>1 DEF Items
  <2>5. \A v \in Target \ {u} : \A d : Listed(v, d) => Listed(v, d)'
    BY <1>4, <2>1, <2>4 DEF Listed
  <2>6. QED
    BY <1>4, <2>2, <2>3, <2>4, <2>5
<1>5. CASE WriteSyncedItem(r)
  <2>1. PICK w \in todo[r] : item' = [item EXCEPT ![w[1]][w[2].id] = w[2]]
    BY <1>5 DEF WriteSyncedItem
  <2>2. pc[r] = "refresh" /\ UNCHANGED <<target, position>>
    BY <1>5 DEF WriteSyncedItem
  <2>3. PICK x, j : x = w[2] /\ j = w[2].id
    OBVIOUS
  <2>4. PICK u \in Target :
             /\ w[1] = u /\ j \in Request /\ x \in ReviewQueueItem
             /\ \/ Items(u) = {}
                \/ \A i \in Items(u) : i = j /\ Follows(x, item[u][i])
    BY <2>2, <2>3, SyncedItem
  <2>5. \A i \in Items(u) : i = j /\ item[u][i].decisions \subseteq x.decisions
    BY <2>4 DEF Follows
  <2>6. item' = [item EXCEPT ![u][j] = x]
    BY <2>1, <2>3, <2>4
  <2>7. QED
    BY <1>4, <2>2, <2>4, <2>5, <2>6
<1>6. CASE WriteItem(r)
  <2>1. pc[r] = "item" /\ pc[r] \in Holding /\ UNCHANGED <<target, position>>
    BY <1>6 DEF WriteItem, Holding
  <2>2. PICK u, j : u = t /\ j = seen[r].item.id
    OBVIOUS
  <2>3. /\ u \in Target /\ j \in Items(u) /\ j \in Request /\ \A i \in Items(u) : i = j
        /\ op[r] \in Operation /\ seen[r].item \in ReviewQueueItem
        /\ op[r].kind \in {"note", "assign", "action"}
    BY <2>1, <2>2, HeldItem DEF Items
  <2>4. UpdatedItem(r) \in ReviewQueueItem
    BY <2>1, <2>3, UpdatedItemGood DEF IInv, RequestsInv
  <2>5. seen[r].item.decisions \subseteq UpdatedItem(r).decisions
    <3>1. CASE op[r].kind = "note"
      BY <2>3, <3>1 DEF UpdatedItem, ReviewQueueItem
    <3>2. CASE op[r].kind = "assign"
      BY <2>3, <3>2 DEF UpdatedItem, ReviewQueueItem
    <3>3. CASE op[r].kind = "action"
      BY <2>3, <3>3 DEF UpdatedItem, ReviewQueueItem
    <3>4. QED
      BY <2>3, <3>1, <3>2, <3>3
  <2>6. item[u][j] = seen[r].item
    BY <2>1, <2>2 DEF SeqInv, HeldInv
  <2>7. item' = [item EXCEPT ![u][j] = UpdatedItem(r)]
    BY <1>6, <2>2 DEF WriteItem
  <2>8. QED
    BY <1>4, <2>1, <2>3, <2>4, <2>5, <2>6, <2>7
<1>7. CASE WriteTarget(r)
  <2>1. pc[r] = "target" /\ pc[r] \in Holding /\ UNCHANGED <<item, position>>
        /\ target' = [target EXCEPT ![t] = Reviewed(r)]
    BY <1>7 DEF WriteTarget, Holding
  <2>2. PICK u : u = t
    OBVIOUS
  <2>3. u \in Target /\ target[u] = seen[r].target /\ target[u] \in TargetFile
    BY <1>1, <2>1, <2>2, HeldItem DEF SeqInv, HeldInv, TypeOK
  <2>4. target[u].decisions \subseteq Reviewed(r).decisions
    BY <2>3 DEF Reviewed, TargetFile
  <2>5. \A v \in Target : target[v].decisions \subseteq target'[v].decisions
    BY <1>1, <2>1, <2>2, <2>3, <2>4 DEF TypeOK
  <2>6. \A v \in Target : Items(v)' = Items(v)
    BY <2>1 DEF Items
  <2>7. QED
    BY <2>1, <2>5, <2>6 DEF Listed
<1>8. CASE AdmitTrade(r)
  <2>1. PICK u : u = t
    OBVIOUS
  <2>2. /\ u \in Trade /\ u \in Target /\ item' = item /\ target[u] \in TargetFile
        /\ \/ /\ position[u] = None /\ position' = [position EXCEPT ![u] = r]
              /\ target' = [target EXCEPT ![u] = [target[u] EXCEPT !.admitted = TRUE]]
           \/ UNCHANGED <<target, position>>
    BY <1>8, <2>1, AdmitFacts
  <2>3. \A v \in Target : target[v].decisions \subseteq target'[v].decisions
    <3>1. [target[u] EXCEPT !.admitted = TRUE].decisions = target[u].decisions
      BY <2>2 DEF TargetFile
    <3>2. \A v \in Target \ {u} : target'[v] = target[v]
      BY <1>1, <2>2 DEF TypeOK
    <3>3. target'[u].decisions = target[u].decisions
      BY <1>1, <2>2, <3>1 DEF TypeOK
    <3>4. QED
      BY <3>2, <3>3
  <2>4. \A v \in Trade : position[v] # None => position'[v] = position[v]
    BY <1>1, <2>2 DEF TypeOK
  <2>5. \A v \in Target : Items(v)' = Items(v)
    BY <2>2 DEF Items
  <2>6. QED
    BY <2>2, <2>3, <2>4, <2>5 DEF Listed
<1>9. QED
  BY <1>3, <1>5, <1>6, <1>7, <1>8 DEF Serve

LEMMA LedgerStep ==
    ASSUME IInv, SeqInv, NEW r \in Request, Serve(r), Alone(r)
    PROVE  LedgerInv'
<1> DEFINE t == op[r].target
<1>1. TypeOK
  BY DEF IInv
<1>2. ASSUME NEW u \in Trade, position[u] # None
      PROVE  pc'[position[u]] \in {"summary", "done", "dead"}
  <2>1. position[u] \in Request /\ pc[position[u]] \in {"summary", "done", "dead"}
    BY <1>1, <1>2 DEF SeqInv, LedgerInv, TypeOK
  <2>2. CASE position[u] # r
    BY <2>1, <2>2 DEF Alone
  <2>3. CASE position[u] = r
    <3>1. pc[r] = "summary"
      BY <2>1, <2>3 DEF Alone
    <3>2. pc'[r] = "done"
      BY <1>1, <3>1 DEF Serve, LoadForSync, WriteSyncedItem, SyncDone, Load, WriteNote,
         DeactivateAssignment, WriteAssignment, WriteDecision, WriteTarget, WriteItem, WriteAudit,
         AdmitTrade, WriteSummary, Raise, Goto, TypeOK
    <3>3. QED
      BY <2>3, <3>2
  <2>4. QED
    BY <2>2, <2>3
<1>3. ASSUME position' = position, \A u \in Trade : target'[u].admitted = target[u].admitted
      PROVE  LedgerInv'
  BY <1>2, <1>3 DEF SeqInv, LedgerInv
<1>4. CASE WriteTarget(r)
  <2>1. pc[r] = "target" /\ pc[r] \in Holding /\ position' = position
        /\ target' = [target EXCEPT ![t] = Reviewed(r)]
    BY <1>4 DEF WriteTarget, Holding
  <2>2. t \in Target /\ target[t] = seen[r].target /\ target[t] \in TargetFile
    BY <1>1, <2>1, HeldItem DEF SeqInv, HeldInv, TypeOK
  <2>3. Reviewed(r).admitted = target[t].admitted
    BY <2>2 DEF Reviewed, TargetFile
  <2>4. \A u \in Trade : target'[u].admitted = target[u].admitted
    BY <1>1, <2>1, <2>2, <2>3 DEF TypeOK, Target
  <2>5. QED
    BY <1>3, <2>1, <2>4
<1>5. CASE AdmitTrade(r)
  <2>1. PICK u : u = t
    OBVIOUS
  <2>2. CASE UNCHANGED <<target, position>>
    BY <1>3, <2>2
  <2>3. CASE ~ UNCHANGED <<target, position>>
    <3>1. /\ u \in Trade /\ u \in Target /\ target[u] \in TargetFile
          /\ position' = [position EXCEPT ![u] = r] /\ pc'[r] = "summary"
          /\ target' = [target EXCEPT ![u] = [target[u] EXCEPT !.admitted = TRUE]]
      BY <1>5, <2>1, <2>3, AdmitFacts
    <3>2. position'[u] = r /\ r # None /\ target'[u].admitted
      BY <1>1, <3>1, NoneAssumption DEF TypeOK, TargetFile
    <3>3. \A v \in Trade \ {u} : position'[v] = position[v] /\ target'[v] = target[v]
      BY <1>1, <3>1 DEF TypeOK, Target
    <3>4. QED
      BY <1>2, <3>1, <3>2, <3>3 DEF SeqInv, LedgerInv
  <2>4. QED
    BY <2>2, <2>3
<1>6. CASE ~ WriteTarget(r) /\ ~ AdmitTrade(r)
  <2>1. UNCHANGED <<target, position>>
    BY <1>6 DEF Serve, LoadForSync, WriteSyncedItem, SyncDone, Load, WriteNote,
       DeactivateAssignment, WriteAssignment, WriteDecision, WriteItem, WriteAudit, WriteSummary,
       Raise, files
  <2>2. QED
    BY <1>3, <2>1
<1>7. QED
  BY <1>4, <1>5, <1>6


LEMMA WrittenStep ==
    ASSUME IInv, IInv', SeqInv, NEW r \in Request, Serve(r), Alone(r)
    PROVE  WrittenInv'
<1> DEFINE t == op[r].target
           Written == /\ Listed(t, r)' /\ decision'[r] # None
                      /\ pc'[r] # "summary" => target'[t] = Reviewed(r)'
                      /\ pc'[r] # "audit" => audit'[r] # None
                      /\ pc'[r] = "summary" /\ t \in Trade /\ op[r].outcome = "approve" =>
                           position'[t] # None
<1>1. TypeOK /\ op' = op /\ \A q \in Request \ {r} : pc'[q] \in {"idle", "done", "dead"}
  BY DEF IInv, Alone
<1>2. SUFFICES ASSUME pc'[r] \in {"audit", "admit", "summary"}, op[r].kind = "action"
               PROVE  Written
  BY <1>1 DEF WrittenInv, Listed
<1>3. t \in Target /\ op[r] \in Operation
  BY <1>1, OperationTyped DEF Alone, IInv, RequestsInv, RequestInv
<1>4. CASE WriteItem(r)
  <2>1. /\ pc[r] = "item" /\ pc[r] \in Holding /\ pc'[r] = "audit"
        /\ UNCHANGED <<target, seen, decision>>
        /\ item' = [item EXCEPT ![t][seen[r].item.id] = UpdatedItem(r)]
    BY <1>1, <1>4 DEF WriteItem, Holding, Goto, TypeOK
  <2>2. target[t] = Reviewed(r) /\ seen[r].target \in TargetFile
    <3>1. target[t] = Reviewed(r)
      BY <1>2, <2>1 DEF SeqInv, HeldInv
    <3>2. GoodFile(t, seen[r].target, decision)
      BY <2>1 DEF IInv, RequestsInv, RequestInv, Loaded
    <3>3. QED
      BY <3>1, <3>2 DEF GoodFile
  <2>3. decision[r] # None
    <3>1. decision[r] = [target |-> t, outcome |-> op[r].outcome]
      BY <1>2, <2>1 DEF IInv, RequestsInv, RequestInv, Deciding
    <3>2. decision[r] \in ReviewDecision
      BY <1>3, <3>1, OperationTyped DEF ReviewDecision
    <3>3. QED
      BY <3>2, NoneAssumption
  <2>4. PICK i : i = seen[r].item.id
    OBVIOUS
  <2>5. i \in Request /\ item'[t][i] = UpdatedItem(r) /\ seen[r].item \in ReviewQueueItem
    BY <1>1, <1>3, <2>1, <2>4, HeldItem DEF TypeOK, ReviewQueueItem
  <2>6. UpdatedItem(r) # None
    BY <1>3, <2>1, UpdatedItemGood, NoneAssumption DEF IInv, RequestsInv
  <2>7. r \in UpdatedItem(r).decisions
    BY <1>2, <2>5 DEF UpdatedItem, ReviewQueueItem
  <2>8. Lists(t) => r \in Reviewed(r).decisions
    BY <2>2 DEF Reviewed, TargetFile
  <2>9. Reviewed(r)' = Reviewed(r)
    BY <1>1, <2>1 DEF Reviewed
  <2>10. i \in Items(t)'
    BY <1>1, <2>5, <2>6 DEF Items
  <2>11. Listed(t, r)'
    BY <1>1, <2>1, <2>2, <2>5, <2>7, <2>8, <2>10 DEF Listed
  <2>12. QED
    BY <2>1, <2>2, <2>3, <2>9, <2>11
<1>5. CASE WriteAudit(r)
  <2>1. /\ pc[r] = "audit" /\ UNCHANGED <<target, item, seen, decision>>
        /\ pc'[r] = IF t \in Trade /\ op[r].outcome = "approve" THEN "admit" ELSE "summary"
        /\ audit'[r] = [target |-> t, before |-> seen[r].target.status,
                        after |-> Reviewed(r).status]
    BY <1>1, <1>2, <1>5 DEF WriteAudit, Goto, TypeOK
  <2>2. /\ Listed(t, r) /\ decision[r] # None /\ target[t] = Reviewed(r)
    BY <1>2, <2>1 DEF SeqInv, WrittenInv, Listed
  <2>3. Listed(t, r)' /\ Reviewed(r)' = Reviewed(r)
    BY <1>1, <2>1, <2>2 DEF Listed, Items, Reviewed
  <2>4. audit'[r] # None
    <3>1. GoodFile(t, seen[r].target, decision) /\ target[t].status \in TargetStatus
      BY <1>1, <1>3, <2>1 DEF IInv, RequestsInv, RequestInv, Loaded, TypeOK, TargetFile
    <3>2. audit'[r] \in AuditLog
      BY <1>3, <2>1, <2>2, <3>1 DEF AuditLog, GoodFile, TargetFile
    <3>3. QED
      BY <3>2, NoneAssumption
  <2>5. pc'[r] = "summary" => ~ (t \in Trade /\ op[r].outcome = "approve")
    BY <2>1
  <2>6. QED
    BY <2>1, <2>2, <2>3, <2>4, <2>5
<1>6. CASE AdmitTrade(r)
  <2>1. PICK u : u = t
    OBVIOUS
  <2>2. /\ pc[r] = "admit" /\ UNCHANGED <<item, decision, audit>> /\ u \in Trade /\ u \in Target
        /\ target[u] \in TargetFile /\ pc'[r] = "summary"
        /\ target' = [target EXCEPT ![u] = [target[u] EXCEPT !.admitted = TRUE]]
        /\ position' = [position EXCEPT ![u] = r]
    BY <1>2, <1>6, <2>1, AdmitFacts
  <2>3. position'[u] = r /\ r # None
    BY <1>1, <2>2, NoneAssumption DEF TypeOK
  <2>4. Listed(u, r) /\ decision[r] # None /\ audit[r] # None
    BY <1>2, <2>1, <2>2 DEF SeqInv, WrittenInv, Listed
  <2>5. Listed(u, r)'
    BY <2>2, <2>4, Growth
  <2>6. QED
    BY <1>1, <2>1, <2>2, <2>3, <2>4, <2>5
<1>7. CASE ~ WriteItem(r) /\ ~ WriteAudit(r) /\ ~ AdmitTrade(r)
  <2>1. CASE Load(r)
    BY <1>1, <1>2, <2>1, LoadedFacts
  <2>2. CASE ~ Load(r)
    BY <1>1, <1>2, <1>7, <2>2 DEF Serve, LoadForSync, WriteSyncedItem, SyncDone, WriteNote,
       DeactivateAssignment, WriteAssignment, WriteDecision, WriteTarget, WriteSummary, Raise,
       Goto, TypeOK
  <2>3. QED
    BY <2>1, <2>2
<1>8. QED
  BY <1>4, <1>5, <1>6, <1>7

LEMMA OutcomeStep ==
    ASSUME IInv, IInv', SeqInv, NEW r \in Request, Serve(r), Alone(r)
    PROVE  OutcomeInv'
<1> DEFINE Told(q, t) ==
             /\ summary[q] = "succeeded" =>
                  /\ Listed(t, q) /\ decision[q] # None /\ audit[q] # None
                  /\ t \in Trade /\ op[q].outcome = "approve" => position[t] # None
             /\ summary[q] = "failed" =>
                  decision[q] = None \/ (t \in Trade /\ position[t] \notin {q, None})
<1>1. TypeOK /\ op' = op /\ \A q \in Request \ {r} :
          /\ pc[q] \in {"idle", "done", "dead"} /\ pc'[q] = pc[q] /\ decision'[q] = decision[q]
          /\ audit'[q] = audit[q] /\ summary'[q] = summary[q]
  BY DEF IInv, Alone
<1>2. \A q \in Request : summary[q] # None => pc[q] = "done"
  BY DEF SeqInv, OutcomeInv
<1>3. summary[r] = None
  BY <1>2 DEF Alone
<1>4. \A q \in Request : Told(q, op[q].target)
  BY DEF SeqInv, OutcomeInv, SummariesTellTheTruth, Listed
<1>5. ASSUME NEW q \in Request \ {r}
      PROVE  Told(q, op[q].target)'
  <2>1. CASE summary[q] = None
    BY <1>1, <2>1, NoneAssumption
  <2>2. CASE summary[q] # None
    <3>1. op[q] \in Operation /\ op[q].target \in Target
      BY <1>2, <2>2, OperationTyped DEF IInv, RequestsInv, RequestInv
    <3>2. PICK t : t = op[q].target
      OBVIOUS
    <3>3. Told(q, t) /\ t \in Target
      BY <1>4, <3>1, <3>2
    <3>4. /\ Listed(t, q) => Listed(t, q)'
          /\ t \in Trade /\ position[t] # None => position'[t] = position[t]
      BY <3>3, Growth
    <3>5. Told(q, t)'
      BY <1>1, <3>3, <3>4
    <3>6. QED
      BY <1>1, <3>2, <3>5
  <2>3. QED
    BY <2>1, <2>2
<1>6. Told(r, op[r].target)'
  <2>1. CASE WriteSummary(r)
    <3>1. /\ pc[r] = "summary" /\ op[r].kind = "action" /\ summary'[r] = "succeeded"
          /\ UNCHANGED <<target, item, decision, audit, position>>
      BY <1>1, <2>1 DEF WriteSummary, TypeOK, IInv, RequestsInv, RequestInv
    <3>2. PICK t : t = op[r].target
      OBVIOUS
    <3>3. /\ Listed(t, r) /\ decision[r] # None /\ audit[r] # None
          /\ t \in Trade /\ op[r].outcome = "approve" => position[t] # None
      BY <3>1, <3>2 DEF SeqInv, WrittenInv, Listed
    <3>4. Told(r, t)'
      BY <1>1, <3>1, <3>3 DEF Listed, Items
    <3>5. QED
      BY <1>1, <3>2, <3>4
  <2>2. CASE Raise(r)
    <3>1. /\ pc[r] = "raise" /\ UNCHANGED <<decision, position>>
          /\ summary'[r] # None => op[r].kind = "action" /\ summary'[r] = "failed"
      BY <1>1, <1>3, <2>2 DEF Raise, TypeOK
    <3>2. op[r].kind = "action" =>
            decision[r] = None \/ (op[r].target \in Trade /\ position[op[r].target] \notin {r, None})
      BY <3>1 DEF SeqInv, OutcomeInv
    <3>3. PICK t : t = op[r].target
      OBVIOUS
    <3>4. Told(r, t)'
      BY <1>1, <3>1, <3>2, <3>3, NoneAssumption
    <3>5. QED
      BY <1>1, <3>3, <3>4
  <2>3. CASE ~ WriteSummary(r) /\ ~ Raise(r)
    <3>1. summary' = summary
      BY <2>3 DEF Serve, LoadForSync, WriteSyncedItem, SyncDone, Load, WriteNote,
         DeactivateAssignment, WriteAssignment, WriteDecision, WriteTarget, WriteItem, WriteAudit,
         AdmitTrade, files
    <3>2. QED
      BY <1>3, <3>1, NoneAssumption
  <2>4. QED
    BY <2>1, <2>2, <2>3
<1>7. SummariesTellTheTruth'
  <2>1. \A q \in Request : Told(q, op[q].target)'
    BY <1>5, <1>6
  <2>2. QED
    BY <2>1 DEF SummariesTellTheTruth, Listed
<1>8. summary'[r] # None => pc'[r] = "done"
  BY <1>1, <1>3 DEF Serve, LoadForSync, WriteSyncedItem, SyncDone, Load, WriteNote,
         DeactivateAssignment, WriteAssignment, WriteDecision, WriteTarget, WriteItem, WriteAudit,
         AdmitTrade, WriteSummary, Raise, files, Goto, TypeOK
<1>9. ASSUME pc'[r] = "raise", op[r].kind = "action"
      PROVE  \/ decision'[r] = None
             \/ op[r].target \in Trade /\ position'[op[r].target] \notin {r, None}
  <2>1. CASE Load(r)
    <3>1. pc[r] = "refresh" /\ decision' = decision
      BY <2>1 DEF Load, files
    <3>2. QED
      BY <3>1 DEF IInv, RequestsInv, RequestInv, Undecided
  <2>2. CASE AdmitTrade(r)
    <3>1. PICK u : u = op[r].target
      OBVIOUS
    <3>2. u \in Trade /\ position[u] # None /\ position' = position /\ pc[r] = "admit"
      BY <1>9, <2>2, <3>1, AdmitFacts
    <3>3. position[u] # r
      BY <3>2 DEF SeqInv, LedgerInv
    <3>4. QED
      BY <3>1, <3>2, <3>3
  <2>3. CASE ~ Load(r) /\ ~ AdmitTrade(r)
    BY <1>1, <1>9, <2>3 DEF Serve, LoadForSync, WriteSyncedItem, SyncDone, WriteNote,
       DeactivateAssignment, WriteAssignment, WriteDecision, WriteTarget, WriteItem, WriteAudit,
       WriteSummary, Raise, Goto, TypeOK, Alone
  <2>4. QED
    BY <2>1, <2>2, <2>3
<1>10. \A q \in Request :
         /\ summary'[q] # None => pc'[q] = "done"
         /\ pc'[q] = "raise" /\ op'[q].kind = "action" =>
              \/ decision'[q] = None
              \/ op'[q].target \in Trade /\ position'[op'[q].target] \notin {q, None}
  BY <1>1, <1>2, <1>8, <1>9
<1>11. QED
  BY <1>7, <1>10 DEF OutcomeInv


(* The item that is written names the assignment it named, or the new one. *)
LEMMA AssignStep ==
    ASSUME IInv, IInv', SeqInv, NEW r \in Request, Serve(r), Alone(r)
    PROVE  AssignInv'
<1> DEFINE t == op[r].target
           Named(a, u) == (\E i \in Items(u) : item[u][i].assignment = a)
                          \/ (pc[a] = "item" /\ Assigning(a, u))
           Free(a, u) == \A q \in Request \ {a} : ~ (pc[q] \in {"assign", "item"} /\ Assigning(q, u))
<1>1. /\ TypeOK /\ op' = op
      /\ \A q \in Request \ {r} :
          pc[q] \notin {"assign", "item"} /\ pc'[q] = pc[q]
      /\ pc[r] # "dead"
  BY DEF IInv, Alone
<1>2. \A a \in Request : pc[a] # "dead" /\ assignment[a] # None /\ assignment[a].active =>
          /\ Named(a, assignment[a].target) /\ Free(a, assignment[a].target)
          /\ assignment[a].target \in Target
  BY <1>1 DEF SeqInv, AssignInv, TypeOK, ReviewAssignment
<1>3. ASSUME \A a \in Request, v \in Target :
                 pc[a] # "dead" /\ assignment'[a] # None /\ assignment'[a].active
                   /\ assignment'[a].target = v => Named(a, v)' /\ Free(a, v)'
      PROVE  AssignInv'
  <2>1. \A a \in Request : assignment'[a] # None => assignment'[a].target \in Target
    BY DEF IInv, TypeOK, ReviewAssignment
  <2>2. \A a \in Request : pc'[a] # "dead" => pc[a] # "dead"
    BY <1>1
  <2>3. QED
    BY <1>1, <1>3, <2>1, <2>2 DEF AssignInv
<1>4. ASSUME UNCHANGED <<item, assignment>>, pc[r] # "item",
             pc'[r] \in {"assign", "item"} => pc[r] = "assign"
      PROVE  AssignInv'
  <2>1. \A a \in Request, u \in Target : Named(a, u) => Named(a, u)'
    BY <1>1, <1>4 DEF Items, Assigning
  <2>2. \A a \in Request, u \in Target : Free(a, u) => Free(a, u)'
    BY <1>1, <1>4 DEF Assigning
  <2>3. QED
    BY <1>2, <1>3, <1>4, <2>1, <2>2
<1>5. CASE LoadForSync(r) \/ SyncDone(r) \/ WriteDecision(r) \/ WriteAudit(r) \/ AdmitTrade(r)
           \/ WriteSummary(r) \/ Raise(r)
  <2>1. UNCHANGED <<item, assignment>> /\ pc[r] # "item" /\ pc'[r] \notin {"assign", "item"}
    BY <1>1, <1>5 DEF LoadForSync, SyncDone, WriteDecision, WriteAudit, AdmitTrade, WriteSummary,
       Raise, files, Goto, TypeOK
  <2>2. QED
    BY <1>4, <2>1
<1>6. CASE WriteNote(r) \/ WriteTarget(r)
  <2>1. UNCHANGED <<item, assignment>> /\ pc[r] \in {"note", "target"} /\ pc'[r] = "item"
    BY <1>1, <1>6 DEF WriteNote, WriteTarget, Goto, TypeOK
  <2>2. op[r].kind # "assign"
    BY <2>1 DEF IInv, RequestsInv, RequestInv
  <2>3. \A a \in Request, u \in Target : Named(a, u) => Named(a, u)'
    BY <1>1, <2>1 DEF Items, Assigning
  <2>4. \A a \in Request, u \in Target : Free(a, u) => Free(a, u)'
    BY <1>1, <2>2 DEF Assigning
  <2>5. QED
    BY <1>2, <1>3, <2>1, <2>3, <2>4
<1>7. CASE Load(r)
  <2>1. UNCHANGED <<item, assignment>> /\ pc[r] = "refresh"
    BY <1>7 DEF Load, files
  <2>2. CASE pc'[r] # "assign"
    <3>1. pc'[r] # "item"
      BY <1>7, LoadedFacts
    <3>2. QED
      BY <1>4, <2>1, <2>2, <3>1
  <2>3. CASE pc'[r] = "assign"
    <3>1. PICK u : u = t
      OBVIOUS
    <3>2. /\ u \in Target /\ CurrentItem(u) # None
          /\ ~ (CurrentItem(u).assignment # None /\ assignment[CurrentItem(u).assignment].active)
      BY <1>7, <2>3, <3>1, LoadedFacts
    <3>3. \A i \in Items(u) : CurrentItem(u) = item[u][i]
      BY <3>2, TheOnlyItem DEF SeqInv, QueueInv, QueueOf
    <3>4. ASSUME NEW a \in Request, pc[a] # "dead", assignment[a] # None, assignment[a].active,
                 assignment[a].target = u
          PROVE  FALSE
      <4>1. Named(a, u)
        BY <1>2, <3>4
      <4>2. pc[a] # "item"
        BY <1>1, <2>1
      <4>3. PICK i \in Items(u) : item[u][i].assignment = a
        BY <4>1, <4>2
      <4>4. CurrentItem(u).assignment = a /\ a # None
        BY <3>3, <4>3, NoneAssumption
      <4>5. QED
        BY <3>2, <3>4, <4>4
    <3>5. \A a \in Request, v \in Target : Named(a, v) => Named(a, v)'
      BY <1>1, <2>1 DEF Items, Assigning
    <3>6. \A a \in Request, v \in Target \ {u} : Free(a, v) => Free(a, v)'
      BY <1>1, <3>1 DEF Assigning
    <3>7. QED
      BY <1>2, <1>3, <2>1, <3>4, <3>5, <3>6
  <2>4. QED
    BY <2>2, <2>3
<1>8. CASE DeactivateAssignment(r) \/ WriteAssignment(r)
  <2>1. /\ pc[r] \in {"unassign", "assign"} /\ pc[r] \in Holding /\ item' = item
    BY <1>8 DEF DeactivateAssignment, WriteAssignment, Holding
  <2>2. PICK u : u = t
    OBVIOUS
  <2>3. /\ u \in Target /\ op[r].kind = "assign" /\ item[u][seen[r].item.id] = seen[r].item
        /\ \A i \in Items(u) : i = seen[r].item.id
    BY <2>1, <2>2, HeldItem DEF SeqInv, HeldInv, IInv, RequestsInv, RequestInv
  <2>4. \A a \in Request, v \in Target : Named(a, v) => Named(a, v)'
    BY <1>1, <2>1 DEF Items, Assigning
  <2>5. \A a \in Request, v \in Target \ {u} : Free(a, v) => Free(a, v)'
    BY <1>1, <2>2 DEF Assigning
  <2>6. CASE DeactivateAssignment(r)
    <3>1. PICK b : b = seen[r].item.assignment
      OBVIOUS
    <3>2. /\ pc[r] = "unassign" /\ assignment' = [assignment EXCEPT ![b] = Unassigned(@)]
          /\ b \in Request /\ assignment[b] # None
      BY <2>6, <3>1 DEF DeactivateAssignment, IInv, RequestsInv, RequestInv, Loaded, GoodItem,
                        ReviewQueueItem
    <3>3. assignment[b] \in ReviewAssignment
      BY <1>1, <3>2 DEF TypeOK
    <3>4. ~ assignment'[b].active /\ \A a \in Request \ {b} : assignment'[a] = assignment[a]
      BY <1>1, <3>2, <3>3 DEF TypeOK, Unassigned, ReviewAssignment
    <3>5. ASSUME NEW a \in Request, pc[a] # "dead", assignment[a] # None, assignment[a].active,
                 assignment[a].target = u
          PROVE  a = b
      <4>1. Named(a, u) /\ pc[a] # "item"
        BY <1>1, <1>2, <3>2, <3>5
      <4>2. QED
        BY <2>3, <3>1, <4>1
    <3>6. QED
      BY <1>2, <1>3, <2>4, <2>5, <3>4, <3>5
  <2>7. CASE WriteAssignment(r)
    <3>1. /\ pc[r] = "assign" /\ pc'[r] = "item"
          /\ assignment' = [assignment EXCEPT ![r] =
                [target |-> u, item |-> seen[r].item.id, active |-> TRUE]]
      BY <1>1, <2>2, <2>7 DEF WriteAssignment, Goto, TypeOK
    <3>2. assignment'[r].target = u /\ \A a \in Request \ {r} : assignment'[a] = assignment[a]
      BY <1>1, <3>1 DEF TypeOK
    <3>3. Named(r, u)' /\ Free(r, u)'
      BY <1>1, <2>2, <2>3, <3>1 DEF Assigning
    <3>4. \A a \in Request \ {r}, v \in Target : Free(a, v) => Free(a, v)'
      BY <1>1, <3>1 DEF Assigning
    <3>5. QED
      BY <1>2, <1>3, <2>4, <3>2, <3>3, <3>4
  <2>8. QED
    BY <1>8, <2>6, <2>7
<1>9. CASE WriteSyncedItem(r)
  <2>1. PICK w \in todo[r] : item' = [item EXCEPT ![w[1]][w[2].id] = w[2]]
    BY <1>9 DEF WriteSyncedItem
  <2>2. pc[r] = "refresh" /\ pc' = pc /\ assignment' = assignment
    BY <1>9 DEF WriteSyncedItem
  <2>3. PICK x, j : x = w[2] /\ j = w[2].id
    OBVIOUS
  <2>4. PICK u \in Target :
             /\ w[1] = u /\ j \in Request /\ x \in ReviewQueueItem
             /\ \/ Items(u) = {}
                \/ \A i \in Items(u) : i = j /\ Follows(x, item[u][i])
    BY <2>2, <2>3, SyncedItem
  <2>5. item'[u][j] = x /\ \A v \in Target \ {u} : item'[v] = item[v]
    BY <1>1, <2>1, <2>3, <2>4 DEF TypeOK
  <2>6. \A i \in Items(u) : i \in Items(u)' /\ item'[u][i].assignment = item[u][i].assignment
    BY <2>4, <2>5, NoneAssumption DEF Items, Follows
  <2>7. \A a \in Request, v \in Target : Named(a, v) => Named(a, v)'
    <3>1. \A v \in Target \ {u} : Items(v)' = Items(v)
      BY <2>5 DEF Items
    <3>2. QED
      BY <1>1, <2>2, <2>5, <2>6, <3>1 DEF Assigning
  <2>8. \A a \in Request, v \in Target : Free(a, v) => Free(a, v)'
    BY <1>1, <2>2 DEF Assigning
  <2>9. QED
    BY <1>2, <1>3, <2>2, <2>7, <2>8
<1>10. CASE WriteItem(r)
  <2>1. /\ pc[r] = "item" /\ pc[r] \in Holding /\ assignment' = assignment /\ pc'[r] = "audit"
        /\ item' = [item EXCEPT ![t][seen[r].item.id] = UpdatedItem(r)]
    BY <1>1, <1>10 DEF WriteItem, Holding, Goto, TypeOK
  <2>2. PICK u, j : u = t /\ j = seen[r].item.id
    OBVIOUS
  <2>3. /\ u \in Target /\ j \in Request /\ \A i \in Items(u) : i = j
        /\ seen[r].item \in ReviewQueueItem /\ op[r] \in Operation
        /\ item[u][j] = seen[r].item /\ op[r].kind \in {"note", "assign", "action"}
    BY <2>1, <2>2, HeldItem DEF SeqInv, HeldInv, Items
  <2>4. UpdatedItem(r) # None
    BY <2>1, <2>3, UpdatedItemGood, NoneAssumption DEF IInv, RequestsInv
  <2>5. item'[u][j] = UpdatedItem(r) /\ \A v \in Target \ {u} : item'[v] = item[v]
    BY <1>1, <2>1, <2>2, <2>3 DEF TypeOK
  <2>6. j \in Items(u)' /\ \A v \in Target \ {u} : Items(v)' = Items(v)
    BY <2>3, <2>4, <2>5 DEF Items
  <2>7. UpdatedItem(r).assignment = IF op[r].kind = "assign" THEN r ELSE item[u][j].assignment
    BY <2>3 DEF UpdatedItem, ReviewQueueItem
  <2>8. ASSUME NEW a \in Request, pc[a] # "dead", assignment[a] # None, assignment[a].active,
               NEW v \in Target, v = assignment[a].target
        PROVE  Named(a, v)' /\ Free(a, v)'
    <3>2. Named(a, v) /\ Free(a, v)
      BY <1>2, <2>8
    <3>3. Free(a, v)'
      BY <1>1, <2>1 DEF Assigning
    <3>4. CASE v # u
      <4>1. \E i \in Items(v) : item[v][i].assignment = a
        BY <1>1, <2>2, <3>2, <3>4 DEF Assigning
      <4>2. Named(a, v)'
        BY <2>5, <2>6, <3>4, <4>1
      <4>3. QED
        BY <3>3, <4>2
    <3>5. CASE v = u /\ op[r].kind = "assign"
      <4>1. a = r
        BY <2>1, <2>2, <3>2, <3>5 DEF Assigning
      <4>2. Named(a, v)'
        BY <2>5, <2>6, <2>7, <3>5, <4>1
      <4>3. QED
        BY <3>3, <4>2
    <3>6. CASE v = u /\ op[r].kind # "assign"
      <4>1. item[u][j].assignment = a
        BY <1>1, <2>3, <3>2, <3>6 DEF Assigning
      <4>2. Named(a, v)'
        BY <2>5, <2>6, <2>7, <3>6, <4>1
      <4>3. QED
        BY <3>3, <4>2
    <3>7. QED
      BY <3>4, <3>5, <3>6
  <2>9. QED
    BY <1>3, <2>1, <2>8
<1>11. QED
  BY <1>5, <1>6, <1>7, <1>8, <1>9, <1>10 DEF Serve


(* A sync writes one item for a target at most.                            *)
LEMMA OneWritePerTarget ==
    ASSUME NEW r, NEW v \in SyncWrites(r), NEW w \in SyncWrites(r), v[1] = w[1]
    PROVE  v = w
<1> DEFINE Write(x, t) ==
        \/ Reviewable(t) /\ CurrentItem(t) = None /\ x = <<t, NewItem(r, t)>>
        \/ Reviewable(t) /\ CurrentItem(t) # None /\ x = <<t, RefreshedItem(t)>>
        \/ ~ Reviewable(t) /\ CurrentItem(t) # None /\ x = <<t, ResolvedItem(t)>>
<1>1. PICK t \in Target : Write(v, t)
  BY DEF SyncWrites
<1>2. PICK u \in Target : Write(w, u)
  BY DEF SyncWrites
<1>3. t = u
  BY <1>1, <1>2
<1>4. QED
  BY <1>1, <1>2, <1>3

(* What is written for a target depends on that target and its item alone. *)
LEMMA SyncWritesStay ==
    ASSUME NEW r, NEW w \in SyncWrites(r),
           \A t \in Target : w[1] = t => item'[t] = item[t] /\ target'[t] = target[t]
    PROVE  w \in SyncWrites(r)'
<1>1. PICK t \in Target :
        \/ Reviewable(t) /\ CurrentItem(t) = None /\ w = <<t, NewItem(r, t)>>
        \/ Reviewable(t) /\ CurrentItem(t) # None /\ w = <<t, RefreshedItem(t)>>
        \/ /\ ~ Reviewable(t) /\ CurrentItem(t) # None /\ CurrentItem(t) # ResolvedItem(t)
           /\ w = <<t, ResolvedItem(t)>>
  BY DEF SyncWrites
<1>2. item'[t] = item[t] /\ target'[t] = target[t]
  BY <1>1
<1>3. CurrentItem(t)' = CurrentItem(t)
  BY <1>2 DEF CurrentItem, Items
<1>4. /\ Reviewable(t)' <=> Reviewable(t)
      /\ NewItem(r, t)' = NewItem(r, t)
      /\ RefreshedItem(t)' = RefreshedItem(t) /\ ResolvedItem(t)' = ResolvedItem(t)
  BY <1>2, <1>3 DEF Reviewable, NewItem, RefreshedItem, ResolvedItem
<1>5. CASE Reviewable(t) /\ CurrentItem(t) = None /\ w = <<t, NewItem(r, t)>>
  <2>1. /\ t \in {u \in Target : Reviewable(u)' /\ CurrentItem(u)' = None}
        /\ w = <<t, NewItem(r, t)'>>
    BY <1>3, <1>4, <1>5
  <2>2. QED
    BY <2>1 DEF SyncWrites
<1>6. CASE Reviewable(t) /\ CurrentItem(t) # None /\ w = <<t, RefreshedItem(t)>>
  <2>1. /\ t \in {u \in Target : Reviewable(u)' /\ CurrentItem(u)' # None}
        /\ w = <<t, RefreshedItem(t)'>>
    BY <1>3, <1>4, <1>6
  <2>2. QED
    BY <2>1 DEF SyncWrites
<1>7. CASE /\ ~ Reviewable(t) /\ CurrentItem(t) # None /\ CurrentItem(t) # ResolvedItem(t)
           /\ w = <<t, ResolvedItem(t)>>
  <2>1. /\ t \in {u \in Target : /\ ~ Reviewable(u)' /\ CurrentItem(u)' # None
                                  /\ CurrentItem(u)' # ResolvedItem(u)'}
        /\ w = <<t, ResolvedItem(t)'>>
    BY <1>3, <1>4, <1>7
  <2>2. QED
    BY <2>1 DEF SyncWrites
<1>8. QED
  BY <1>1, <1>5, <1>6, <1>7

LEMMA SyncStep ==
    ASSUME IInv, SeqInv, NEW r \in Request, Serve(r), Alone(r)
    PROVE  SyncInv'
<1> DEFINE Ready(t) == /\ Reviewable(t) => Items(t) # {}
                       /\ \A i \in Items(t) : Tells(t, item[t][i], target[t])
           Awaited(q) == \A t \in Target : (\A w \in todo[q] : w[1] # t) => Ready(t)
           Covered == \A t \in Target : Reviewable(t) => Items(t) # {}
<1>1. TypeOK /\ \A q \in Request \ {r} : pc'[q] = pc[q] /\ pc[q] \in {"idle", "done", "dead"}
  BY DEF IInv, Alone
<1>2. ASSUME UNCHANGED <<target, item>>
      PROVE  /\ \A t \in Target : (Reviewable(t)' <=> Reviewable(t)) /\ Items(t)' = Items(t)
             /\ \A w \in SyncWrites(r) : w \in SyncWrites(r)'
  BY <1>2, SyncWritesStay DEF Reviewable, Items
<1>3. Covered => Covered'
  <2> SUFFICES ASSUME Covered, NEW t \in Target, Items(t)' = {}, Reviewable(t)'
               PROVE  FALSE
    OBVIOUS
  <2>1. Items(t) = {}
    BY Growth
  <2>2. target'[t].status = target[t].status
    <3>1. CASE WriteTarget(r)
      <4>1. /\ pc[r] \in Holding /\ target' = [target EXCEPT ![op[r].target] = Reviewed(r)]
        BY <3>1 DEF WriteTarget, Holding
      <4>2. op[r].target # t
        BY <2>1, <4>1, HeldItem
      <4>3. QED
        BY <1>1, <4>1, <4>2 DEF TypeOK
    <3>2. CASE AdmitTrade(r)
      <4>1. PICK u : u = op[r].target
        OBVIOUS
      <4>2. /\ u \in Target /\ target[u] \in TargetFile
            /\ \/ target' = [target EXCEPT ![u] = [target[u] EXCEPT !.admitted = TRUE]]
               \/ target' = target
        BY <3>2, <4>1, AdmitFacts
      <4>3. [target[u] EXCEPT !.admitted = TRUE].status = target[u].status
        BY <4>2 DEF TargetFile
      <4>4. QED
        BY <1>1, <4>2, <4>3 DEF TypeOK
    <3>3. CASE ~ WriteTarget(r) /\ ~ AdmitTrade(r)
      BY <3>3 DEF Serve, LoadForSync, WriteSyncedItem, SyncDone, Load, WriteNote,
         DeactivateAssignment, WriteAssignment, WriteDecision, WriteItem, WriteAudit, WriteSummary,
         Raise, files
    <3>4. QED
      BY <3>1, <3>2, <3>3
  <2>3. Reviewable(t)
    BY <2>2, AwaitsReview DEF Reviewable
  <2>4. QED
    BY <2>1, <2>3
<1>4. CASE LoadForSync(r)
  <2>1. /\ pc[r] = "sync" /\ pc'[r] = "refresh" /\ todo'[r] = SyncWrites(r)
        /\ UNCHANGED <<target, item>>
    BY <1>1, <1>4 DEF LoadForSync, files, Goto, TypeOK
  <2>2. ASSUME NEW t \in Target, \A w \in SyncWrites(r) : w[1] # t
        PROVE  Ready(t)
    <3>1. ~ (Reviewable(t) /\ CurrentItem(t) = None)
      <4>1. Reviewable(t) /\ CurrentItem(t) = None => <<t, NewItem(r, t)>> \in SyncWrites(r)
        BY DEF SyncWrites
      <4>2. QED
        BY <2>2, <4>1
    <3>2. ~ (Reviewable(t) /\ CurrentItem(t) # None)
      <4>1. Reviewable(t) /\ CurrentItem(t) # None => <<t, RefreshedItem(t)>> \in SyncWrites(r)
        BY DEF SyncWrites
      <4>2. QED
        BY <2>2, <4>1
    <3>3. ~ Reviewable(t)
      BY <3>1, <3>2
    <3>4. CurrentItem(t) # None => CurrentItem(t) = ResolvedItem(t)
      <4>1. CurrentItem(t) # None /\ CurrentItem(t) # ResolvedItem(t) =>
              <<t, ResolvedItem(t)>> \in SyncWrites(r)
        BY <3>3 DEF SyncWrites
      <4>2. QED
        BY <2>2, <4>1
    <3>5. ASSUME NEW i \in Items(t)
          PROVE  Tells(t, item[t][i], target[t])
      <4>1. CurrentItem(t) = item[t][i] /\ CurrentItem(t) # None
        BY TheOnlyItem DEF SeqInv, QueueInv, QueueOf
      <4>2. PICK y : y = item[t][i]
        OBVIOUS
      <4>3. PICK file : file = target[t].status
        OBVIOUS
      <4>4. y \in ReviewQueueItem
        BY <1>1, <4>2 DEF Items, TypeOK
      <4>5. y = [y EXCEPT !.status = "resolved", !.shown = file,
                          !.escalation = IF @ = "none" THEN "none" ELSE "resolved"]
        BY <3>4, <4>1, <4>2, <4>3 DEF ResolvedItem
      <4>6. y.status = "resolved" /\ y.shown = file
        BY <4>4, <4>5 DEF ReviewQueueItem
      <4>7. QED
        BY <3>3, <4>2, <4>3, <4>6, AwaitsReview DEF Tells
    <3>6. QED
      BY <3>3, <3>5
  <2>3. Awaited(r)'
    <3> SUFFICES ASSUME NEW t \in Target, \A w \in SyncWrites(r) : w[1] # t
                 PROVE  Ready(t)'
      BY <2>1
    <3>1. Ready(t)
      BY <2>2
    <3>2. QED
      BY <1>2, <2>1, <3>1 DEF Tells
  <2>4. todo'[r] \subseteq SyncWrites(r)'
    BY <1>2, <2>1
  <2>5. QED
    BY <1>1, <1>3, <2>1, <2>3, <2>4 DEF SeqInv, SyncInv, Unsynced
<1>5. CASE WriteSyncedItem(r)
  <2>1. PICK w \in todo[r] : /\ item' = [item EXCEPT ![w[1]][w[2].id] = w[2]]
                             /\ todo' = [todo EXCEPT ![r] = @ \ {w}]
    BY <1>5 DEF WriteSyncedItem
  <2>2. pc[r] = "refresh" /\ pc' = pc /\ target' = target /\ todo'[r] = todo[r] \ {w}
    BY <1>1, <1>5, <2>1 DEF WriteSyncedItem, TypeOK
  <2>3. PICK u \in Target :
           /\ w[1] = u /\ w[2].id \in Request /\ w[2] \in ReviewQueueItem
           /\ Tells(u, w[2], target[u]) /\ \A i \in Items(u) : i = w[2].id
    BY <2>2, SyncedItem
  <2>4. w[2] # None
    BY <2>3, NoneAssumption
  <2>5. item'[u][w[2].id] = w[2] /\ \A v \in Target \ {u} : item'[v] = item[v]
    BY <1>1, <2>1, <2>3 DEF TypeOK
  <2>6. Items(u)' # {} /\ \A v \in Target \ {u} : Items(v)' = Items(v)
    BY <2>3, <2>4, <2>5 DEF Items
  <2>7. w \in SyncWrites(r) /\ todo[r] \subseteq SyncWrites(r) /\ Awaited(r)
    BY <2>2 DEF SeqInv, SyncInv
  <2>8. ASSUME NEW v \in todo[r] \ {w}
        PROVE  v \in SyncWrites(r)' /\ v[1] # u
    <3>1. v \in SyncWrites(r) /\ v[1] # u
      BY <2>3, <2>7, OneWritePerTarget
    <3>2. \A t \in Target : v[1] = t => item'[t] = item[t] /\ target'[t] = target[t]
      BY <2>2, <2>5, <3>1
    <3>3. QED
      BY <3>1, <3>2, SyncWritesStay
  <2>9. Awaited(r)'
    <3> SUFFICES ASSUME NEW t \in Target, \A v \in todo'[r] : v[1] # t
                 PROVE  Ready(t)'
      OBVIOUS
    <3>1. CASE t # u
      <4>1. \A v \in todo[r] : v[1] # t
        BY <2>2, <2>3, <3>1
      <4>2. Ready(t)
        BY <2>7, <4>1
      <4>3. /\ Items(t)' = Items(t) /\ item'[t] = item[t] /\ target'[t] = target[t]
            /\ Reviewable(t)' <=> Reviewable(t)
        BY <2>2, <2>5, <2>6, <3>1 DEF Reviewable
      <4>4. QED
        BY <4>2, <4>3 DEF Tells
    <3>2. CASE t = u
      <4>1. \A i \in Items(u)' : i = w[2].id
        BY <2>3, <2>5, <1>1, <2>1 DEF Items, TypeOK
      <4>2. \A i \in Items(u)' : item'[u][i] = w[2] /\ target'[u] = target[u]
        BY <2>2, <2>5, <4>1
      <4>3. QED
        BY <2>3, <2>6, <3>2, <4>2 DEF Tells
    <3>3. QED
      BY <3>1, <3>2
  <2>10. QED
    BY <1>1, <1>3, <2>2, <2>8, <2>9 DEF SeqInv, SyncInv, Unsynced
<1>6. CASE Load(r) \/ SyncDone(r)
  <2>1. pc[r] = "refresh" /\ todo[r] = {} /\ pc'[r] # "refresh"
    <3>1. CASE Load(r)
      BY <3>1, LoadedFacts DEF Load
    <3>2. CASE SyncDone(r)
      BY <1>1, <3>2 DEF SyncDone, Goto, TypeOK
    <3>3. QED
      BY <1>6, <3>1, <3>2
  <2>2. Covered
    BY <2>1 DEF SeqInv, SyncInv
  <2>3. QED
    BY <1>1, <1>3, <2>1, <2>2 DEF SyncInv
<1>7. CASE ~ LoadForSync(r) /\ ~ WriteSyncedItem(r) /\ ~ Load(r) /\ ~ SyncDone(r)
  <2>1. pc[r] \notin Unsynced /\ pc'[r] # "refresh"
    BY <1>1, <1>7 DEF Serve, WriteNote, DeactivateAssignment, WriteAssignment, WriteDecision,
       WriteTarget, WriteItem, WriteAudit, AdmitTrade, WriteSummary, Raise, Goto, TypeOK, Unsynced
  <2>2. Covered
    BY <2>1 DEF SeqInv, SyncInv
  <2>3. QED
    BY <1>1, <1>3, <2>1, <2>2 DEF SyncInv
<1>8. QED
  BY <1>4, <1>5, <1>6, <1>7

LEMMA SeqInit == Init => SeqInv
<1> SUFFICES ASSUME Init PROVE SeqInv
  OBVIOUS
<1>1. \A t \in Target : ~ target[t].admitted
  BY DEF Init
<1>2. \A t \in Target : Items(t) = {} /\ NotesAbout(t) = {} /\ Decided(t) = {}
  BY NoneAssumption DEF Init, Items, NotesAbout, Decided
<1>3. Trade \subseteq Target /\ "succeeded" # None /\ "failed" # None
  BY NoneAssumption DEF Target
<1>4. OneOpen /\ HeldInv /\ NotesInv /\ WrittenInv /\ AssignInv /\ SyncInv
  BY DEF Init, OneOpen, Open, HeldInv, Holding, NotesInv, WrittenInv, AssignInv, SyncInv, Unsynced
<1>5. QueueInv
  BY <1>2 DEF QueueInv, QueueOf
<1>6. OutcomeInv /\ LedgerInv
  BY <1>1, <1>3 DEF Init, OutcomeInv, SummariesTellTheTruth, LedgerInv
<1>7. QED
  BY <1>4, <1>5, <1>6 DEF SeqInv

(* A new request is the only one.                                          *)
LEMMA StartStep ==
    ASSUME Sequential, IInv, SeqInv, NEW r \in Request, NEW o \in Asked, Start(r, o)
    PROVE  SeqInv'
<1>1. /\ pc[r] = "idle" /\ pc'[r] = "sync" /\ UNCHANGED <<files, todo, seen>>
      /\ \A q \in Request \ {r} : pc'[q] = pc[q] /\ op'[q] = op[q]
      /\ TypeOK
  BY DEF Start, Goto, IInv, TypeOK
<1>2. Open = {}
  <2>1. IsFiniteSet(Open)
    BY ReviewAssumption, FS_Subset DEF Open
  <2>2. Cardinality(Open) \in Nat /\ Cardinality(Open) < 1
    BY <2>1, FS_CardinalityType, ReviewAssumption DEF Start, Sequential
  <2>3. QED
    BY <2>1, <2>2, FS_EmptySet
<1>3. OneOpen'
  BY <1>1, <1>2 DEF SeqInv, OneOpen, Open
<1>4. \A q \in Request : pc[q] \in {"idle", "done", "dead"} /\ pc'[q] \in {"idle", "done", "dead", "sync"}
  BY <1>1, <1>2 DEF Open
<1>5. /\ note[r] = None /\ summary[r] = None /\ decision[r] = None /\ audit[r] = None
      /\ UNCHANGED <<target, item, decision, note, assignment, audit, position, summary>>
  BY <1>1 DEF SeqInv, NotesInv, OutcomeInv, files, IInv, RequestsInv, RequestInv, Undecided
<1>6. \A t \in Target : /\ Items(t)' = Items(t) /\ NotesAbout(t)' = NotesAbout(t)
                        /\ Decided(t)' = Decided(t) /\ (Reviewable(t)' <=> Reviewable(t))
                        /\ ~ Busy(t) /\ ~ Busy(t)'
  BY <1>1, <1>4, <1>5 DEF Items, NotesAbout, Decided, Reviewable, Busy
<1>7. QueueInv'
  <2> SUFFICES ASSUME NEW t \in Target PROVE QueueOf(t)'
    BY DEF QueueInv
  <2>1. QueueOf(t)
    BY DEF SeqInv, QueueInv
  <2>2. r \notin Decided(t) /\ r \notin NotesAbout(t)
    BY <1>5, NoneAssumption DEF Decided, NotesAbout
  <2>3. ~ Synced' /\ (Interrupted(t)' <=> Interrupted(t))
    <3>1. Decided(t) \subseteq Request
      BY DEF Decided
    <3>2. \A q \in Decided(t) : pc'[q] = pc[q] /\ audit'[q] = audit[q]
      BY <1>1, <1>5, <2>2, <3>1
    <3>3. Interrupted(t)' <=> Interrupted(t)
      BY <1>6, <3>2 DEF Interrupted
    <3>4. QED
      BY <1>4, <3>3 DEF Synced, Unsynced
  <2>4. /\ \A q \in Decided(t)' : pc'[q] \in Settled => q \in Decided(t) /\ pc[q] \in Settled
        /\ \A q \in NotesAbout(t)' : pc'[q] \in Settled => q \in NotesAbout(t) /\ pc[q] \in Settled
    <3>1. Decided(t) \subseteq Request /\ NotesAbout(t) \subseteq Request
      BY DEF Decided, NotesAbout
    <3>2. QED
      BY <1>1, <1>6, <2>2, <3>1
  <2>5. ~ Busy(t)' /\ (Synced' \/ ~ Interrupted(t)') =>
            /\ target'[t].status = target[t].status
            /\ \A i \in Items(t) : Tells(t, item[t][i], target[t])
    BY <1>5, <1>6, <2>1, <2>3 DEF QueueOf
  <2>6. Items(t) = {} => Decided(t)' = {} /\ NotesAbout(t)' = {}
    BY <1>6, <2>1 DEF QueueOf
  <2>7. QED
    BY <1>5, <1>6, <2>1, <2>4, <2>5, <2>6, QueueKept
<1>8. HeldInv' /\ WrittenInv'
  BY <1>4 DEF HeldInv, WrittenInv, Holding
<1>9. NotesInv'
  <2> SUFFICES ASSUME NEW q \in Request
               PROVE  /\ note[q] # None =>
                           /\ pc'[q] \in {"item", "audit", "done", "dead"}
                           /\ op'[q].kind = "note" /\ note[q] = op'[q].target
                      /\ pc'[q] # "item"
                      /\ decision[q] # None =>
                           op'[q].kind = "action" /\ decision[q].target = op'[q].target
                      /\ pc'[q] \in Undecided \cup {"target", "item", "audit"} => audit[q] = None
    BY <1>5 DEF NotesInv
  <2>1. CASE q = r
    BY <1>4, <1>5, <2>1
  <2>2. CASE q # r
    BY <1>1, <1>4, <2>2 DEF SeqInv, NotesInv
  <2>3. QED
    BY <2>1, <2>2
<1>10. LedgerInv'
  BY <1>1, <1>4, <1>5 DEF SeqInv, LedgerInv, TypeOK
<1>11. OutcomeInv'
  <2>1. SummariesTellTheTruth'
    BY <1>1, <1>5, NoneAssumption DEF SeqInv, OutcomeInv, SummariesTellTheTruth, Items
  <2>2. QED
    BY <1>1, <1>4, <1>5, <2>1 DEF SeqInv, OutcomeInv
<1>12. AssignInv'
  <2>1. \A u : Items(u)' = Items(u)
    BY <1>5 DEF Items
  <2>2. \A a \in Request : pc'[a] # "dead" => pc[a] # "dead"
    BY <1>1
  <2>3. QED
    BY <1>1, <1>4, <1>5, <2>1, <2>2 DEF SeqInv, AssignInv, Assigning
<1>13. SyncInv'
  <2>1. \A q \in Request : pc'[q] \notin Unsynced => pc[q] \notin Unsynced
    BY <1>1 DEF Unsynced
  <2>2. \A q \in Request : pc'[q] # "refresh"
    BY <1>4
  <2>3. QED
    BY <1>6, <2>1, <2>2 DEF SeqInv, SyncInv
<1>14. QED
  BY <1>3, <1>7, <1>8, <1>9, <1>10, <1>11, <1>12, <1>13 DEF SeqInv

(* A death leaves behind what the request that was served had not written  *)
(* yet: only a review that died on its way to the item makes the item and  *)
(* the target differ.                                                      *)
LEMMA DeathStep ==
    ASSUME IInv, SeqInv, Die
    PROVE  SeqInv'
<1>1. /\ TypeOK /\ UNCHANGED <<target, item, decision, note, assignment, audit, position, summary,
                               op, todo, seen>>
      /\ \A q \in Request : pc'[q] = IF q \in Open THEN "dead" ELSE pc[q]
  BY DEF Die, files, IInv
<1>2. \A q \in Request : pc'[q] \in {"idle", "done", "dead"}
  BY <1>1 DEF Open
<1>3. \A t \in Target : /\ Items(t)' = Items(t) /\ NotesAbout(t)' = NotesAbout(t)
                        /\ Decided(t)' = Decided(t) /\ (Reviewable(t)' <=> Reviewable(t))
  BY <1>1 DEF Items, NotesAbout, Decided, Reviewable
<1>4. QueueInv'
  <2> SUFFICES ASSUME NEW t \in Target PROVE QueueOf(t)'
    BY DEF QueueInv
  <2>1. QueueOf(t)
    BY DEF SeqInv, QueueInv
  <2>2. /\ \A q \in Decided(t)' : pc'[q] \in Settled => q \in Decided(t) /\ pc[q] \in Settled
        /\ \A q \in NotesAbout(t)' : pc'[q] \in Settled => q \in NotesAbout(t) /\ pc[q] \in Settled
    <3>1. Decided(t) \subseteq Request /\ NotesAbout(t) \subseteq Request
      BY DEF Decided, NotesAbout
    <3>2. QED
      BY <1>1, <1>3, <3>1 DEF Settled
  <2>3. ~ Synced'
    BY <1>2 DEF Synced, Unsynced
  <2>4. ASSUME ~ Interrupted(t)'
        PROVE  \A i \in Items(t) : Tells(t, item[t][i], target[t])
    <3>1. ~ Interrupted(t)
      <4>1. Decided(t) \subseteq Request
        BY DEF Decided
      <4>2. QED
        BY <1>1, <1>3, <2>4, <4>1 DEF Interrupted, Open
    <3>2. CASE ~ Busy(t)
      BY <2>1, <3>1, <3>2 DEF QueueOf
    <3>3. CASE Busy(t)
      <4>1. PICK r \in Request : pc[r] = "item" /\ op[r].target = t
        BY <3>3 DEF Busy
      <4>2. pc[r] \in Holding /\ RequestInv(r) /\ r \in Open /\ audit[r] = None
        BY <4>1 DEF Holding, IInv, RequestsInv, Open, SeqInv, NotesInv
      <4>3. op[r].kind # "action"
        <5> SUFFICES ASSUME op[r].kind = "action" PROVE FALSE
          OBVIOUS
        <5>1. decision[r] = [target |-> t, outcome |-> op[r].outcome]
          BY <4>1, <4>2 DEF RequestInv, Deciding
        <5>2. op[r] \in Operation
          BY <4>2, HeldItem
        <5>3. decision[r] \in ReviewDecision
          BY <5>1, <5>2, OperationTyped DEF ReviewDecision
        <5>4. r \in Decided(t)
          BY <5>1, <5>3, NoneAssumption DEF Decided
        <5>5. QED
          BY <1>1, <1>3, <2>4, <4>2, <5>4 DEF Interrupted
      <4>4. /\ item[t][seen[r].item.id] = seen[r].item
            /\ Tells(t, seen[r].item, seen[r].target) /\ target[t] = seen[r].target
        BY <4>1, <4>2, <4>3 DEF SeqInv, HeldInv
      <4>5. \A i \in Items(t) : i = seen[r].item.id
        BY <4>1, <4>2, HeldItem
      <4>6. QED
        BY <4>4, <4>5
    <3>4. QED
      BY <3>2, <3>3
  <2>5. ~ Busy(t)' /\ (Synced' \/ ~ Interrupted(t)') =>
            /\ target'[t].status = target[t].status
            /\ \A i \in Items(t) : Tells(t, item[t][i], target[t])
    BY <1>1, <2>3, <2>4
  <2>6. Items(t) = {} => Decided(t)' = {} /\ NotesAbout(t)' = {}
    BY <1>3, <2>1 DEF QueueOf
  <2>7. QED
    BY <1>1, <1>3, <2>1, <2>2, <2>5, <2>6, QueueKept
<1>5. OneOpen'
  BY <1>2 DEF OneOpen, Open
<1>6. HeldInv' /\ WrittenInv' /\ SyncInv'
  <2>1. HeldInv' /\ WrittenInv'
    BY <1>2 DEF HeldInv, WrittenInv, Holding
  <2>2. \A q \in Request : pc'[q] \notin Unsynced => pc[q] \notin Unsynced
    BY <1>1 DEF Unsynced
  <2>3. \A q \in Request : pc'[q] # "refresh"
    BY <1>2
  <2>4. QED
    BY <1>3, <2>1, <2>2, <2>3 DEF SeqInv, SyncInv
<1>7. NotesInv'
  <2>1. \A q \in Request : pc'[q] \in Undecided \cup {"target", "item", "audit"} => pc'[q] = pc[q]
    BY <1>1 DEF Undecided
  <2>2. QED
    BY <1>1, <1>2, <2>1 DEF SeqInv, NotesInv, Open
<1>8. OutcomeInv'
  <2>1. SummariesTellTheTruth'
    <3>1. \A t : Items(t)' = Items(t)
      BY <1>1 DEF Items
    <3>2. QED
      BY <1>1, <3>1 DEF SeqInv, OutcomeInv, SummariesTellTheTruth
  <2>2. QED
    BY <1>1, <1>2, <2>1 DEF SeqInv, OutcomeInv, Open
<1>9. LedgerInv'
  BY <1>1 DEF SeqInv, LedgerInv, Open, TypeOK
<1>10. AssignInv'
  <2> SUFFICES ASSUME NEW a \in Request, pc'[a] # "dead", assignment[a] # None, assignment[a].active
               PROVE  \E i \in Items(assignment[a].target) :
                         item[assignment[a].target][i].assignment = a
    <3>1. \A t : Items(t)' = Items(t)
      BY <1>1 DEF Items
    <3>2. QED
      BY <1>1, <1>2, <3>1 DEF AssignInv
  <2>1. pc[a] # "dead" /\ pc[a] # "item"
    BY <1>1 DEF Open
  <2>2. QED
    BY <2>1 DEF SeqInv, AssignInv
<1>11. QED
  BY <1>4, <1>5, <1>6, <1>7, <1>8, <1>9, <1>10 DEF SeqInv

LEMMA SeqStep ==
    ASSUME Sequential, IInv, IInv', SeqInv, [Next]_vars
    PROVE  SeqInv'
<1>1. ASSUME NEW r \in Request, Serve(r)
      PROVE  SeqInv'
  <2>1. Alone(r) /\ OneOpen'
    BY <1>1, ServedAlone DEF SeqInv
  <2>2. QED
    BY <1>1, <2>1, QueueStep, HeldStep, NotesStep, WrittenStep, OutcomeStep, LedgerStep,
       AssignStep, SyncStep DEF SeqInv
<1>2. CASE \E r \in Request, o \in Asked : Start(r, o)
  BY <1>2, StartStep
<1>3. CASE Die
  BY <1>3, DeathStep
<1>4. CASE UNCHANGED vars
  <2>1. UNCHANGED <<target, item, decision, note, assignment, audit, position, summary, pc, op,
                    todo, seen>>
    BY <1>4 DEF vars, files
  <2>2. OneOpen' /\ NotesInv' /\ LedgerInv'
    BY <2>1 DEF SeqInv, OneOpen, Open, NotesInv, LedgerInv
  <2>3. /\ \A t : /\ Items(t)' = Items(t) /\ NotesAbout(t)' = NotesAbout(t)
                  /\ Decided(t)' = Decided(t)
        /\ \A t : (Reviewable(t)' <=> Reviewable(t)) /\ (Busy(t)' <=> Busy(t))
        /\ \A r : Reviewed(r)' = Reviewed(r)
        /\ Synced' <=> Synced
    BY <2>1 DEF Items, NotesAbout, Decided, Reviewable, Busy, Reviewed, Synced
  <2>4. QueueInv'
    <3> SUFFICES ASSUME NEW t \in Target PROVE QueueOf(t)'
      BY DEF QueueInv
    <3>1. QueueOf(t)
      BY DEF SeqInv, QueueInv
    <3>2. Interrupted(t)' <=> Interrupted(t)
      BY <2>1, <2>3 DEF Interrupted
    <3>3. /\ ~ Busy(t)' /\ (Synced' \/ ~ Interrupted(t)') =>
                \A i \in Items(t) : Tells(t, item[t][i], target[t])
          /\ Items(t) = {} => Decided(t)' = {} /\ NotesAbout(t)' = {}
      BY <2>3, <3>1, <3>2 DEF QueueOf
    <3>4. QED
      BY <2>1, <2>3, <3>1, <3>3, QueueKept
  <2>5. HeldInv' /\ WrittenInv' /\ OutcomeInv' /\ AssignInv'
    BY <2>1, <2>3, SMTT(40) DEF SeqInv, HeldInv, WrittenInv, OutcomeInv, SummariesTellTheTruth,
                      AssignInv, Assigning, Tells
  <2>6. SyncInv'
    <3>1. \A r \in Request : \A w \in SyncWrites(r) : w \in SyncWrites(r)'
      BY <2>1, SyncWritesStay
    <3>2. QED
      BY <2>1, <2>3, <3>1 DEF SeqInv, SyncInv, Tells
  <2>7. QED
    BY <2>2, <2>4, <2>5, <2>6 DEF SeqInv
<1>5. QED
  BY <1>1, <1>2, <1>3, <1>4 DEF Next

LEMMA SeqInvariance == ASSUME Sequential PROVE Spec => [](IInv /\ SeqInv)
<1>1. IInv /\ SeqInv /\ [Next]_vars => (IInv /\ SeqInv)'
  <2>1. IInv /\ [Next]_vars => IInv'
    BY TypeStep, FilesStep, ItemsStep, RequestsStep, PositionStep DEF IInv
  <2>2. QED
    BY <2>1, SeqStep
<1>2. Init => IInv /\ SeqInv
  BY InitEstablishes, SeqInit
<1>3. QED
  BY <1>1, <1>2, PTL DEF Spec

(* As long as requests are served one after the other, whichever of them   *)
(* die, the items record what was decided and noted and nothing else, and  *)
(* agree with the targets whenever no review was interrupted and after     *)
(* every sync; no target has two items and every target that awaits review *)
(* has one; no item has two active assignees; and what a review was told   *)
(* it did is what is on file: the second load reads what the sync has just *)
(* written, and nothing but the request's own writes comes in between.     *)
THEOREM QueueIsRight == ASSUME Sequential PROVE Spec => []QueueAgreesWithFiles
<1>1. IInv /\ SeqInv => QueueAgreesWithFiles
  <2> SUFFICES ASSUME IInv, SeqInv PROVE QueueAgreesWithFiles
    OBVIOUS
  <2>1. QueueTellsTheTruth
    <3> SUFFICES ASSUME NEW t \in Target, NEW i \in Items(t),
                        (Open = {} /\ ~ Interrupted(t)) \/ (\E r \in Request : Refreshed(r))
                 PROVE  Tells(t, item[t][i], target[t])
      BY AwaitsReview DEF QueueTellsTheTruth, Tells
    <3>1. QueueOf(t)
      BY DEF SeqInv, QueueInv
    <3>2. CASE Open = {} /\ ~ Interrupted(t)
      BY <3>1, <3>2 DEF QueueOf, Open, Busy
    <3>3. ASSUME NEW r \in Request, pc[r] = "refresh", todo[r] = {}
          PROVE  Tells(t, item[t][i], target[t])
      BY <3>3 DEF SeqInv, SyncInv
    <3>4. ASSUME NEW r \in Request, pc[r] \in {"note", "unassign", "assign", "decision"}
          PROVE  Tells(t, item[t][i], target[t])
      <4>1. ~ Busy(t) /\ Synced
        BY <3>4 DEF SeqInv, OneOpen, Open, Busy, Synced, Unsynced
      <4>2. QED
        BY <3>1, <4>1 DEF QueueOf
    <3>5. QED
      BY <3>2, <3>3, <3>4 DEF Refreshed
  <2>2. OneItemPerTarget
    <3>1. ASSUME NEW t \in Target
          PROVE  Cardinality(Items(t)) <= 1
      <4>1. CASE Items(t) = {}
        BY <4>1, FS_EmptySet
      <4>2. CASE Items(t) # {}
        <5>1. PICK i \in Items(t) : Items(t) = {i}
          BY <4>2 DEF SeqInv, QueueInv, QueueOf
        <5>2. QED
          BY <5>1, FS_Singleton
      <4>3. QED
        BY <4>1, <4>2
    <3>2. Served # {} => \A t \in Target : Reviewable(t) => Items(t) # {}
      BY DEF Served, SeqInv, SyncInv, Unsynced
    <3>3. QED
      BY <3>1, <3>2 DEF OneItemPerTarget
  <2>3. OneActiveAssignee
    <3>1. ASSUME NEW r \in Served, assignment[r] # None, assignment[r].active
          PROVE  /\ assignment[r].target \in Target
                 /\ \E i \in Items(assignment[r].target) :
                       item[assignment[r].target][i].assignment = r
      BY <3>1 DEF Served, IInv, TypeOK, ReviewAssignment, SeqInv, AssignInv
    <3> SUFFICES ASSUME NEW r \in Served, NEW s \in Served, r # s,
                        assignment[r] # None, assignment[s] # None,
                        assignment[r].active, assignment[s].active,
                        assignment[r].target = assignment[s].target
                 PROVE  FALSE
      BY <3>1 DEF OneActiveAssignee
    <3> DEFINE t == assignment[r].target
    <3>2. t \in Target /\ \A i, j \in Items(t) : j = i
      BY <3>1 DEF SeqInv, QueueInv, QueueOf
    <3>3. /\ \E i \in Items(t) : item[t][i].assignment = r
          /\ \E i \in Items(t) : item[t][i].assignment = s
      BY <3>1
    <3>4. QED
      BY <3>2, <3>3
  <2>4. SummariesTellTheTruth
    BY DEF SeqInv, OutcomeInv
  <2>5. ItemsRecordTheWork
    <3> SUFFICES ASSUME NEW t \in Target, NEW i \in Items(t), NEW x, x = item[t][i]
                 PROVE  /\ Decided(t) \cap Served \subseteq x.decisions
                        /\ x.decisions \subseteq Decided(t)
                        /\ Lists(t) => x.decisions \subseteq target[t].decisions
                        /\ NotesAbout(t) \cap Served \subseteq x.notes
                        /\ x.notes \subseteq NotesAbout(t)
                        /\ x.status = "escalated" <=> x.escalation = "requested"
                        /\ x.escalation = "none" <=>
                             \A r \in x.decisions : decision[r].outcome # "escalate"
      BY DEF ItemsRecordTheWork
    <3>1. Records(t, x)
      BY DEF SeqInv, QueueInv, QueueOf
    <3>2. \A r \in Served : pc[r] \in Settled
      BY DEF Served, Settled
    <3>3. QED
      BY <3>1, <3>2 DEF Records
  <2>6. QED
    BY <2>1, <2>2, <2>3, <2>4, <2>5 DEF QueueAgreesWithFiles
<1>2. QED
  BY <1>1, SeqInvariance, PTL

(* And then a trade becomes approved only while its proposal is approved   *)
(* and unblocked: the request has seen the proposal as it still is.        *)
THEOREM TradesFollowTheirProposals == ASSUME Sequential PROVE Spec => TradeApprovalsHaveParents
<1> DEFINE A == \A t \in Trade :
         target'[t].status = "approved" /\ target[t].status # "approved" =>
             target[Parent[t]].status = "approved" /\ ~ target[Parent[t]].blocked
<1>1. IInv /\ SeqInv /\ [Next]_vars => A
  <2> SUFFICES ASSUME IInv, SeqInv, [Next]_vars, NEW t \in Trade,
                      target'[t].status = "approved", target[t].status # "approved"
               PROVE  target[Parent[t]].status = "approved" /\ ~ target[Parent[t]].blocked
    BY SMTT(40)
  <2>1. PICK r \in Request : WriteTarget(r) \/ AdmitTrade(r)
    BY DEF Next, vars, files, Start, Die, Serve, LoadForSync, WriteSyncedItem, SyncDone, Load,
       WriteNote, DeactivateAssignment, WriteAssignment, WriteDecision, WriteItem, WriteAudit,
       WriteSummary, Raise
  <2>2. TypeOK /\ t \in Target
    BY DEF IInv, Target
  <2>3. ~ AdmitTrade(r)
    <3> SUFFICES ASSUME AdmitTrade(r) PROVE FALSE
      OBVIOUS
    <3>1. PICK u : u = op[r].target
      OBVIOUS
    <3>2. /\ u \in Target /\ target[u] \in TargetFile
          /\ \/ target' = [target EXCEPT ![u] = [target[u] EXCEPT !.admitted = TRUE]]
             \/ target' = target
      BY <3>1, AdmitFacts
    <3>3. [target[u] EXCEPT !.admitted = TRUE].status = target[u].status
      BY <3>2 DEF TargetFile
    <3>4. QED
      BY <2>2, <3>2, <3>3 DEF TypeOK
  <2>4. /\ pc[r] = "target" /\ pc[r] \in Holding
        /\ target' = [target EXCEPT ![op[r].target] = Reviewed(r)]
    BY <2>1, <2>3 DEF WriteTarget, Holding
  <2>5. op[r].target = t /\ Reviewed(r).status = "approved"
    BY <2>2, <2>4 DEF TypeOK
  <2>6. /\ op[r] \in Operation /\ op[r].kind = "action" /\ op[r].outcome \in ReviewOutcome
        /\ seen[r].target \in TargetFile /\ RequestInv(r)
    BY <2>4, OperationTyped DEF IInv, RequestsInv, RequestInv, Loaded, GoodFile
  <2>7. Reviewed(r).status = StatusAfter(t, op[r].outcome, seen[r].target.status)
    BY <2>5, <2>6 DEF Reviewed, TargetFile
  <2>8. op[r].outcome = "approve"
    BY <2>5, <2>6, <2>7, TypesAreDisjoint DEF StatusAfter, ReviewOutcome
  <2>9. seen[r].parent = target[Parent[t]]
    BY <2>4, <2>5 DEF SeqInv, HeldInv
  <2>10. MayApprove(t, seen[r].target, seen[r].parent)
    BY <2>4, <2>5, <2>6, <2>8 DEF RequestInv, Deciding
  <2>11. QED
    BY <2>9, <2>10 DEF MayApprove
<1>2. QED
  BY <1>1, SeqInvariance, PTL DEF Spec, TradeApprovalsHaveParents

(* And then no trade is admitted to the ledger twice: the request has seen *)
(* whether the trade has a position.                                       *)
THEOREM TradesAreAdmittedOnce == ASSUME Sequential PROVE Spec => AdmittedOnce
<1> DEFINE A == \A t \in Trade : position[t] # None => position'[t] = position[t]
<1>1. IInv /\ SeqInv /\ [Next]_vars => A
  <2> SUFFICES ASSUME IInv, SeqInv, [Next]_vars PROVE A
    OBVIOUS
  <2>1. CASE \E r \in Request : Serve(r)
    BY <2>1, ServedAlone, Growth DEF SeqInv
  <2>2. CASE ~ \E r \in Request : Serve(r)
    BY <2>2 DEF Next, vars, files, Start, Die
  <2>3. QED
    BY <2>1, <2>2
<1>2. QED
  BY <1>1, SeqInvariance, PTL DEF Spec, AdmittedOnce
=============================================================================
