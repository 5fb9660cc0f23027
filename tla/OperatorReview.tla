---------------------------- MODULE OperatorReview ----------------------------
(***************************************************************************)
(* The operator review queue (services/operator_review/service.py) over    *)
(* the files of the reviewable artifacts and of the review itself.         *)
(*                                                                         *)
(* The API runs every request on a thread of its own and nothing locks the *)
(* files.  A request loads all of them and refreshes the queue, loads them *)
(* again, validates against that snapshot, and then writes its artifacts   *)
(* one by one, each file whole and from the snapshot.  A request is known  *)
(* by the ids it makes up, so that Request also names notes, decisions,    *)
(* assignments and the queue items a request creates.                      *)
(***************************************************************************)
EXTENDS Integers, FiniteSets

CONSTANTS
    Brief, Signal, Proposal, Trade,  \* the reviewable artifacts of each type
    Parent,      \* the proposal of every trade
    Request,     \* requests, each made once; the order is that of file names
    Asked,       \* the operations that are asked for; bounds the requests
    MaxOpen,     \* bounds the requests that are served at the same time
    MayDie,      \* TRUE: the process may die with its requests unfinished
    None

Target == Brief \cup Signal \cup Proposal \cup Trade
ReviewOutcome == {"approve", "reject", "needs_revision", "escalate"}
ReviewQueueStatus == {"pending_review", "in_review", "awaiting_revision", "resolved",
                      "escalated"}
EscalationStatus == {"none", "requested", "resolved"}

StatusOf(t) ==
    CASE t \in Brief -> {"pending_human_review", "revision_requested",
                         "approved_for_feature_work", "rejected"}
      [] t \in Signal -> {"candidate", "approved", "rejected"}
      [] t \in Proposal -> {"pending_review", "draft", "approved", "rejected"}
      [] OTHER -> {"proposed", "approved", "rejected"}
TargetStatus == UNION {StatusOf(t) : t \in Target}

(* Only proposals and trades have a list of the decisions about them; for  *)
(* a brief or a signal the decision files and the queue item are all that  *)
(* says who decided.                                                       *)
Lists(t) == t \in Proposal \cup Trade

(* What keeps a target from being approved: a brief without enough         *)
(* evidence, a signal without validation, lineage or uncertainties, a      *)
(* proposal with blocking issues or risk checks.                           *)
TargetFile == [status : TargetStatus, blocked : BOOLEAN, decisions : SUBSET Request,
               admitted : BOOLEAN]

ReviewDecision == [target : Target, outcome : ReviewOutcome]
ReviewAssignment == [target : Target, item : Request, active : BOOLEAN]
ReviewQueueItem == [id : Request, status : ReviewQueueStatus, shown : TargetStatus,
                    escalation : EscalationStatus, decisions : SUBSET Request,
                    notes : SUBSET Request, assignment : Request \cup {None}]
AuditLog == [target : Target, before : TargetStatus \cup ReviewQueueStatus,
             after : TargetStatus \cup ReviewQueueStatus]

(* What can be asked for; only a review action has an outcome, and its     *)
(* blocking issues only matter when the target is a proposal.              *)
Operation ==
    {o \in [kind : {"sync", "note", "assign", "action"}, target : Target,
            outcome : ReviewOutcome, issues : BOOLEAN] :
        /\ o.kind # "action" => o.outcome = "approve"
        /\ o.issues => o.kind = "action" /\ o.target \in Proposal
        /\ o.kind = "sync" => o.target = CHOOSE t \in Target : TRUE}

ASSUME ReviewAssumption ==
    /\ Request \subseteq Nat /\ IsFiniteSet(Request)
    /\ Parent \in [Trade -> Proposal]
    /\ Asked \subseteq Operation
    /\ MaxOpen \in Nat /\ MayDie \in BOOLEAN

ASSUME TypesAreDisjoint ==
    /\ Brief \cap (Signal \cup Proposal \cup Trade) = {}
    /\ Signal \cap (Proposal \cup Trade) = {} /\ Proposal \cap Trade = {}

ASSUME NoneAssumption ==
    None \notin Target \cup Request \cup ReviewDecision \cup ReviewAssignment \cup
                  ReviewQueueItem \cup AuditLog \cup {"succeeded", "failed"}

VARIABLES
    target,      \* research_briefs/, signals/, portfolio_proposals/, paper_trades/
    item,        \* queue_items/, by target and by the request that created it
    decision, note, assignment,  \* review_decisions/, review_notes/, review_assignments/
    audit,       \* audit_logs/ of the requests, one per request
    position,    \* paper_position_states/ : the request that admitted the trade
    summary,     \* run_summaries/ of the review actions
    pc, op,      \* where a request is and what it asks for
    todo,        \* the queue items its sync has still to write
    seen         \* what it knows of its target from its second load

files == <<target, item, decision, note, assignment, audit, position, summary>>
vars == <<files, pc, op, todo, seen>>

Snapshot == [target : TargetFile, parent : TargetFile \cup {None},
             item : ReviewQueueItem, assigned : BOOLEAN]
Control == {"idle", "sync", "refresh", "note", "unassign", "assign", "decision", "target",
            "item", "audit", "admit", "summary", "raise", "done", "dead"}

TypeOK ==
    /\ target \in [Target -> TargetFile]
    /\ \A t \in Target : target[t].status \in StatusOf(t)
    /\ item \in [Target -> [Request -> ReviewQueueItem \cup {None}]]
    /\ decision \in [Request -> ReviewDecision \cup {None}]
    /\ note \in [Request -> Target \cup {None}]
    /\ assignment \in [Request -> ReviewAssignment \cup {None}]
    /\ audit \in [Request -> AuditLog \cup {None}]
    /\ position \in [Trade -> Request \cup {None}]
    /\ summary \in [Request -> {"succeeded", "failed", None}]
    /\ pc \in [Request -> Control]
    /\ op \in [Request -> Asked \cup {None}]
    /\ todo \in [Request -> SUBSET (Target \X ReviewQueueItem)]
    /\ seen \in [Request -> Snapshot \cup {None}]

(* What the pipelines leave for review.  A proposal that has trades was     *)
(* approved once and is under review again, by requests before these.      *)
Submitted(t) ==
    CASE t \in Brief -> {"pending_human_review"}
      [] t \in Signal -> {"candidate"}
      [] t \in Proposal -> {"pending_review", "draft"}
      [] OTHER -> {"proposed"}

Init ==
    /\ target \in [Target -> [status : TargetStatus, blocked : BOOLEAN,
                              decisions : {{}}, admitted : {FALSE}]]
    /\ \A t \in Target : /\ target[t].status \in Submitted(t)
                         /\ t \in Trade => ~ target[t].blocked
    /\ item = [t \in Target |-> [r \in Request |-> None]]
    /\ decision = [r \in Request |-> None]
    /\ note = [r \in Request |-> None]
    /\ assignment = [r \in Request |-> None]
    /\ audit = [r \in Request |-> None]
    /\ position = [t \in Trade |-> None]
    /\ summary = [r \in Request |-> None]
    /\ pc = [r \in Request |-> "idle"]
    /\ op = [r \in Request |-> None]
    /\ todo = [r \in Request |-> {}]
    /\ seen = [r \in Request |-> None]

-----------------------------------------------------------------------------
(* The transitions of targets and queue items.                             *)

Reviewable(t) ==
    LET status == target[t].status IN
    CASE t \in Brief -> status \in {"pending_human_review", "revision_requested"}
      [] t \in Signal -> status = "candidate"
      [] t \in Proposal -> status \in {"pending_review", "draft"}
      [] OTHER -> status = "proposed"

\* Mutant: every approval sets the status of an approved brief.
ApprovedAsResearch(t) == "approved_for_feature_work"

Approved(t) == IF t \in Brief THEN "approved_for_feature_work" ELSE "approved"

(* Escalation leaves research and signals as they are.                     *)
StatusAfter(t, outcome, status) ==
    CASE outcome = "approve" -> Approved(t)
      [] outcome = "reject" -> "rejected"
      [] outcome = "needs_revision" ->
           (CASE t \in Brief -> "revision_requested" [] t \in Signal -> "candidate"
              [] t \in Proposal -> "draft" [] OTHER -> "proposed")
      [] OTHER ->
           (CASE t \in Proposal -> "pending_review" [] t \in Trade -> "proposed"
              [] OTHER -> status)

\* Mutant: a rejection leaves its item waiting for review.
QueueStatusAfterRejectionPends(outcome) ==
    CASE outcome = "approve" -> "resolved"
      [] outcome = "escalate" -> "escalated"
      [] OTHER -> "awaiting_revision"

QueueStatusAfter(outcome) ==
    CASE outcome \in {"approve", "reject"} -> "resolved"
      [] outcome = "needs_revision" -> "awaiting_revision"
      [] OTHER -> "escalated"

EscalationAfter(outcome, escalation) ==
    IF outcome = "escalate" THEN "requested"
    ELSE IF escalation = "none" THEN "none" ELSE "resolved"

(* The queue item a load finds for a target: of several, the one whose     *)
(* file name comes last.                                                   *)
Items(t) == {i \in Request : item[t][i] # None}
CurrentItem(t) ==
    IF Items(t) = {} THEN None
    ELSE item[t][CHOOSE i \in Items(t) : \A j \in Items(t) : j <= i]

(* What a sync makes of a target it finds: an item for one that awaits     *)
(* review without resolving it, and a resolved item for one that does not. *)
NewItem(r, t) ==
    [id |-> r, status |-> "pending_review", shown |-> target[t].status,
     escalation |-> "none", decisions |-> {}, notes |-> {}, assignment |-> None]

SyncStatus(status) ==
    IF status = "resolved" THEN "pending_review" ELSE status

RefreshedItem(t) ==
    [CurrentItem(t) EXCEPT !.status = SyncStatus(@), !.shown = target[t].status]
ResolvedItem(t) ==
    [CurrentItem(t) EXCEPT !.status = "resolved", !.shown = target[t].status,
                           !.escalation = IF @ = "none" THEN "none" ELSE "resolved"]

(* An item that awaits review is written by every sync: its provenance     *)
(* carries the time of the sync, and only updated_at is left out of the    *)
(* comparison with the existing item.                                      *)
SyncWrites(r) ==
    {<<t, NewItem(r, t)>> : t \in {u \in Target : Reviewable(u) /\ CurrentItem(u) = None}}
      \cup {<<t, RefreshedItem(t)>> : t \in {u \in Target : Reviewable(u) /\ CurrentItem(u) # None}}
      \cup {<<t, ResolvedItem(t)>> :
              t \in {u \in Target : /\ ~ Reviewable(u) /\ CurrentItem(u) # None
                                    /\ CurrentItem(u) # ResolvedItem(u)}}

-----------------------------------------------------------------------------
(* The requests.                                                           *)

Open == {r \in Request : pc[r] \notin {"idle", "done", "dead"}}

Goto(r, where) == pc' = [pc EXCEPT ![r] = where]

Start(r, o) ==
    /\ pc[r] = "idle" /\ Cardinality(Open) < MaxOpen
    /\ op' = [op EXCEPT ![r] = o]
    /\ Goto(r, "sync")
    /\ UNCHANGED <<files, todo, seen>>

(* sync_review_queue, part of every request: one load, then its writes.    *)
LoadForSync(r) ==
    /\ pc[r] = "sync"
    /\ todo' = [todo EXCEPT ![r] = SyncWrites(r)]
    /\ Goto(r, "refresh")
    /\ UNCHANGED <<files, op, seen>>

(* The items are written one by one: those of the targets that await       *)
(* review, the newest first, then the resolved ones.  A trade is created   *)
(* after its proposal, a proposal after its signals, these after a brief.  *)
WriteOrder(w) ==
    IF w[2].status = "resolved" THEN 4
    ELSE CASE w[1] \in Trade -> 0 [] w[1] \in Proposal -> 1 [] w[1] \in Signal -> 2 [] OTHER -> 3

WriteSyncedItem(r) ==
    /\ pc[r] = "refresh"
    /\ \E w \in todo[r] :
         /\ \A v \in todo[r] : WriteOrder(w) <= WriteOrder(v)
         /\ item' = [item EXCEPT ![w[1]][w[2].id] = w[2]]
         /\ todo' = [todo EXCEPT ![r] = @ \ {w}]
    /\ UNCHANGED <<target, decision, note, assignment, audit, position, summary, pc, op, seen>>

\* Mutant: the parent proposal of a trade is not looked at.
MayApproveWithoutParent(t, file, parent) == t \in Trade \/ ~ file.blocked

\* Mutant: only the status of the parent proposal is looked at.
MayApproveBlocked(t, file, parent) == t \in Trade => parent.status = "approved"

\* Mutant: only trades are validated.
MayApproveAnyButTrades(t, file, parent) ==
    t \in Trade => parent.status = "approved" /\ ~ parent.blocked

(* _validate_review_action; only approvals are validated.                  *)
MayApprove(t, file, parent) ==
    IF t \in Trade THEN parent.status = "approved" /\ ~ parent.blocked ELSE ~ file.blocked

(* The second load.  A target without a queue item, an approval the        *)
(* target does not allow and one that carries blocking issues raise.       *)
Load(r) ==
    LET t == op[r].target
        file == target[t]
        parent == IF t \in Trade THEN target[Parent[t]] ELSE None
        current == CurrentItem(t)
        accepted == /\ current # None
                    /\ op[r].kind = "action" /\ op[r].outcome = "approve" =>
                         MayApprove(t, file, parent) /\ ~ op[r].issues
        assigned == current.assignment # None /\ assignment[current.assignment].active
    IN  /\ pc[r] = "refresh" /\ todo[r] = {} /\ op[r].kind # "sync"
        /\ IF accepted
             THEN /\ seen' = [seen EXCEPT ![r] = [target |-> file, parent |-> parent,
                                                  item |-> current, assigned |-> assigned]]
                  /\ Goto(r, CASE op[r].kind = "note" -> "note"
                               [] op[r].kind = "action" -> "decision"
                               [] OTHER -> IF assigned THEN "unassign" ELSE "assign")
             ELSE Goto(r, "raise") /\ UNCHANGED seen
        /\ UNCHANGED <<files, op, todo>>

(* A plain sync is done with its last write.                               *)
SyncDone(r) ==
    /\ pc[r] = "refresh" /\ todo[r] = {} /\ op[r].kind = "sync"
    /\ Goto(r, "done")
    /\ UNCHANGED <<files, op, todo, seen>>

WriteNote(r) ==
    /\ pc[r] = "note"
    /\ note' = [note EXCEPT ![r] = op[r].target]
    /\ Goto(r, "item")
    /\ UNCHANGED <<target, item, decision, assignment, audit, position, summary,
                   op, todo, seen>>

Unassigned(a) == [a EXCEPT !.active = FALSE]

DeactivateAssignment(r) ==
    /\ pc[r] = "unassign"
    /\ assignment' = [assignment EXCEPT ![seen[r].item.assignment] = Unassigned(@)]
    /\ Goto(r, "assign")
    /\ UNCHANGED <<target, item, decision, note, audit, position, summary,
                   op, todo, seen>>

WriteAssignment(r) ==
    /\ pc[r] = "assign"
    /\ assignment' = [assignment EXCEPT ![r] = [target |-> op[r].target,
                                                item |-> seen[r].item.id, active |-> TRUE]]
    /\ Goto(r, "item")
    /\ UNCHANGED <<target, item, decision, note, audit, position, summary,
                   op, todo, seen>>

WriteDecision(r) ==
    /\ pc[r] = "decision"
    /\ decision' = [decision EXCEPT ![r] = [target |-> op[r].target, outcome |-> op[r].outcome]]
    /\ Goto(r, "target")
    /\ UNCHANGED <<target, item, note, assignment, audit, position, summary,
                   op, todo, seen>>

\* Mutant: proposals and trades do not list the decision either.
ReviewedWithoutDecision(r) ==
    [seen[r].target EXCEPT
        !.status = StatusAfter(op[r].target, op[r].outcome, @),
        !.blocked = @ \/ op[r].issues]

(* The target as the decision leaves it: a brief and a signal change only  *)
(* their status, and a refusal can add blocking issues to a proposal.      *)
Reviewed(r) ==
    [seen[r].target EXCEPT
        !.status = StatusAfter(op[r].target, op[r].outcome, @),
        !.blocked = @ \/ op[r].issues,
        !.decisions = IF Lists(op[r].target) THEN @ \cup {r} ELSE @]

WriteTarget(r) ==
    /\ pc[r] = "target"
    /\ target' = [target EXCEPT ![op[r].target] = Reviewed(r)]
    /\ Goto(r, "item")
    /\ UNCHANGED <<item, decision, note, assignment, audit, position, summary,
                   op, todo, seen>>

UpdatedItem(r) ==
    LET i == seen[r].item IN
    CASE op[r].kind = "note" -> [i EXCEPT !.notes = @ \cup {r}]
      [] op[r].kind = "assign" ->
           [i EXCEPT !.assignment = r,
                     !.status = IF @ \in {"pending_review", "awaiting_revision"}
                                  THEN "in_review" ELSE @]
      [] OTHER ->
           [i EXCEPT !.shown = Reviewed(r).status,
                     !.status = QueueStatusAfter(op[r].outcome),
                     !.escalation = EscalationAfter(op[r].outcome, @),
                     !.decisions = @ \cup {r}]

WriteItem(r) ==
    /\ pc[r] = "item"
    /\ item' = [item EXCEPT ![op[r].target][seen[r].item.id] = UpdatedItem(r)]
    /\ Goto(r, "audit")
    /\ UNCHANGED <<target, decision, note, assignment, audit, position, summary,
                   op, todo, seen>>

(* Notes and assignments audit the status of the item, actions that of the *)
(* target.  An approved trade goes on to the ledger.                       *)
WriteAudit(r) ==
    /\ pc[r] = "audit"
    /\ audit' = [audit EXCEPT ![r] =
         [target |-> op[r].target,
          before |-> IF op[r].kind = "action" THEN seen[r].target.status ELSE seen[r].item.status,
          after |-> IF op[r].kind = "action" THEN Reviewed(r).status ELSE UpdatedItem(r).status]]
    /\ Goto(r, IF op[r].kind # "action" THEN "done"
               ELSE IF op[r].target \in Trade /\ op[r].outcome = "approve" THEN "admit"
               ELSE "summary")
    /\ UNCHANGED <<target, item, decision, note, assignment, position, summary,
                   op, todo, seen>>

\* Mutant: a trade that was admitted before is admitted again.
AdmissibleAlways(r) == TRUE

Admissible(r) == ~ seen[r].target.admitted

(* PaperLedgerService.admit_approved_trade, whose own writes are the       *)
(* subject of PaperLedger: the trade file, then the position it names.     *)
AdmitTrade(r) ==
    /\ pc[r] = "admit"
    /\ IF Admissible(r)
         THEN /\ target' = [target EXCEPT ![op[r].target] = [Reviewed(r) EXCEPT !.admitted = TRUE]]
              /\ position' = [position EXCEPT ![op[r].target] = r]
              /\ Goto(r, "summary")
         ELSE Goto(r, "raise") /\ UNCHANGED <<target, position>>
    /\ UNCHANGED <<item, decision, note, assignment, audit, summary,
                   op, todo, seen>>

WriteSummary(r) ==
    /\ pc[r] = "summary"
    /\ summary' = [summary EXCEPT ![r] = "succeeded"]
    /\ Goto(r, "done")
    /\ UNCHANGED <<target, item, decision, note, assignment, audit, position,
                   op, todo, seen>>

(* Only a review action records that it failed.                            *)
Raise(r) ==
    /\ pc[r] = "raise"
    /\ summary' = [summary EXCEPT ![r] = IF op[r].kind = "action" THEN "failed" ELSE @]
    /\ Goto(r, "done")
    /\ UNCHANGED <<target, item, decision, note, assignment, audit, position,
                   op, todo, seen>>

(* The process dies with every request it serves.                          *)
Die ==
    /\ MayDie /\ Open # {}
    /\ pc' = [r \in Request |-> IF r \in Open THEN "dead" ELSE pc[r]]
    /\ UNCHANGED <<files, op, todo, seen>>

Serve(r) ==
    \/ LoadForSync(r) \/ WriteSyncedItem(r) \/ SyncDone(r) \/ Load(r)
    \/ WriteNote(r) \/ DeactivateAssignment(r) \/ WriteAssignment(r)
    \/ WriteDecision(r) \/ WriteTarget(r) \/ WriteItem(r) \/ WriteAudit(r)
    \/ AdmitTrade(r) \/ WriteSummary(r) \/ Raise(r)

Next ==
    \/ \E r \in Request, o \in Asked : Start(r, o)
    \/ \E r \in Request : Serve(r)
    \/ Die

Spec == Init /\ [][Next]_vars

-----------------------------------------------------------------------------
(* What holds under every interleaving, and after a death at any moment.   *)

(* Every decision a target lists was recorded for it, and a target that    *)
(* reads approved or rejected is backed by a decision on file about it     *)
(* that says so, which a proposal and a trade also list: the decision is   *)
(* written before the target, and the target is written whole.             *)
DecisionsBackStatuses ==
    \A t \in Target :
        LET Backed(outcome) ==
              \E r \in Request : /\ decision[r] = [target |-> t, outcome |-> outcome]
                                 /\ Lists(t) => r \in target[t].decisions
        IN  /\ \A r \in target[t].decisions : decision[r] # None /\ decision[r].target = t
            /\ target[t].status = Approved(t) => Backed("approve")
            /\ target[t].status = "rejected" => Backed("reject")

(* No brief, signal or proposal ever reads approved while it carries what  *)
(* forbids its approval.                                                   *)
ApprovedIsNeverBlocked ==
    \A t \in Target : target[t].status = Approved(t) => ~ target[t].blocked

(* A trade holds a position only through an audited approval of that trade *)
(* that its request based on an approved and unblocked proposal.           *)
PositionsWereApproved ==
    \A t \in Trade : position[t] # None =>
        LET r == position[t] IN
        /\ decision[r] = [target |-> t, outcome |-> "approve"]
        /\ audit[r] # None /\ audit[r].after = "approved"
        /\ seen[r].parent.status = "approved" /\ ~ seen[r].parent.blocked

-----------------------------------------------------------------------------
(* What holds as long as requests are served one after the other, some of  *)
(* which may die.                                                          *)

Decided(t) == {r \in Request : decision[r] # None /\ decision[r].target = t}
NotesAbout(t) == {r \in Request : note[r] = t}
Served == {r \in Request : pc[r] = "done"}

(* An item records exactly what was decided and noted about its target,    *)
(* but for a request that is not through with its writes or died in them;  *)
(* a proposal or a trade lists every decision its item lists; and an       *)
(* escalation is open while the item says escalated, and never forgotten.  *)
ItemsRecordTheWork ==
    \A t \in Target : \A i \in Items(t) :
        /\ Decided(t) \cap Served \subseteq item[t][i].decisions
        /\ item[t][i].decisions \subseteq Decided(t)
        /\ Lists(t) => item[t][i].decisions \subseteq target[t].decisions
        /\ NotesAbout(t) \cap Served \subseteq item[t][i].notes
        /\ item[t][i].notes \subseteq NotesAbout(t)
        /\ item[t][i].status = "escalated" <=> item[t][i].escalation = "requested"
        /\ item[t][i].escalation = "none" <=>
             \A r \in item[t][i].decisions : decision[r].outcome # "escalate"

(* A review of t died after its decision and before its audit log: it may  *)
(* have left a reviewed target with the item of before.                    *)
Interrupted(t) == \E r \in Decided(t) : pc[r] = "dead" /\ audit[r] = None

(* A request has refreshed the queue and written nothing else yet.         *)
Refreshed(r) ==
    \/ pc[r] = "refresh" /\ todo[r] = {}
    \/ pc[r] \in {"note", "unassign", "assign", "decision"}

(* Between requests an item shows the status of its target, has not ended  *)
(* while the target awaits review, and waits only while it does; where a   *)
(* review was interrupted, the sync of the next request sets that right.   *)
QueueTellsTheTruth ==
    \A t \in Target : \A i \in Items(t) :
        (Open = {} /\ ~ Interrupted(t)) \/ (\E r \in Request : Refreshed(r)) =>
            /\ item[t][i].shown = target[t].status
            /\ item[t][i].status = "resolved" => ~ Reviewable(t)
            /\ item[t][i].status \in {"pending_review", "in_review", "awaiting_revision"} =>
                 Reviewable(t)

(* A target never has two queue items, though a sync that died half-way is *)
(* repeated, and one that awaits review has one as soon as any request has *)
(* been served.                                                            *)
OneItemPerTarget ==
    /\ \A t \in Target : Cardinality(Items(t)) <= 1
    /\ Open = {} /\ Served # {} => \A t \in Target : Reviewable(t) => Items(t) # {}

(* A review action that reports success left its decision on the target,   *)
(* if that lists any, and on the queue item, and an audit log; one that    *)
(* reports failure left no decision, unless it asked to admit a trade a    *)
(* second time.                                                            *)
SummariesTellTheTruth ==
    \A r \in Request :
        LET t == op[r].target IN
        /\ summary[r] = "succeeded" =>
             /\ decision[r] # None /\ audit[r] # None
             /\ Lists(t) => r \in target[t].decisions
             /\ \E i \in Items(t) : r \in item[t][i].decisions
             /\ t \in Trade /\ op[r].outcome = "approve" => position[t] # None
        /\ summary[r] = "failed" =>
             decision[r] = None \/ (t \in Trade /\ position[t] \notin {r, None})

(* Of the assignments whose requests lived, an item has at most one that   *)
(* is active, and names it (ReviewAssignment: "Single active assignee").   *)
OneActiveAssignee ==
    \A r \in Served :
        assignment[r] # None /\ assignment[r].active =>
            LET t == assignment[r].target IN
            /\ \E i \in Items(t) : item[t][i].assignment = r
            /\ \A s \in Served \ {r} :
                 ~ (/\ assignment[s] # None /\ assignment[s].active
                    /\ assignment[s].target = t /\ assignment[s].item = assignment[r].item)

(* The review files as a whole: what the items record and say, that there  *)
(* is one for each target that needs it, who works on it, and what each    *)
(* request was told it did.                                                *)
QueueAgreesWithFiles ==
    /\ ItemsRecordTheWork
    /\ QueueTellsTheTruth
    /\ OneItemPerTarget
    /\ OneActiveAssignee
    /\ SummariesTellTheTruth

(* At the moment a trade becomes approved its proposal is approved and     *)
(* carries no blocking issue.                                              *)
TradeApprovalsHaveParents ==
    [][\A t \in Trade :
         target'[t].status = "approved" /\ target[t].status # "approved" =>
             target[Parent[t]].status = "approved" /\ ~ target[Parent[t]].blocked]_vars

(* A trade enters the ledger once: no later review starts its position     *)
(* over.                                                                   *)
AdmittedOnce ==
    [][\A t \in Trade : position[t] # None => position'[t] = position[t]]_vars
=============================================================================
