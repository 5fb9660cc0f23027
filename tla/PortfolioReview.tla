--------------------------- MODULE PortfolioReview ---------------------------
(***************************************************************************)
(* The portfolio review pipeline of one company                            *)
(* (pipelines/portfolio/portfolio_review_pipeline.py): arbitration of the  *)
(* signals, construction, risk review, an optional verdict, paper trades,  *)
(* reconciliation with a backtest, scorecard and run summary, as a process *)
(* that writes files and may die between two of them, beside operators who *)
(* review the proposal on file.                                            *)
(*                                                                         *)
(* Files are keyed as the code keys them.  A proposal's identifier is its  *)
(* as-of day, so a second run for that day writes the same files; a trade  *)
(* is known by its proposal and the signal of its idea.                    *)
(***************************************************************************)
EXTENDS PortfolioRisk, Reconciliation

CONSTANTS
    Stock,      \* the sets of signals the company may start with
    Late,       \* signals that may be filed later
    Request,    \* what a run is asked for: as-of day, verdict, limits, price
    Backtest,   \* the backtest runs on file
    FirstDay,   \* the day of the first run; every run is a day later
    MaxRuns,    \* bound on the runs
    MaxReviews, \* bound on the operators' reviews
    MayDie      \* whether a run may die between two writes

VARIABLES
    signals,    \* the signals on file
    bundles,    \* the signal bundles on file, each with its decision
    proposals,  \* proposal identifier |-> the proposal on file
    decisions,  \* review decisions on file
    trades,     \* paper trades on file
    contexts,   \* realism contexts on file, one per batch of trades
    gates,      \* the gate that last spoke on a proposal, by gate and target
    run,        \* the run in progress, or Idle: what it holds in memory
    summary,    \* the summary of the last run that recorded one
    today,      \* the day of the run in progress, or of the next one
    reviews     \* how many reviews operators have made

vars == <<signals, bundles, proposals, decisions, trades, contexts, gates,
          run, summary, today, reviews>>

Gates == INSTANCE QualityGates

-----------------------------------------------------------------------------
(* What the gates see of the artifacts of this pipeline.                   *)

Proven == {"time", "name", "source", "upstream"}
SignalView(s) ==
    [id |-> s.id, prov |-> Proven, features |-> {"f"},
     lineage |-> IF s.lineage THEN {"f"} ELSE {}, components |-> {{"f"}}]
IdeaView(i) == [id |-> i.signal, signal |-> i.signal, prov |-> Proven]
ProposalView(pid, p) ==
    [id |-> pid, prov |-> Proven, status |-> p.status, checks |-> p.checks,
     blocking |-> blocking_issues(p.checks) # {},
     ideas |-> SetToSeq({IdeaView(i) : i \in p.ideas})]
TradeView(t) == [id |-> t.idea.signal, proposal |-> t.proposal, idea |-> t.idea.signal, prov |-> Proven]

Ordered(S, View(_)) == SetToSeq({View(x) : x \in S})

-----------------------------------------------------------------------------
(* Types and the initial state.                                            *)

Idle == [step |-> "idle"]
On(file, key) == key \in DOMAIN file
Put(file, key, value) == [k \in DOMAIN file \cup {key} |-> IF k = key THEN value ELSE file[k]]

ProposalStatus == {"pending_review", "approved", "rejected", "draft"}
Verdict == {"approve", "reject", "needs_revision"}

(* A signal's file is known by its identifier.  Scores, times and limits   *)
(* are numbers; the limit on a single name, which is a weight, is not      *)
(* negative, though the schema of a constraint does not say so.            *)
IsSignal(s) == s.id \in Int /\ s.score \in Int /\ s.effective \in Int
IsRequest(r) ==
    /\ r.verdict \in Verdict \cup {None}
    /\ \A t \in ConstraintType : r.limits[t] \in Int \cup {None}
    /\ r.limits["single_name"] \in Nat \cup {None}

ASSUME PipelineAssumption ==
    /\ None \notin RejectionReasons
    /\ FirstDay \in Nat /\ MaxRuns \in Nat /\ MaxReviews \in Nat
    /\ \A S \in Stock : /\ IsFiniteSet(S)
                        /\ \A s \in S : IsSignal(s)
                        /\ \A s, t \in S : s.id = t.id => s = t
    /\ \A s \in Late : IsSignal(s)
    /\ \A r \in Request : IsRequest(r)

TypeOK ==
    /\ \A pid \in DOMAIN proposals : /\ proposals[pid].status \in ProposalStatus
                                     /\ IsFiniteSet(proposals[pid].ideas)
    /\ \A d \in decisions : d.outcome \in Verdict /\ d.at <= today
    /\ \A t \in trades : t.submitted <= today
    /\ run # Idle => run.step \in {"load", "gate", "draft", "review", "propose",
                                    "reconcile", "report", "conclude"}
    /\ summary.status \in {"none", "succeeded", "attention_required", "failed"}
    /\ today \in FirstDay..(FirstDay + MaxRuns) /\ reviews \in 0..MaxReviews

NoSummary == [status |-> "none", proposal |-> None, reasons |-> {}]

Init ==
    /\ signals \in Stock
    /\ bundles = {} /\ proposals = <<>> /\ decisions = {} /\ trades = {}
    /\ contexts = {} /\ gates = <<>> /\ run = Idle /\ summary = NoSummary
    /\ today = FirstDay /\ reviews = 0

-----------------------------------------------------------------------------
(* Around the pipeline.                                                    *)

(* run_signal_arbitration for a day, or for no day in particular.  Without *)
(* a signal by then it leaves no artifact.                                 *)
Arbitrate(asOf) ==
    LET visible == ArbitrationInputs(signals, asOf)
        conflicts == SignalConflicts(visible, asOf)
        key == IF asOf = None THEN 0 ELSE asOf
    IN  /\ run = Idle /\ today < FirstDay + MaxRuns
        /\ visible # {}
        /\ bundles' = {b \in bundles : b.id # key} \cup
               {[id |-> key, asOf |-> asOf, created |-> today,
                 decision |-> ArbitrationDecision(visible, asOf), conflicts |-> conflicts]}
        /\ UNCHANGED <<signals, proposals, decisions, trades, contexts, gates,
                       run, summary, today, reviews>>

(* Another signal of the company is filed.                                 *)
FileSignal ==
    \E s \in Late :
        /\ run = Idle /\ today < FirstDay + MaxRuns /\ s.created <= today
        /\ \A t \in signals : t.id # s.id
        /\ signals' = signals \cup {s}
        /\ UNCHANGED <<bundles, proposals, decisions, trades, contexts, gates,
                       run, summary, today, reviews>>

\* Mutant: whatever is not a rejection approves.
StatusAfterUnlessRejected(outcome) == IF outcome = "reject" THEN "rejected" ELSE "approved"

\* Mutant: the outcome itself becomes the status of what needs revision.
StatusAfterByName(outcome) ==
    CASE outcome = "approve" -> "approved" [] outcome = "reject" -> "rejected" [] OTHER -> outcome

StatusAfter(outcome) ==
    CASE outcome = "approve" -> "approved" [] outcome = "reject" -> "rejected" [] OTHER -> "draft"

Decision(pid, p, outcome) ==
    [proposal |-> pid, outcome |-> outcome, at |-> today,
     ideas |-> p.ideas, blocked |-> blocking_issues(p.checks) # {}]

(* A proposal with a blocking issue cannot be approved.                    *)
MayApply(p, outcome) == outcome = "approve" => blocking_issues(p.checks) = {}

Reviewed(p, outcome) == [p EXCEPT !.status = StatusAfter(outcome), !.decisions = @ + 1]

(* apply_review_action on the proposal on file.                            *)
OperatorReviews(pid, outcome) ==
    /\ reviews < MaxReviews
    /\ MayApply(proposals[pid], outcome)
    /\ decisions' = decisions \cup {Decision(pid, proposals[pid], outcome)}
    /\ proposals' = Put(proposals, pid, Reviewed(proposals[pid], outcome))
    /\ reviews' = reviews + 1
    /\ UNCHANGED <<signals, bundles, trades, contexts, gates, run, summary, today>>

-----------------------------------------------------------------------------
(* The run.                                                                *)

(* The run goes on, and keeps in memory what `fields` adds or replaces.    *)
With(record, fields) ==
    [k \in DOMAIN record \cup DOMAIN fields |-> IF k \in DOMAIN fields THEN fields[k] ELSE record[k]]
GoOn(name) == run' = [run EXCEPT !.step = name]
Step(name, fields) == run' = With([run EXCEPT !.step = name], fields)

At(step) == run.step = step

(* A run ends by recording its summary, or by dying without one.           *)
Close(status, pid, reasons) ==
    /\ summary' = [status |-> status, proposal |-> pid, reasons |-> reasons,
                   request |-> run.request]
    /\ run' = Idle /\ today' = today + 1

Fail(reason) ==
    /\ Close("failed", None, {reason})
    /\ UNCHANGED <<signals, bundles, decisions, trades, contexts, reviews>>

Die ==
    /\ MayDie /\ run # Idle
    /\ run' = Idle /\ today' = today + 1
    /\ UNCHANGED <<signals, bundles, proposals, decisions, trades, contexts,
                   gates, summary, reviews>>

Begin(request) ==
    /\ run = Idle /\ today < FirstDay + MaxRuns
    /\ run' = [step |-> "load", request |-> request]
    /\ UNCHANGED <<signals, bundles, proposals, decisions, trades, contexts,
                   gates, summary, today, reviews>>

(* The latest time a selected signal takes effect stands in for the as-of  *)
(* day of a run without one, today when no signal was selected.            *)
ProposalDay(in) ==
    IF run.request.asOf # None THEN run.request.asOf
    ELSE IF in.signals = {} THEN today ELSE Max({s.effective : s \in in.signals})

(* The inputs of the workflow, as of its day.                              *)
Inputs(bundle) ==
    load_portfolio_inputs(signals, bundle, IF bundle = None THEN None ELSE bundle.decision,
                          run.request.ticker, run.request.asOf)

(* The proposal with what the risk engine says of it.                      *)
RiskReviewed(in, selection, bundle) ==
    [build_portfolio_proposal(in, selection, today) EXCEPT !.checks =
        evaluate_portfolio_risk(in, selection, run.request.limits,
            IF bundle = None THEN {} ELSE bundle.conflicts,
            run_stress_tests(in, selection.ideas, run.request.sector))]

(* Everything the workflow computes before it writes.                      *)
Load ==
    /\ At("load")
    /\ VisibleSignals(signals, run.request.asOf) # {}
    /\ \E bundle \in {LatestBundle(bundles, run.request.asOf)} :
       \E in \in {Inputs(bundle)} :
       \E selection \in {build_portfolio_selection(in, run.request.limits)} :
          Step("gate", [in |-> in, selection |-> selection, id |-> ProposalDay(in),
                        proposal |-> RiskReviewed(in, selection, bundle)])
    /\ UNCHANGED <<signals, bundles, proposals, decisions, trades, contexts,
                   gates, summary, today, reviews>>

NothingToLoad ==
    /\ At("load")
    /\ VisibleSignals(signals, run.request.asOf) = {}
    /\ Fail("no_signals")
    /\ UNCHANGED <<proposals, gates>>

ProposalGate ==
    Gates!validate_portfolio_proposal(Ordered(run.in.signals, SignalView),
        Ordered(run.selection.ideas, IdeaView), ProposalView(run.id, run.proposal))

FileGate(gate) == gates' = Put(gates, <<gate.name, gate.target>>, gate)

(* The gate speaks before anything else of the workflow is written.        *)
GateRefuses ==
    /\ At("gate") /\ Gates!Refused(ProposalGate)
    /\ FileGate(ProposalGate)
    /\ Fail("quality_refusal")
    /\ UNCHANGED proposals

GatePasses ==
    /\ At("gate") /\ ~Gates!Refused(ProposalGate)
    /\ FileGate(ProposalGate)
    /\ GoOn("draft")
    /\ UNCHANGED <<signals, bundles, proposals, decisions, trades, contexts,
                   summary, today, reviews>>

\* Mutant: a proposal on file keeps its verdict when a rerun replaces it.
WriteDraftUnderOldVerdict ==
    /\ At("draft")
    /\ proposals' = Put(proposals, run.id,
           IF On(proposals, run.id)
           THEN [run.proposal EXCEPT !.status = proposals[run.id].status] ELSE run.proposal)
    /\ GoOn("review")
    /\ UNCHANGED <<signals, bundles, decisions, trades, contexts, gates,
                   summary, today, reviews>>

(* The proposal is the last file of the workflow.                          *)
WriteDraft ==
    /\ At("draft")
    /\ proposals' = Put(proposals, run.id, run.proposal)
    /\ GoOn("review")
    /\ UNCHANGED <<signals, bundles, decisions, trades, contexts, gates,
                   summary, today, reviews>>

(* The verdict asked for is applied to the file and then held in memory.   *)
ReviewInRun ==
    LET verdict == run.request.verdict
        reviewed == Reviewed(proposals[run.id], verdict)
    IN  /\ At("review") /\ verdict # None
        /\ MayApply(proposals[run.id], verdict)
        /\ decisions' = decisions \cup {Decision(run.id, proposals[run.id], verdict)}
        /\ proposals' = Put(proposals, run.id, reviewed)
        /\ Step("propose", [proposal |-> reviewed])
        /\ UNCHANGED <<signals, bundles, trades, contexts, gates, summary, today, reviews>>

SkipReview ==
    /\ At("review") /\ run.request.verdict = None
    /\ GoOn("propose")
    /\ UNCHANGED <<signals, bundles, proposals, decisions, trades, contexts,
                   gates, summary, today, reviews>>

ReviewRaises ==
    /\ At("review") /\ run.request.verdict # None
    /\ ~MayApply(proposals[run.id], run.request.verdict)
    /\ Fail("cannot_approve_blocked")
    /\ UNCHANGED <<proposals, gates>>

-----------------------------------------------------------------------------
(* Paper trades.                                                           *)

(* A price makes a quantity out of a notional amount.                      *)
PaperTrade(idea) ==
    [proposal |-> run.id, idea |-> idea, priced |-> run.request.priced,
     sized |-> run.request.priced, status |-> "proposed", submitted |-> today, batch |-> today]
CandidateTrades == {PaperTrade(i) : i \in run.proposal.ideas}

RequestGate == Gates!validate_paper_trade_request(ProposalView(run.id, run.proposal), None)
OutputGate(ts) ==
    Gates!validate_paper_trade_request(ProposalView(run.id, run.proposal), Ordered(ts, TradeView))

Context(ts) == [proposal |-> run.id, batch |-> today, paper |-> build_paper_realism_context(ts)]

(* propose_trades: the request gate speaks, and its refusal is a stop of   *)
(* the same kind as an unapproved or blocked proposal.                     *)
TradesStopped == run.proposal.status # "approved" \/ blocking_issues(run.proposal.checks) # {}

(* Trades are filed under their proposal and signal, over earlier ones.    *)
FileTrades(ts) ==
    trades' = {t \in trades : \A u \in ts : <<t.proposal, t.idea.signal>> # <<u.proposal, u.idea.signal>>}
              \cup ts

ProposeTrades ==
    LET candidates == IF TradesStopped THEN {} ELSE CandidateTrades
        gate == IF TradesStopped THEN RequestGate ELSE OutputGate(candidates)
        made == IF Gates!Refused(gate) THEN {} ELSE candidates
    IN  /\ At("propose")
        /\ contexts' = contexts \cup {Context(candidates)}
        /\ gates' = Put(Put(gates, <<RequestGate.name, run.id>>, RequestGate),
                        <<gate.name, run.id>>, gate)
        /\ FileTrades(made)
        /\ Step("reconcile", [trades |-> made, gate |-> gate])
        /\ UNCHANGED <<signals, bundles, proposals, decisions, summary, today, reviews>>

-----------------------------------------------------------------------------
(* Reconciliation, scorecard and summary.                                  *)

(* Without trades of its own the report takes those on file, and without   *)
(* any the contexts of the proposal.                                       *)
ComparedTrades ==
    IF run.trades # {} THEN run.trades ELSE {t \in trades : t.proposal = run.id}
PaperContexts ==
    LET own == {c \in contexts : c.proposal = run.id}
    IN  IF ComparedTrades = {} THEN own
        ELSE {c \in own : \E t \in ComparedTrades : t.batch = c.batch}
WarningsOnFile == UNION {c.paper.warnings : c \in {x \in contexts : x.proposal = run.id}}
DecidedAt ==
    LET days == {d.at : d \in {x \in decisions : x.proposal = run.id}}
    IN  IF days = {} THEN None ELSE Max(days)

(* A file read back: what an operator wrote since the run last wrote it.   *)
Reconcile ==
    /\ At("reconcile")
    /\ ~CannotReconcile(proposals[run.id], run.request.asOf, Backtest)
    /\ \E c \in PaperContexts, r \in VisibleRuns(run.request.asOf, Backtest) :
        LET paper == [c.paper EXCEPT !.warnings = WarningsOnFile]
            report == build_report(proposals[run.id], run.id, ComparedTrades, signals, r,
                                   DecidedAt, paper)
            linked == [run.proposal EXCEPT !.mapping = report]
        IN  /\ proposals' = Put(proposals, run.id, linked)
            /\ Step("report", [proposal |-> linked, report |-> report])
            /\ UNCHANGED <<signals, bundles, decisions, trades, contexts, gates,
                           summary, today, reviews>>

(* A ValueError is noted, and the run goes on without a report.            *)
SkipReconciliation ==
    /\ At("reconcile")
    /\ CannotReconcile(proposals[run.id], run.request.asOf, Backtest)
    /\ Step("report", [report |-> None])
    /\ UNCHANGED <<signals, bundles, proposals, decisions, trades, contexts,
                   gates, summary, today, reviews>>

(* The proposal is written from memory once more, with its scorecard.      *)
WriteScorecard ==
    LET scored == [run.proposal EXCEPT !.scorecard = TRUE]
    IN  /\ At("report")
        /\ proposals' = Put(proposals, run.id, scored)
        /\ Step("conclude", [proposal |-> scored])
        /\ UNCHANGED <<signals, bundles, decisions, trades, contexts, gates,
                       summary, today, reviews>>

Grave(report) == report # None /\ report.severity \in {"high", "critical"}
\* Mutant: a run without trades is no reason to ask for attention.
RequiresAttentionForIssues ==
    \/ blocking_issues(run.proposal.checks) # {}
    \/ Grave(run.report)

RequiresAttention ==
    \/ blocking_issues(run.proposal.checks) # {}
    \/ run.trades = {}
    \/ Grave(run.report)

AttentionReasons ==
    LET reason == [blocking_issue |-> blocking_issues(run.proposal.checks) # {},
                   proposal_not_approved_for_paper_trade |->
                       run.proposal.status # "approved" /\ run.trades = {},
                   paper_trade_quality_refusal |-> Gates!Refused(run.gate),
                   no_paper_trade_candidates |->
                       run.proposal.status = "approved" /\ run.trades = {},
                   reconciliation_high_severity_mismatch |-> Grave(run.report)]
    IN  {r \in DOMAIN reason : reason[r]}

Conclude ==
    /\ At("conclude")
    /\ IF RequiresAttention THEN Close("attention_required", run.id, AttentionReasons)
       ELSE Close("succeeded", run.id, {})
    /\ UNCHANGED <<signals, bundles, proposals, decisions, trades, contexts, gates, reviews>>

-----------------------------------------------------------------------------
Next ==
    \/ \E asOf \in {r.asOf : r \in Request} : Arbitrate(asOf)
    \/ FileSignal
    \/ \E pid \in DOMAIN proposals, outcome \in Verdict : OperatorReviews(pid, outcome)
    \/ \E request \in Request : Begin(request)
    \/ Load \/ NothingToLoad \/ GateRefuses \/ GatePasses \/ WriteDraft
    \/ ReviewInRun \/ SkipReview \/ ReviewRaises
    \/ ProposeTrades \/ Reconcile \/ SkipReconciliation
    \/ WriteScorecard \/ Conclude \/ Die

Spec == Init /\ [][Next]_vars
-----------------------------------------------------------------------------
(* Properties.                                                             *)

Approvals(pid) == {d \in decisions : d.proposal = pid /\ d.outcome = "approve"}

(* Whatever is approved on file was approved as it stands: some approval   *)
(* on file is of the same positions, and none of them was blocked.  A run  *)
(* repeated for the same day replaces the content under the identifier.    *)
ApprovalCoversContent ==
    \A pid \in DOMAIN proposals : proposals[pid].status = "approved" =>
        /\ \E d \in Approvals(pid) : d.ideas = proposals[pid].ideas /\ ~d.blocked
        /\ blocking_issues(proposals[pid].checks) = {}

(* A paper trade on file stems from a position that someone had approved   *)
(* within an unblocked proposal by the time the trade was submitted.       *)
TradesComeFromApprovals ==
    \A t \in trades : \E d \in Approvals(t.proposal) :
        t.idea \in d.ideas /\ ~d.blocked /\ d.at <= t.submitted

(* A position over an active limit, whatever construction made of the      *)
(* limit, is stopped by a blocking check of the risk engine.               *)
OverLimitIsBlocked(limits, proposal) ==
    (\E t \in ActiveTypes(limits, ConstraintType) : Observed(proposal.ideas)[t] > limits[t])
        => blocking_issues(proposal.checks) # {}

(* Between two signals that oppose each other on equal terms construction  *)
(* takes no side, unless a better one was first turned away by a limit.    *)
NoSideOfATie(in, limits, ideas) ==
    \A i \in ideas : \A s \in SignalOf(in, i), t \in Eligible(in) :
        StancesOppose(s, t) /\ SubstantiveRankKey(in, s) = SubstantiveRankKey(in, t)
            => \E u \in Eligible(in) : Breaches(u, limits) # {}

(* What the run holds once it has selected: at most one position, taken    *)
(* from signals that existed and had taken effect by the as-of day, none   *)
(* while arbitration withholds its choice, within the limits or blocked,   *)
(* and no side of a tie.                                                   *)
SelectionIsDefensible ==
    run # Idle /\ run.step # "load" =>
        LET ideas == run.proposal.ideas  limits == run.request.limits  asOf == run.request.asOf
        IN  /\ Cardinality(ideas) <= 1
            /\ \A i \in ideas : \E s \in signals :
                   /\ s.id = i.signal /\ (asOf # None => s.created <= asOf /\ s.effective <= asOf)
                   /\ Side(s) = i.side /\ s.status \in {"candidate", "approved"}
            /\ PrimaryWithheld(run.in) => ideas = {}
            /\ OverLimitIsBlocked(limits, run.proposal)
            /\ NoSideOfATie(run.in, limits, ideas)

(* What a summary claims and the files can bear out: success means         *)
(* trades of this run for every position of an approved proposal, a call   *)
(* for attention names a reason, and a run that failed leaves no trade,    *)
(* and after a refused or empty input no proposal of that day either.      *)
BorneOut(conclusion) ==
    LET made == {t \in trades : t.batch = today}
        pid == conclusion.proposal
    IN  /\ conclusion.status = "succeeded" =>
               /\ proposals[pid].ideas # {}
               /\ {t.idea : t \in {u \in made : u.proposal = pid}} = proposals[pid].ideas
               /\ \E d \in Approvals(pid) : d.ideas = proposals[pid].ideas
               /\ proposals[pid].mapping = None
        /\ conclusion.status = "attention_required" => conclusion.reasons # {}
        /\ conclusion.status = "failed" =>
               /\ made = {}
               /\ conclusion.reasons \in SUBSET {"quality_refusal", "no_signals"}
                      => \A p \in DOMAIN proposals : proposals[p].created # today

(* The summary that a run records is true of the files at that moment.     *)
ConclusionsAreBorneOut == [][summary' # summary => BorneOut(summary')]_vars
=============================================================================
