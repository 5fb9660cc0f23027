------------------------ MODULE PortfolioReviewProofs ------------------------
(***************************************************************************)
(* Proofs about PortfolioReview, for any signals, requests, limits, prices *)
(* and backtests, any number of runs and reviews, and a death anywhere.    *)
(***************************************************************************)
EXTENDS PortfolioReview, FiniteSetTheorems, WellFoundedInduction, SequenceTheorems, TLAPS

-----------------------------------------------------------------------------
(* The inductive invariant.                                                *)

Loaded == {"gate", "draft", "review", "propose", "reconcile", "report", "conclude"}
Drafted == Loaded \ {"gate", "draft"}
Traded == {"reconcile", "report", "conclude"}
Compared == {"report", "conclude"}

ProposalFields ==
    {"ideas", "status", "decisions", "checks", "mapping", "scorecard", "created"}
IsProposal(p) ==
    /\ ProposalFields \subseteq DOMAIN p
    /\ p = [k \in DOMAIN p |-> p[k]]
    /\ p.status \in ProposalStatus /\ IsFiniteSet(p.ideas) /\ p.created \in Nat

(* What is approved is the content that some unblocked approval was of.    *)
Covered(given, pid, p) ==
    p.status = "approved" =>
        /\ \E d \in given : /\ d.proposal = pid /\ d.outcome = "approve"
                            /\ d.ideas = p.ideas /\ ~d.blocked
        /\ blocking_issues(p.checks) = {}

SignalsInv ==
    /\ IsFiniteSet(signals) /\ \A s \in signals : IsSignal(s)
    /\ \A s, t \in signals : s.id = t.id => s = t

FilesInv ==
    /\ \A pid \in DOMAIN proposals :
          /\ IsProposal(proposals[pid]) /\ Covered(decisions, pid, proposals[pid])
          /\ proposals[pid].created <= today
    /\ \A d \in decisions : d.at \in Nat
    /\ \A t \in trades : t.submitted \in Nat /\ t.batch \in Nat /\ t.batch <= today

(* A proposal of this day is on file only once the run has written it.     *)
FreshInv ==
    /\ run = Idle => \A t \in trades : t.batch < today
    /\ run = Idle \/ run.step \in {"load", "gate"} =>
          \A pid \in DOMAIN proposals : proposals[pid].created < today

(* What the run holds in memory, by the place it is at.                    *)
MemoryInv ==
    run # Idle =>
        /\ run = [k \in DOMAIN run |-> run[k]] /\ run.step # "idle"
        /\ {"step", "request"} \subseteq DOMAIN run /\ run.request \in Request
        /\ run.step \in {"load"} \cup Loaded
        /\ today < FirstDay + MaxRuns
        /\ run.step \in Loaded =>
              /\ {"in", "selection", "id", "proposal"} \subseteq DOMAIN run
              /\ IsProposal(run.proposal) /\ Covered(decisions, run.id, run.proposal)
              /\ run.proposal.created = today
        /\ run.step \in Loaded \ Compared => run.proposal.mapping = None

(* The operators may have changed the verdict on file since the run wrote  *)
(* its proposal, and nothing else.                                         *)
SameContent(p, q) ==
    /\ p.ideas = q.ideas /\ p.checks = q.checks
    /\ p.mapping = q.mapping /\ p.created = q.created
DraftInv ==
    run # Idle /\ run.step \in Drafted =>
        run.id \in DOMAIN proposals /\ SameContent(proposals[run.id], run.proposal)

(* The trades of this day are those that the run made of what it holds.    *)
TradesInv ==
    run # Idle =>
        /\ run.step \notin Traded => \A t \in trades : t.batch < today
        /\ run.step \in Traded =>
              /\ {"trades", "gate"} \subseteq DOMAIN run
              /\ {t \in trades : t.batch = today} = run.trades
              /\ run.trades # {} =>
                    /\ {t.idea : t \in run.trades} = run.proposal.ideas
                    /\ \A t \in run.trades : t.proposal = run.id
                    /\ run.proposal.status = "approved"

(* Whatever a backtest is compared with, its own prices are a grave warning. *)
ReportInv ==
    /\ \A c \in contexts :
          /\ "warnings" \in DOMAIN c.paper
          /\ \A w \in c.paper.warnings : w.severity \in DOMAIN Severity
    /\ run # Idle /\ run.step \in Compared =>
          /\ "report" \in DOMAIN run
          /\ run.report = None => run.proposal.mapping = None
          /\ run.report # None => Grave(run.report)

IInv == /\ TypeOK /\ SignalsInv /\ FilesInv /\ FreshInv /\ MemoryInv /\ DraftInv /\ TradesInv
        /\ ReportInv /\ TradesComeFromApprovals
-----------------------------------------------------------------------------
(* What the operators of the actions do.                                   *)

LEMMA GoOnFacts ==
    ASSUME NEW name, GoOn(name), MemoryInv, run # Idle
    PROVE  /\ DOMAIN run' = DOMAIN run /\ run' = [k \in DOMAIN run' |-> run'[k]]
           /\ run'.step = name
           /\ \A k \in DOMAIN run : k # "step" => run'[k] = run[k]
BY DEF GoOn, MemoryInv

LEMMA StepFacts ==
    ASSUME NEW name, NEW fields, Step(name, fields), MemoryInv, run # Idle,
           "step" \notin DOMAIN fields
    PROVE  /\ DOMAIN run' = DOMAIN run \cup DOMAIN fields
           /\ run' = [k \in DOMAIN run' |-> run'[k]]
           /\ run'.step = name
           /\ \A k \in DOMAIN fields : run'[k] = fields[k]
           /\ \A k \in DOMAIN run \ DOMAIN fields : k # "step" => run'[k] = run[k]
<1> DEFINE r == [run EXCEPT !.step = name]
<1>1. DOMAIN r = DOMAIN run /\ r.step = name
      /\ \A k \in DOMAIN run : k # "step" => r[k] = run[k]
  BY DEF MemoryInv
<1>2. run' = With(r, fields)
  BY DEF Step
<1> HIDE DEF r
<1>3. QED
  BY <1>1, <1>2 DEF With, MemoryInv

LEMMA ReviewedFacts ==
    ASSUME NEW p, IsProposal(p), NEW outcome \in Verdict
    PROVE  /\ IsProposal(Reviewed(p, outcome)) /\ SameContent(Reviewed(p, outcome), p)
           /\ Reviewed(p, outcome).status = "approved" => outcome = "approve"
<1>1. /\ StatusAfter(outcome) \in ProposalStatus
      /\ StatusAfter(outcome) = "approved" => outcome = "approve"
  BY DEF StatusAfter, ProposalStatus, Verdict
<1>2. QED
  BY <1>1 DEF Reviewed, IsProposal, SameContent, ProposalFields

(* The verdict of a review is about the content on file.                   *)
LEMMA ReviewCovers ==
    ASSUME NEW pid, NEW p, IsProposal(p), NEW outcome \in Verdict, MayApply(p, outcome),
           decisions' = decisions \cup {Decision(pid, p, outcome)}
    PROVE  Covered(decisions', pid, Reviewed(p, outcome))
<1>1. CASE outcome = "approve"
  <2>1. /\ Decision(pid, p, outcome) \in decisions'
        /\ Decision(pid, p, outcome).proposal = pid
        /\ Decision(pid, p, outcome).outcome = "approve"
        /\ Decision(pid, p, outcome).ideas = p.ideas /\ ~Decision(pid, p, outcome).blocked
        /\ blocking_issues(p.checks) = {}
    BY <1>1 DEF Decision, MayApply
  <2>2. QED
    BY <2>1, ReviewedFacts DEF Covered, SameContent
<1>2. CASE outcome # "approve"
  BY <1>2, ReviewedFacts DEF Covered
<1>3. QED
  BY <1>1, <1>2

-----------------------------------------------------------------------------
(* What construction and risk review make of the signals.                  *)

LEMMA InputsFacts ==
    ASSUME NEW bundle
    PROVE  Inputs(bundle).signals \subseteq VisibleSignals(signals, run.request.asOf)
BY DEF Inputs, load_portfolio_inputs, SelectedSignals

LEMMA IdeasFinite ==
    ASSUME NEW S, IsFiniteSet(S), NEW limits
    PROVE  IsFiniteSet({Idea(s, limits) : s \in S})
<1> DEFINE T == {Idea(s, limits) : s \in S}
           f == [s \in S |-> Idea(s, limits)]
<1>1. f \in Surjection(S, T)
  BY DEF Surjection
<1> HIDE DEF T, f
<1>2. IsFiniteSet(T)
  BY <1>1, FS_Surjection
<1>3. QED
  BY <1>2 DEF T

LEMMA SelectionFinite ==
    ASSUME NEW in, NEW limits, IsFiniteSet(in.signals)
    PROVE  IsFiniteSet(build_portfolio_selection(in, limits).ideas)
<1> DEFINE included(decided) == {c \in in.signals : decided[c.id].outcome = "included"}
<1>1. ASSUME NEW decided
      PROVE  IsFiniteSet(PositionIdeas(in, decided, limits))
  <2>1. IsFiniteSet(included(decided))
    BY FS_Subset
  <2>2. PositionIdeas(in, decided, limits) = {Idea(s, limits) : s \in included(decided)}
    BY DEF PositionIdeas
  <2> HIDE DEF included
  <2>3. QED
    BY <2>1, <2>2, IdeasFinite
<1>2. IsFiniteSet(EmptySelection.ideas)
  BY FS_EmptySet DEF EmptySelection
<1>3. QED
  BY <1>1, <1>2 DEF build_portfolio_selection, RankedSelection, Selection

LEMMA RiskReviewedFacts ==
    ASSUME NEW in, NEW selection, NEW bundle, IsFiniteSet(selection.ideas), today \in Nat
    PROVE  LET p == RiskReviewed(in, selection, bundle)
           IN  /\ IsProposal(p) /\ p.status = "pending_review" /\ p.created = today
               /\ p.mapping = None /\ p.ideas = selection.ideas
<1> DEFINE checks == evaluate_portfolio_risk(in, selection, run.request.limits,
                IF bundle = None THEN {} ELSE bundle.conflicts,
                run_stress_tests(in, selection.ideas, run.request.sector))
<1>1. RiskReviewed(in, selection, bundle)
        = [build_portfolio_proposal(in, selection, today) EXCEPT !.checks = checks]
  BY DEF RiskReviewed
<1> HIDE DEF checks
<1>2. QED
  BY <1>1 DEF build_portfolio_proposal, IsProposal, ProposalFields, ProposalStatus

-----------------------------------------------------------------------------
(* The invariant holds initially.                                          *)

LEMMA DayIsNatural == TypeOK => today \in Nat
BY PipelineAssumption DEF TypeOK

LEMMA InitInv == Init => IInv
<1> SUFFICES ASSUME Init PROVE IInv
  OBVIOUS
<1>1. DOMAIN proposals = {} /\ DOMAIN gates = {}
  BY DEF Init
<1>2. TypeOK
  BY <1>1, PipelineAssumption DEF Init, TypeOK, NoSummary
<1>3. SignalsInv
  BY PipelineAssumption DEF Init, SignalsInv
<1>4. QED
  BY <1>1, <1>2, <1>3 DEF IInv, Init, FilesInv, FreshInv, MemoryInv, DraftInv, TradesInv,
     ReportInv, TradesComeFromApprovals

-----------------------------------------------------------------------------
(* Every step keeps the invariant.                                         *)

(* A run that ends leaves the files as they are, and the day with them.    *)
LEMMA EndingKeeps ==
    ASSUME IInv, run # Idle, run' = Idle, today' = today + 1,
           summary'.status \in {"none", "succeeded", "attention_required", "failed"},
           UNCHANGED <<signals, proposals, decisions, trades, contexts, reviews>>
    PROVE  IInv'
<1> USE DEF IInv
<1>1. today \in Nat /\ today < FirstDay + MaxRuns
  BY DayIsNatural DEF MemoryInv
<1>2. TypeOK'
  BY <1>1, PipelineAssumption DEF TypeOK, FilesInv
<1>3. SignalsInv' /\ TradesComeFromApprovals'
  BY DEF SignalsInv, TradesComeFromApprovals, Approvals
<1>4. FilesInv' /\ FreshInv'
  BY <1>1 DEF FilesInv, FreshInv, Covered, IsProposal
<1>5. MemoryInv' /\ DraftInv' /\ TradesInv' /\ ReportInv'
  BY DEF MemoryInv, DraftInv, TradesInv, ReportInv
<1>6. QED
  BY <1>2, <1>3, <1>4, <1>5

LEMMA EndsKeep ==
    ASSUME IInv, NothingToLoad \/ GateRefuses \/ ReviewRaises \/ Conclude \/ Die
    PROVE  IInv'
<1>1. run # Idle /\ run' = Idle /\ today' = today + 1
  BY DEF NothingToLoad, GateRefuses, ReviewRaises, Conclude, Die, Fail, Close, At, Idle
<1>2. UNCHANGED <<signals, proposals, decisions, trades, contexts, reviews>>
  BY DEF NothingToLoad, GateRefuses, ReviewRaises, Conclude, Die, Fail
<1>3. summary'.status \in {"none", "succeeded", "attention_required", "failed"}
  <2>1. CASE Die
    BY <2>1 DEF Die, IInv, TypeOK
  <2>2. CASE NothingToLoad \/ GateRefuses \/ ReviewRaises
    BY <2>2 DEF NothingToLoad, GateRefuses, ReviewRaises, Fail, Close
  <2>3. CASE Conclude
    BY <2>3 DEF Conclude, Close
  <2>4. QED
    BY <2>1, <2>2, <2>3
<1>4. QED
  BY <1>1, <1>2, <1>3, EndingKeeps

(* Between runs, and while one is on its way.                              *)
LEMMA ArbitrateKeeps ==
    ASSUME IInv, NEW asOf, Arbitrate(asOf)
    PROVE  IInv'
BY DEF IInv, Arbitrate, TypeOK, SignalsInv, FilesInv, FreshInv, MemoryInv, DraftInv, TradesInv,
   ReportInv, TradesComeFromApprovals, Covered, Approvals, IsProposal, SameContent, Grave

LEMMA FileSignalKeeps ==
    ASSUME IInv, FileSignal
    PROVE  IInv'
<1>1. PICK s \in Late : /\ \A t \in signals : t.id # s.id
                        /\ signals' = signals \cup {s}
  BY DEF FileSignal
<1>2. SignalsInv'
  BY <1>1, PipelineAssumption, FS_AddElement DEF IInv, SignalsInv
<1>3. TypeOK' /\ FilesInv' /\ FreshInv' /\ MemoryInv' /\ DraftInv' /\ TradesInv'
      /\ ReportInv' /\ TradesComeFromApprovals'
  BY DEF IInv, FileSignal, TypeOK, FilesInv, FreshInv, MemoryInv, DraftInv, TradesInv,
     ReportInv, TradesComeFromApprovals, Covered, Approvals, IsProposal, SameContent, Grave
<1>4. QED
  BY <1>2, <1>3 DEF IInv

LEMMA BeginKeeps ==
    ASSUME IInv, NEW request \in Request, Begin(request)
    PROVE  IInv'
<1> USE DEF IInv, Begin
<1>1. /\ run' = [k \in DOMAIN run' |-> run'[k]] /\ DOMAIN run' = {"step", "request"}
      /\ run'.step = "load" /\ run'.request = request /\ run = Idle
  OBVIOUS
<1>2. TypeOK'
  BY <1>1 DEF TypeOK
<1>3. SignalsInv' /\ FilesInv' /\ FreshInv' /\ TradesComeFromApprovals'
  BY <1>1 DEF SignalsInv, FilesInv, FreshInv, TradesComeFromApprovals, Covered, Approvals,
     IsProposal
<1>4. MemoryInv'
  BY <1>1 DEF MemoryInv, Loaded, Compared
<1>5. DraftInv' /\ TradesInv'
  BY <1>1 DEF DraftInv, TradesInv, FreshInv, Drafted, Loaded, Traded
<1>6. ReportInv'
  BY <1>1 DEF ReportInv, Compared
<1>7. QED
  BY <1>2, <1>3, <1>4, <1>5, <1>6

(* Decisions are only added.                                               *)
LEMMA TradesStay ==
    ASSUME TradesComeFromApprovals, UNCHANGED trades, decisions \subseteq decisions'
    PROVE  TradesComeFromApprovals'
BY DEF TradesComeFromApprovals, Approvals

(* A file of proposals in which one was replaced by a covered one.         *)
LEMMA FilePut ==
    ASSUME FilesInv, NEW pid, NEW p, IsProposal(p), Covered(decisions', pid, p), p.created <= today,
           proposals' = Put(proposals, pid, p), decisions \subseteq decisions',
           \A d \in decisions' : d.at \in Nat, UNCHANGED <<trades, today>>
    PROVE  FilesInv'
<1>1. ASSUME NEW k \in DOMAIN proposals'
      PROVE  /\ IsProposal(proposals'[k]) /\ Covered(decisions', k, proposals'[k])
             /\ proposals'[k].created <= today
  <2>1. CASE k = pid
    BY <2>1 DEF Put
  <2>2. CASE k # pid
    <3>1. k \in DOMAIN proposals /\ proposals'[k] = proposals[k]
      BY <2>2 DEF Put
    <3>2. Covered(decisions', k, proposals[k])
      BY <3>1 DEF FilesInv, Covered
    <3>3. Covered(decisions', k, proposals'[k])
      BY <3>1, <3>2 DEF Covered
    <3>4. QED
      BY <3>1, <3>3 DEF FilesInv
  <2>3. QED
    BY <2>1, <2>2
<1>2. QED
  BY <1>1 DEF FilesInv, IsProposal, Covered

LEMMA OperatorReviewsKeeps ==
    ASSUME IInv, NEW pid \in DOMAIN proposals, NEW outcome \in Verdict,
           OperatorReviews(pid, outcome)
    PROVE  IInv'
<1> DEFINE p == proposals[pid]
           q == Reviewed(p, outcome)
<1>1. /\ MayApply(p, outcome) /\ decisions' = decisions \cup {Decision(pid, p, outcome)}
      /\ proposals' = Put(proposals, pid, q) /\ reviews < MaxReviews /\ reviews' = reviews + 1
      /\ UNCHANGED <<signals, bundles, trades, contexts, gates, run, summary, today>>
  BY DEF OperatorReviews
<1>2. IsProposal(p) /\ p.created <= today
  BY DEF IInv, FilesInv
<1>3. /\ IsProposal(q) /\ SameContent(q, p) /\ Covered(decisions', pid, q)
  BY <1>1, <1>2, ReviewedFacts, ReviewCovers
<1>4. /\ DOMAIN proposals' = DOMAIN proposals /\ proposals'[pid] = q
      /\ \A k \in DOMAIN proposals : k # pid => proposals'[k] = proposals[k]
  BY <1>1 DEF Put
<1>5. /\ Decision(pid, p, outcome).at = today /\ Decision(pid, p, outcome).outcome = outcome
      /\ today \in Nat
  BY DayIsNatural DEF Decision, IInv
<1> HIDE DEF p, q
<1>6. FilesInv'
  <2>1. \A d \in decisions' : d.at \in Nat
    BY <1>1, <1>5 DEF IInv, FilesInv
  <2>2. q.created <= today
    BY <1>2, <1>3 DEF SameContent
  <2>3. QED
    BY <1>1, <1>3, <2>1, <2>2, FilePut DEF IInv
<1>7. TypeOK'
  <2>1. \A k \in DOMAIN proposals' :
            proposals'[k].status \in ProposalStatus /\ IsFiniteSet(proposals'[k].ideas)
    BY <1>6 DEF FilesInv, IsProposal
  <2>2. \A d \in decisions' : d.outcome \in Verdict /\ d.at <= today
    BY <1>1, <1>5 DEF IInv, TypeOK
  <2>3. QED
    BY <1>1, <2>1, <2>2, PipelineAssumption DEF IInv, TypeOK
<1>8. SignalsInv' /\ TradesComeFromApprovals'
  BY <1>1, TradesStay DEF IInv, SignalsInv
<1>9. FreshInv'
  BY <1>1, <1>2, <1>3, <1>4 DEF IInv, FreshInv, SameContent, p
<1>10. MemoryInv'
  BY <1>1 DEF IInv, MemoryInv, Covered, IsProposal
<1>11. DraftInv'
  BY <1>1, <1>3, <1>4 DEF IInv, DraftInv, SameContent, p
<1>12. TradesInv' /\ ReportInv'
  BY <1>1 DEF IInv, TradesInv, ReportInv, Grave
<1>13. QED
  BY <1>6, <1>7, <1>8, <1>9, <1>10, <1>11, <1>12 DEF IInv

(* The run takes its inputs and keeps what it made of them in memory.      *)
LEMMA LoadKeeps ==
    ASSUME IInv, Load
    PROVE  IInv'
<1>1. /\ run # Idle /\ run.step = "load" /\ today \in Nat
      /\ UNCHANGED <<signals, bundles, proposals, decisions, trades, contexts,
                     gates, summary, today, reviews>>
  BY DayIsNatural DEF Load, At, IInv, Idle
<1>2. PICK bundle, in, selection :
          /\ in = Inputs(bundle)
          /\ selection = build_portfolio_selection(in, run.request.limits)
          /\ Step("gate", [in |-> in, selection |-> selection, id |-> ProposalDay(in),
                           proposal |-> RiskReviewed(in, selection, bundle)])
  BY DEF Load
<1> DEFINE p == RiskReviewed(in, selection, bundle)
           fields == [in |-> in, selection |-> selection, id |-> ProposalDay(in), proposal |-> p]
<1>3. IsFiniteSet(selection.ideas)
  <2>1. in.signals \subseteq signals
    BY <1>2, InputsFacts DEF VisibleSignals
  <2>2. IsFiniteSet(in.signals)
    BY <2>1, FS_Subset DEF IInv, SignalsInv
  <2>3. QED
    BY <1>2, <2>2, SelectionFinite
<1>4. /\ IsProposal(p) /\ p.status = "pending_review" /\ p.created = today
      /\ p.mapping = None
  BY <1>1, <1>3, RiskReviewedFacts
<1> HIDE DEF p
<1>5. /\ DOMAIN fields = {"in", "selection", "id", "proposal"} /\ fields.proposal = p
      /\ "step" \notin DOMAIN fields
  OBVIOUS
<1>6. Step("gate", fields)
  BY <1>2 DEF p
<1> HIDE DEF fields
<1>7. /\ DOMAIN run' = DOMAIN run \cup {"in", "selection", "id", "proposal"}
      /\ run' = [k \in DOMAIN run' |-> run'[k]]
      /\ run'.step = "gate" /\ run'.proposal = p
      /\ \A k \in DOMAIN run \ DOMAIN fields : k # "step" => run'[k] = run[k]
  BY <1>1, <1>5, <1>6, StepFacts DEF IInv
<1>8. run'.request = run.request /\ {"step", "request"} \subseteq DOMAIN run
  BY <1>1, <1>5, <1>7 DEF IInv, MemoryInv
<1>9. TypeOK' /\ SignalsInv' /\ FilesInv' /\ TradesComeFromApprovals'
  BY <1>1, <1>7, TradesStay DEF IInv, TypeOK, SignalsInv, FilesInv, Covered, IsProposal
<1>10. FreshInv' /\ DraftInv' /\ TradesInv' /\ ReportInv'
  BY <1>1, <1>7 DEF IInv, FreshInv, DraftInv, TradesInv, ReportInv, Drafted, Loaded, Traded,
     Compared, Idle
<1>11. Covered(decisions', run'.id, run'.proposal)
  BY <1>4, <1>7 DEF Covered
<1>12. MemoryInv'
  BY <1>1, <1>4, <1>7, <1>8, <1>11 DEF IInv, MemoryInv, Loaded, Compared
<1>13. QED
  BY <1>9, <1>10, <1>12 DEF IInv

(* The run goes on with a proposal that is as good as the one it held.     *)
LEMMA MemoryGoesOn ==
    ASSUME MemoryInv, run # Idle, run.step \in Loaded, NEW name \in Loaded, run'.step = name,
           run' = [k \in DOMAIN run' |-> run'[k]], DOMAIN run \subseteq DOMAIN run',
           run'.request = run.request, run'.id = run.id,
           IsProposal(run'.proposal), Covered(decisions', run.id, run'.proposal),
           run'.proposal.created = run.proposal.created,
           name \notin Compared => run'.proposal.mapping = None, UNCHANGED today
    PROVE  MemoryInv'
BY DEF MemoryInv, Loaded, Idle

(* Steps that write nothing this module's properties are about.            *)
LEMMA PassesKeep ==
    ASSUME IInv, GatePasses \/ SkipReview
    PROVE  IInv'
<1>1. /\ run # Idle
      /\ UNCHANGED <<signals, bundles, proposals, decisions, trades, contexts, summary,
                     today, reviews>>
  BY DEF GatePasses, SkipReview, At, Idle
<1>2. PICK name : /\ GoOn(name)
                  /\ <<run.step, name>> \in {<<"gate", "draft">>, <<"review", "propose">>}
  BY DEF GatePasses, SkipReview, At
<1>3. run.step \in Loaded /\ name \in Loaded \ Compared /\ run.step \notin Compared
  BY <1>2 DEF Loaded, Compared
<1>4. /\ DOMAIN run' = DOMAIN run /\ run' = [k \in DOMAIN run' |-> run'[k]]
      /\ run'.step = name
      /\ \A k \in DOMAIN run : k # "step" => run'[k] = run[k]
  BY <1>1, <1>2, GoOnFacts DEF IInv
<1>5. /\ run'.request = run.request /\ run'.id = run.id /\ run'.proposal = run.proposal
      /\ IsProposal(run.proposal) /\ Covered(decisions, run.id, run.proposal)
      /\ run.proposal.mapping = None
  BY <1>1, <1>3, <1>4 DEF IInv, MemoryInv
<1>6. MemoryInv'
  BY <1>1, <1>3, <1>4, <1>5, MemoryGoesOn DEF IInv
<1>7. TypeOK' /\ SignalsInv' /\ FilesInv' /\ FreshInv' /\ TradesComeFromApprovals'
  BY <1>1, <1>2, <1>4 DEF IInv, TypeOK, SignalsInv, FilesInv, FreshInv, Covered, IsProposal,
     TradesComeFromApprovals, Approvals, Idle
<1>8. DraftInv' /\ TradesInv' /\ ReportInv'
  BY <1>1, <1>2, <1>4, <1>5 DEF IInv, DraftInv, TradesInv, ReportInv, SameContent, Drafted,
     Loaded, Traded, Compared, Idle
<1>9. QED
  BY <1>6, <1>7, <1>8 DEF IInv

(* The proposal is filed; whatever was approved under its identifier goes. *)
LEMMA WriteDraftKeeps ==
    ASSUME IInv, WriteDraft
    PROVE  IInv'
<1>1. /\ run # Idle /\ run.step = "draft" /\ GoOn("review") /\ today \in Nat
      /\ proposals' = Put(proposals, run.id, run.proposal)
      /\ UNCHANGED <<signals, bundles, decisions, trades, contexts, gates,
                     summary, today, reviews>>
  BY DayIsNatural DEF WriteDraft, At, IInv, Idle
<1>2. /\ DOMAIN run' = DOMAIN run /\ run' = [k \in DOMAIN run' |-> run'[k]]
      /\ run'.step = "review"
      /\ \A k \in DOMAIN run : k # "step" => run'[k] = run[k]
  BY <1>1, GoOnFacts DEF IInv
<1>3. /\ run'.request = run.request /\ run'.id = run.id /\ run'.proposal = run.proposal
      /\ IsProposal(run.proposal) /\ Covered(decisions, run.id, run.proposal)
      /\ run.proposal.mapping = None /\ run.proposal.created = today
  BY <1>1, <1>2 DEF IInv, MemoryInv, Loaded, Compared
<1>4. FilesInv'
  BY <1>1, <1>3, FilePut DEF IInv, FilesInv
<1>5. MemoryInv'
  BY <1>1, <1>2, <1>3, MemoryGoesOn DEF IInv, Loaded, Compared
<1>6. TypeOK'
  BY <1>1, <1>2, <1>4 DEF IInv, TypeOK, FilesInv, IsProposal
<1>7. SignalsInv' /\ FreshInv' /\ TradesComeFromApprovals'
  BY <1>1, <1>2, TradesStay DEF IInv, SignalsInv, FreshInv, Idle
<1>8. DraftInv'
  BY <1>1, <1>2, <1>3 DEF DraftInv, SameContent, Put
<1>9. TradesInv' /\ ReportInv'
  BY <1>1, <1>2 DEF IInv, TradesInv, ReportInv, Traded, Compared
<1>10. QED
  BY <1>4, <1>5, <1>6, <1>7, <1>8, <1>9 DEF IInv

LEMMA ReviewInRunKeeps ==
    ASSUME IInv, ReviewInRun
    PROVE  IInv'
<1> DEFINE p == proposals[run.id]
           verdict == run.request.verdict
           q == Reviewed(p, verdict)
           fields == [proposal |-> q]
<1>1. /\ run # Idle /\ run.step = "review" /\ verdict # None /\ MayApply(p, verdict)
      /\ decisions' = decisions \cup {Decision(run.id, p, verdict)}
      /\ proposals' = Put(proposals, run.id, q) /\ Step("propose", fields)
      /\ UNCHANGED <<signals, bundles, trades, contexts, gates, summary, today, reviews>>
  BY DEF ReviewInRun, At, Idle
<1>2. /\ verdict \in Verdict /\ run.id \in DOMAIN proposals /\ SameContent(p, run.proposal)
      /\ IsProposal(p) /\ p.created <= today /\ p.created = run.proposal.created
      /\ run.proposal.mapping = None /\ run.proposal.created = today
  <2>1. /\ run.request \in Request /\ run.step \in Loaded /\ run.step \in Drafted
        /\ run.step \in Loaded \ Compared
    BY <1>1 DEF IInv, MemoryInv, Drafted, Loaded, Compared
  <2>2. verdict \in Verdict
    BY <1>1, <2>1, PipelineAssumption DEF IsRequest
  <2>3. run.proposal.mapping = None /\ run.proposal.created = today
    BY <1>1, <2>1 DEF IInv, MemoryInv
  <2>4. run.id \in DOMAIN proposals /\ SameContent(p, run.proposal)
    BY <1>1, <2>1 DEF IInv, DraftInv
  <2>5. IsProposal(p) /\ p.created <= today
    BY <2>4 DEF IInv, FilesInv
  <2>6. QED
    BY <2>2, <2>3, <2>4, <2>5 DEF SameContent
<1>3. /\ IsProposal(q) /\ SameContent(q, p) /\ Covered(decisions', run.id, q)
  BY <1>1, <1>2, ReviewedFacts, ReviewCovers
<1>4. /\ Decision(run.id, p, verdict).at = today
      /\ Decision(run.id, p, verdict).outcome = verdict /\ today \in Nat
  BY DayIsNatural DEF Decision, IInv
<1> HIDE DEF p, q
<1>5. DOMAIN fields = {"proposal"} /\ fields.proposal = q /\ "step" \notin DOMAIN fields
  OBVIOUS
<1> HIDE DEF fields
<1>6. /\ DOMAIN run' = DOMAIN run \cup {"proposal"} /\ run' = [k \in DOMAIN run' |-> run'[k]]
      /\ run'.step = "propose" /\ run'.proposal = q
      /\ \A k \in DOMAIN run \ {"proposal"} : k # "step" => run'[k] = run[k]
  BY <1>1, <1>5, StepFacts DEF IInv
<1>7. /\ run'.request = run.request /\ run'.id = run.id
      /\ DOMAIN run \subseteq DOMAIN run'
  BY <1>1, <1>6 DEF IInv, MemoryInv, Loaded
<1>8. FilesInv'
  <2>1. \A d \in decisions' : d.at \in Nat
    BY <1>1, <1>4 DEF IInv, FilesInv
  <2>2. q.created <= today
    BY <1>2, <1>3 DEF SameContent
  <2>3. QED
    BY <1>1, <1>3, <2>1, <2>2, FilePut DEF IInv
<1>9. MemoryInv'
  BY <1>1, <1>2, <1>3, <1>6, <1>7, MemoryGoesOn DEF IInv, SameContent, Loaded, Compared
<1>10. TypeOK'
  <2>1. \A d \in decisions' : d.outcome \in Verdict /\ d.at <= today
    BY <1>1, <1>2, <1>4 DEF IInv, TypeOK
  <2>2. QED
    BY <1>1, <1>6, <1>8, <2>1 DEF IInv, TypeOK, FilesInv, IsProposal
<1>11. SignalsInv' /\ FreshInv' /\ TradesComeFromApprovals'
  BY <1>1, <1>6, TradesStay DEF IInv, SignalsInv, FreshInv, Idle
<1>12. DraftInv'
  BY <1>1, <1>6, <1>7 DEF DraftInv, SameContent, Put
<1>13. TradesInv' /\ ReportInv'
  BY <1>1, <1>6 DEF IInv, TradesInv, ReportInv, Traded, Compared
<1>14. QED
  BY <1>8, <1>9, <1>10, <1>11, <1>12, <1>13 DEF IInv

(* Trades are made of positions that the approval in memory covers.        *)
LEMMA ProposeTradesKeeps ==
    ASSUME IInv, ProposeTrades
    PROVE  IInv'
<1>1. PICK made, gate :
          /\ \/ made = {}
             \/ made = CandidateTrades /\ run.proposal.status = "approved"
          /\ FileTrades(made) /\ Step("reconcile", [trades |-> made, gate |-> gate])
  BY DEF ProposeTrades, TradesStopped
<1> DEFINE fields == [trades |-> made, gate |-> gate]
<1>2. /\ run # Idle /\ run.step = "propose" /\ today \in Nat
      /\ \E ts : contexts' = contexts \cup {Context(ts)}
      /\ UNCHANGED <<signals, bundles, proposals, decisions, summary, today, reviews>>
  BY DayIsNatural DEF ProposeTrades, At, IInv, Idle
<1>3. DOMAIN fields = {"trades", "gate"} /\ fields.trades = made /\ "step" \notin DOMAIN fields
  OBVIOUS
<1> HIDE DEF fields
<1>4. Step("reconcile", fields)
  BY <1>1 DEF fields
<1>5. /\ DOMAIN run' = DOMAIN run \cup {"trades", "gate"}
      /\ run' = [k \in DOMAIN run' |-> run'[k]]
      /\ run'.step = "reconcile" /\ run'.trades = made
      /\ \A k \in DOMAIN run \ {"trades", "gate"} : k # "step" => run'[k] = run[k]
  BY <1>2, <1>3, <1>4, StepFacts DEF IInv
<1>6. /\ run'.request = run.request /\ run'.id = run.id /\ run'.proposal = run.proposal
      /\ DOMAIN run \subseteq DOMAIN run' /\ run.proposal.mapping = None
      /\ IsProposal(run.proposal) /\ Covered(decisions, run.id, run.proposal)
  BY <1>2, <1>5 DEF IInv, MemoryInv, Loaded, Compared
<1>7. \A t \in made : /\ t.proposal = run.id /\ t.idea \in run.proposal.ideas
                      /\ t.submitted = today /\ t.batch = today
                      /\ run.proposal.status = "approved"
  BY <1>1 DEF CandidateTrades, PaperTrade
<1>8. made # {} => {t.idea : t \in made} = run.proposal.ideas
  <2>1. made = CandidateTrades => {t.idea : t \in made} \subseteq run.proposal.ideas
    BY DEF CandidateTrades, PaperTrade
  <2>2. ASSUME made = CandidateTrades, NEW i \in run.proposal.ideas
        PROVE  i \in {t.idea : t \in made}
    <3>1. PaperTrade(i) \in made /\ PaperTrade(i).idea = i
      BY <2>2 DEF CandidateTrades, PaperTrade
    <3>2. QED
      BY <3>1
  <2>3. QED
    BY <1>1, <2>1, <2>2
<1>9. \A t \in trades : t.batch < today
  BY <1>2 DEF IInv, TradesInv, Traded
<1>10. made \subseteq trades' /\ \A t \in trades' : t \in trades \/ t \in made
  BY <1>1 DEF FileTrades
<1>11. FilesInv' /\ SignalsInv' /\ FreshInv'
  BY <1>2, <1>5, <1>7, <1>10 DEF IInv, FilesInv, SignalsInv, FreshInv, Covered, IsProposal, Idle
<1>12. MemoryInv'
  BY <1>2, <1>5, <1>6, MemoryGoesOn DEF IInv, Loaded, Compared
<1>13. TypeOK'
  BY <1>2, <1>5, <1>7, <1>10 DEF IInv, TypeOK
<1>14. DraftInv'
  BY <1>2, <1>5, <1>6 DEF IInv, DraftInv, SameContent, Drafted, Loaded
<1>15. TradesInv'
  <2>1. {t \in trades' : t.batch = today} = made
    BY <1>2, <1>7, <1>9, <1>10
  <2>2. QED
    BY <1>2, <1>5, <1>6, <1>7, <1>8, <2>1 DEF TradesInv, Traded
<1>16. ReportInv'
  <2>1. ASSUME NEW ts
        PROVE  /\ "warnings" \in DOMAIN Context(ts).paper
               /\ \A w \in Context(ts).paper.warnings : w.severity \in DOMAIN Severity
    BY DEF Context, build_paper_realism_context, build_paper_realism_warnings, Warning, Severity
  <2>2. QED
    BY <1>2, <1>5, <2>1 DEF IInv, ReportInv, Compared
<1>17. TradesComeFromApprovals'
  <2>1. ASSUME NEW t \in made
        PROVE  \E d \in Approvals(t.proposal) :
                   t.idea \in d.ideas /\ ~d.blocked /\ d.at <= t.submitted
    BY <1>6, <1>7 DEF Covered, Approvals, IInv, TypeOK
  <2>2. QED
    BY <1>2, <1>10, <2>1 DEF IInv, TradesComeFromApprovals, Approvals
<1>18. QED
  BY <1>11, <1>12, <1>13, <1>14, <1>15, <1>16, <1>17 DEF IInv

(* A backtest always warns of its own prices, so its report is grave.      *)
LEMMA SomeGraveIsGrave ==
    ASSUME NEW items, \A i \in items : i.severity \in DOMAIN Severity,
           \E i \in items : i.severity = "high"
    PROVE  highest_severity(items) \in {"high", "critical"}
<1> DEFINE severities == {i.severity : i \in items}
           top(s) == \A i \in items : Severity[i.severity] <= Severity[s]
<1>1. DOMAIN Severity = {"info", "low", "medium", "high", "critical"}
  BY DEF Severity
<1>2. "high" \in severities /\ severities \subseteq DOMAIN Severity /\ items # {}
  OBVIOUS
<1>3. \E s \in severities : top(s)
  <2>1. CASE "critical" \in severities
    <3>1. \A i \in items : Severity[i.severity] <= Severity["critical"]
      BY <1>1 DEF Severity
    <3>2. QED
      BY <2>1, <3>1
  <2>2. CASE "critical" \notin severities
    <3>1. \A i \in items : i.severity \in {"info", "low", "medium", "high"}
      BY <1>1, <2>2
    <3>2. \A i \in items : Severity[i.severity] <= Severity["high"]
      BY <3>1 DEF Severity
    <3>3. QED
      BY <1>2, <3>2
  <2>3. QED
    BY <2>1, <2>2
<1>4. highest_severity(items) = CHOOSE s \in severities : top(s)
  BY <1>2 DEF highest_severity
<1>5. highest_severity(items) \in severities /\ top(highest_severity(items))
  BY <1>3, <1>4
<1>6. \A s \in severities : Severity["high"] <= Severity[s] => s \in {"high", "critical"}
  BY <1>2, <1>1 DEF Severity
<1>7. QED
  BY <1>5, <1>6

LEMMA ReportIsGrave ==
    ASSUME NEW p, NEW asOf, NEW ts, NEW ss, NEW r, NEW decidedAt, NEW paper,
           \A w \in paper.warnings : w.severity \in DOMAIN Severity
    PROVE  build_report(p, asOf, ts, ss, r, decidedAt, paper).severity \in {"high", "critical"}
<1> DEFINE bt == build_backtest_realism_context(r)
           assumed == detect_assumption_mismatches(bt, paper)
           available == detect_availability_mismatches(p, asOf, ts, ss, r, decidedAt)
           delay == ApprovalDelay(asOf, decidedAt)
           items == (assumed \cup available) \cup (bt.warnings \cup paper.warnings \cup delay)
<1>1. /\ \A w \in bt.warnings : w.severity \in DOMAIN Severity
      /\ \E w \in bt.warnings : w.severity = "high"
  <2>1. bt.warnings = build_backtest_realism_warnings
    BY DEF build_backtest_realism_context
  <2>2. \A w \in build_backtest_realism_warnings : w.severity \in {"high", "medium"}
    BY DEF build_backtest_realism_warnings, Warning
  <2>3. /\ Warning("synthetic_price_fixture", "high") \in build_backtest_realism_warnings
        /\ Warning("synthetic_price_fixture", "high").severity = "high"
    BY DEF build_backtest_realism_warnings, Warning
  <2>4. {"high", "medium"} \subseteq DOMAIN Severity
    BY DEF Severity
  <2> HIDE DEF bt
  <2>5. QED
    BY <2>1, <2>2, <2>3, <2>4
<1>2. \A m \in assumed : m.severity \in DOMAIN Severity
  BY DEF detect_assumption_mismatches, If, Mismatch, Severity
<1>3. \A m \in available : m.severity \in DOMAIN Severity
  BY DEF detect_availability_mismatches, If, Mismatch, Severity
<1>4. \A w \in delay : w.severity \in DOMAIN Severity
  BY DEF ApprovalDelay, If, Warning, Severity
<1>5. build_report(p, asOf, ts, ss, r, decidedAt, paper).severity = highest_severity(items)
  BY DEF build_report
<1> HIDE DEF bt, assumed, available, delay
<1>6. QED
  BY <1>1, <1>2, <1>3, <1>4, <1>5, SomeGraveIsGrave

LEMMA ReconcileKeeps ==
    ASSUME IInv, Reconcile
    PROVE  IInv'
<1> DEFINE reportOn(c, r) ==
               build_report(proposals[run.id], run.id, ComparedTrades, signals, r, DecidedAt,
                            [c.paper EXCEPT !.warnings = WarningsOnFile])
<1>0. PICK c \in PaperContexts, r \in VisibleRuns(run.request.asOf, Backtest) :
          /\ proposals' = Put(proposals, run.id, [run.proposal EXCEPT !.mapping = reportOn(c, r)])
          /\ Step("report", [proposal |-> [run.proposal EXCEPT !.mapping = reportOn(c, r)],
                             report |-> reportOn(c, r)])
  BY DEF Reconcile
<1> DEFINE report == reportOn(c, r)
           p == [run.proposal EXCEPT !.mapping = report]
           fields == [proposal |-> p, report |-> report]
<1>1. report.severity \in {"high", "critical"}
  <2> DEFINE paper == [c.paper EXCEPT !.warnings = WarningsOnFile]
  <2>1. c \in contexts
    BY DEF PaperContexts
  <2>2. paper.warnings = WarningsOnFile
    BY <2>1 DEF IInv, ReportInv
  <2>3. \A w \in WarningsOnFile : w.severity \in DOMAIN Severity
    BY DEF WarningsOnFile, IInv, ReportInv
  <2>4. report = build_report(proposals[run.id], run.id, ComparedTrades, signals, r, DecidedAt,
                              paper)
    OBVIOUS
  <2> HIDE DEF paper, report
  <2>5. QED
    BY <2>2, <2>3, <2>4, ReportIsGrave
<1>written. proposals' = Put(proposals, run.id, p) /\ Step("report", fields)
  BY <1>0
<1> HIDE DEF report
<1>2. /\ run # Idle /\ run.step = "reconcile" /\ today \in Nat
      /\ UNCHANGED <<signals, bundles, decisions, trades, contexts, gates,
                     summary, today, reviews>>
  BY DayIsNatural DEF Reconcile, At, IInv, Idle
<1>3. /\ {"in", "selection", "id", "proposal", "request"} \subseteq DOMAIN run
      /\ IsProposal(run.proposal) /\ Covered(decisions, run.id, run.proposal)
      /\ run.proposal.created = today
  BY <1>2 DEF IInv, MemoryInv, Loaded
<1>4. /\ IsProposal(p) /\ Covered(decisions, run.id, p) /\ p.created = today
      /\ p.mapping = report /\ p.ideas = run.proposal.ideas /\ p.status = run.proposal.status
  BY <1>3 DEF IsProposal, Covered, ProposalFields
<1> HIDE DEF p
<1>5. /\ DOMAIN fields = {"proposal", "report"} /\ fields.proposal = p /\ fields.report = report
      /\ "step" \notin DOMAIN fields
  OBVIOUS
<1>6. Step("report", fields) /\ proposals' = Put(proposals, run.id, p)
  BY <1>written
<1> HIDE DEF fields
<1>7. /\ DOMAIN run' = DOMAIN run \cup {"proposal", "report"}
      /\ run' = [k \in DOMAIN run' |-> run'[k]]
      /\ run'.step = "report" /\ run'.proposal = p /\ run'.report = report
      /\ \A k \in DOMAIN run \ {"proposal", "report"} : k # "step" => run'[k] = run[k]
  BY <1>2, <1>5, <1>6, StepFacts DEF IInv
<1>8. /\ run'.request = run.request /\ run'.id = run.id
      /\ DOMAIN run \subseteq DOMAIN run'
  BY <1>3, <1>7
<1>9. FilesInv'
  BY <1>2, <1>4, <1>6, FilePut DEF IInv, FilesInv
<1>10. MemoryInv'
  BY <1>2, <1>3, <1>4, <1>7, <1>8, MemoryGoesOn DEF IInv, Loaded, Compared
<1>11. TypeOK'
  BY <1>2, <1>7, <1>9 DEF IInv, TypeOK, FilesInv, IsProposal
<1>12. SignalsInv' /\ FreshInv' /\ TradesComeFromApprovals'
  BY <1>2, <1>7, TradesStay DEF IInv, SignalsInv, FreshInv, Idle
<1>13. DraftInv'
  BY <1>6, <1>7, <1>8 DEF DraftInv, SameContent, Put
<1>14. TradesInv'
  <2>1. /\ {"trades", "gate"} \subseteq DOMAIN run
        /\ {t \in trades : t.batch = today} = run.trades
        /\ run.trades # {} => /\ {t.idea : t \in run.trades} = run.proposal.ideas
                              /\ \A t \in run.trades : t.proposal = run.id
                              /\ run.proposal.status = "approved"
    BY <1>2 DEF IInv, TradesInv, Traded
  <2>2. run'.trades = run.trades
    BY <1>7, <2>1
  <2>3. QED
    BY <1>2, <1>4, <1>7, <1>8, <2>1, <2>2 DEF TradesInv, Traded
<1>15. ReportInv'
  BY <1>1, <1>2, <1>4, <1>7 DEF IInv, ReportInv, Grave
<1>16. QED
  BY <1>9, <1>10, <1>11, <1>12, <1>13, <1>14, <1>15 DEF IInv

(* What the run holds of its trades stays while neither they nor its       *)
(* verdict change.                                                         *)
LEMMA TradesHeld ==
    ASSUME TradesInv, run # Idle, run.step \in Traded, run'.step \in Traded,
           DOMAIN run \subseteq DOMAIN run', run'.trades = run.trades, run'.id = run.id,
           run'.proposal.ideas = run.proposal.ideas,
           run'.proposal.status = run.proposal.status, UNCHANGED <<trades, today>>
    PROVE  TradesInv'
BY DEF TradesInv

LEMMA SkipReconciliationKeeps ==
    ASSUME IInv, SkipReconciliation
    PROVE  IInv'
<1> DEFINE fields == [report |-> None]
<1>1. /\ run # Idle /\ run.step = "reconcile" /\ today \in Nat /\ Step("report", fields)
      /\ UNCHANGED <<signals, bundles, proposals, decisions, trades, contexts, gates,
                     summary, today, reviews>>
  BY DayIsNatural DEF SkipReconciliation, At, IInv, Idle
<1>2. /\ {"in", "selection", "id", "proposal", "request"} \subseteq DOMAIN run
      /\ IsProposal(run.proposal) /\ Covered(decisions, run.id, run.proposal)
      /\ run.proposal.mapping = None /\ "trades" \in DOMAIN run
  BY <1>1 DEF IInv, MemoryInv, TradesInv, Loaded, Compared, Traded
<1>3. DOMAIN fields = {"report"} /\ fields.report = None /\ "step" \notin DOMAIN fields
  OBVIOUS
<1> HIDE DEF fields
<1>4. /\ DOMAIN run' = DOMAIN run \cup {"report"} /\ run' = [k \in DOMAIN run' |-> run'[k]]
      /\ run'.step = "report" /\ run'.report = None
      /\ \A k \in DOMAIN run \ {"report"} : k # "step" => run'[k] = run[k]
  BY <1>1, <1>3, StepFacts DEF IInv
<1>5. /\ run'.request = run.request /\ run'.id = run.id /\ run'.proposal = run.proposal
      /\ run'.trades = run.trades /\ DOMAIN run \subseteq DOMAIN run'
  BY <1>2, <1>4
<1>6. MemoryInv'
  BY <1>1, <1>2, <1>4, <1>5, MemoryGoesOn DEF IInv, Loaded, Compared
<1>7. TypeOK' /\ SignalsInv' /\ FilesInv' /\ FreshInv' /\ TradesComeFromApprovals'
  BY <1>1, <1>4, TradesStay DEF IInv, TypeOK, SignalsInv, FilesInv, FreshInv, Covered,
     IsProposal, Idle
<1>8. TradesInv'
  BY <1>1, <1>4, <1>5, TradesHeld DEF IInv, Traded
<1>9. DraftInv' /\ ReportInv'
  BY <1>1, <1>2, <1>4, <1>5 DEF IInv, DraftInv, ReportInv, SameContent, Drafted, Loaded, Grave
<1>10. QED
  BY <1>6, <1>7, <1>8, <1>9 DEF IInv

LEMMA WriteScorecardKeeps ==
    ASSUME IInv, WriteScorecard
    PROVE  IInv'
<1> DEFINE p == [run.proposal EXCEPT !.scorecard = TRUE]
           fields == [proposal |-> p]
<1>1. /\ run # Idle /\ run.step = "report" /\ today \in Nat /\ Step("conclude", fields)
      /\ proposals' = Put(proposals, run.id, p)
      /\ UNCHANGED <<signals, bundles, decisions, trades, contexts, gates,
                     summary, today, reviews>>
  BY DayIsNatural DEF WriteScorecard, At, IInv, Idle
<1>2. /\ {"in", "selection", "id", "proposal", "request"} \subseteq DOMAIN run
      /\ IsProposal(run.proposal) /\ Covered(decisions, run.id, run.proposal)
      /\ run.proposal.created = today /\ "trades" \in DOMAIN run /\ "report" \in DOMAIN run
      /\ run.report = None => run.proposal.mapping = None
      /\ run.report # None => Grave(run.report)
  BY <1>1 DEF IInv, MemoryInv, TradesInv, ReportInv, Loaded, Compared, Traded
<1>3. /\ IsProposal(p) /\ Covered(decisions, run.id, p) /\ p.created = today
      /\ p.mapping = run.proposal.mapping /\ p.ideas = run.proposal.ideas
      /\ p.status = run.proposal.status
  BY <1>2 DEF IsProposal, Covered, ProposalFields
<1> HIDE DEF p
<1>4. DOMAIN fields = {"proposal"} /\ fields.proposal = p /\ "step" \notin DOMAIN fields
  OBVIOUS
<1> HIDE DEF fields
<1>5. /\ DOMAIN run' = DOMAIN run \cup {"proposal"} /\ run' = [k \in DOMAIN run' |-> run'[k]]
      /\ run'.step = "conclude" /\ run'.proposal = p
      /\ \A k \in DOMAIN run \ {"proposal"} : k # "step" => run'[k] = run[k]
  BY <1>1, <1>4, StepFacts DEF IInv
<1>6. /\ run'.request = run.request /\ run'.id = run.id /\ run'.report = run.report
      /\ run'.trades = run.trades /\ DOMAIN run \subseteq DOMAIN run'
  BY <1>2, <1>5
<1>7. FilesInv'
  BY <1>1, <1>3, FilePut DEF IInv, FilesInv
<1>8. MemoryInv'
  BY <1>1, <1>2, <1>3, <1>5, <1>6, MemoryGoesOn DEF IInv, Loaded, Compared
<1>9. TypeOK'
  BY <1>1, <1>5, <1>7 DEF IInv, TypeOK, FilesInv, IsProposal
<1>10. SignalsInv' /\ FreshInv' /\ TradesComeFromApprovals'
  BY <1>1, <1>5, TradesStay DEF IInv, SignalsInv, FreshInv, Idle
<1>11. DraftInv'
  BY <1>1, <1>5, <1>6 DEF DraftInv, SameContent, Put
<1>12. TradesInv'
  BY <1>1, <1>3, <1>5, <1>6, TradesHeld DEF IInv, Traded
<1>13. ReportInv'
  BY <1>1, <1>2, <1>3, <1>5, <1>6 DEF IInv, ReportInv, Grave
<1>14. QED
  BY <1>7, <1>8, <1>9, <1>10, <1>11, <1>12, <1>13 DEF IInv

LEMMA NextKeeps == IInv /\ [Next]_vars => IInv'
<1> SUFFICES ASSUME IInv, [Next]_vars PROVE IInv'
  OBVIOUS
<1>1. CASE UNCHANGED vars
  <2>1. TypeOK' /\ SignalsInv' /\ FilesInv' /\ FreshInv'
    BY <1>1 DEF vars, IInv, TypeOK, SignalsInv, FilesInv, FreshInv, Covered, IsProposal
  <2>2. MemoryInv' /\ DraftInv'
    BY <1>1 DEF vars, IInv, MemoryInv, DraftInv, Covered, IsProposal, SameContent
  <2>3. TradesInv' /\ ReportInv' /\ TradesComeFromApprovals'
    BY <1>1 DEF vars, IInv, TradesInv, ReportInv, TradesComeFromApprovals, Approvals, Grave
  <2>4. QED
    BY <2>1, <2>2, <2>3 DEF IInv
<1>2. CASE \E asOf \in {r.asOf : r \in Request} : Arbitrate(asOf)
  BY <1>2, ArbitrateKeeps
<1>3. CASE \E pid \in DOMAIN proposals, outcome \in Verdict : OperatorReviews(pid, outcome)
  BY <1>3, OperatorReviewsKeeps
<1>4. CASE \E request \in Request : Begin(request)
  BY <1>4, BeginKeeps
<1>5. CASE FileSignal \/ Load \/ WriteDraft \/ ReviewInRun \/ ProposeTrades
  BY <1>5, FileSignalKeeps, LoadKeeps, WriteDraftKeeps, ReviewInRunKeeps, ProposeTradesKeeps
<1>6. CASE GatePasses \/ SkipReview \/ Reconcile \/ SkipReconciliation \/ WriteScorecard
  BY <1>6, PassesKeep, ReconcileKeeps, SkipReconciliationKeeps, WriteScorecardKeeps
<1>7. CASE NothingToLoad \/ GateRefuses \/ ReviewRaises \/ Conclude \/ Die
  BY <1>7, EndsKeep
<1>8. QED
  BY <1>1, <1>2, <1>3, <1>4, <1>5, <1>6, <1>7 DEF Next

-----------------------------------------------------------------------------
(* The theorems.                                                           *)

(* The files and the run in progress are what the pipeline makes them, and *)
(* no decision or trade is dated after the day of the run.                 *)
THEOREM TypeCorrect == Spec => []TypeOK
<1>1. IInv => TypeOK
  BY DEF IInv
<1>2. QED
  BY <1>1, InitInv, NextKeeps, PTL DEF Spec

(* Whatever is approved on file was approved as it stands: a rerun of the  *)
(* same day, an operator's verdict between two writes of the run, and a    *)
(* run that dies never leave an approval of other content behind.          *)
THEOREM ApprovalsCoverContent == Spec => []ApprovalCoversContent
<1>1. IInv => ApprovalCoversContent
  BY DEF IInv, FilesInv, Covered, ApprovalCoversContent, Approvals
<1>2. QED
  BY <1>1, InitInv, NextKeeps, PTL DEF Spec

(* Every paper trade on file stems from a position that was approved, in a *)
(* proposal without blocking issues, by the time the trade was submitted.  *)
THEOREM TradesAreApproved == Spec => []TradesComeFromApprovals
<1>1. IInv => TradesComeFromApprovals
  BY DEF IInv
<1>2. QED
  BY <1>1, InitInv, NextKeeps, PTL DEF Spec

(* What a run concludes, by the way it ends.                               *)
LEMMA FailureIsBorneOut ==
    ASSUME IInv, NothingToLoad \/ GateRefuses \/ ReviewRaises
    PROVE  BorneOut(summary')
<1>1. /\ run # Idle /\ run.step \in {"load", "gate", "review"} /\ today \in Nat
      /\ summary'.status = "failed"
  BY DayIsNatural DEF NothingToLoad, GateRefuses, ReviewRaises, Fail, Close, At, Idle, IInv
<1>2. {t \in trades : t.batch = today} = {}
  BY <1>1 DEF IInv, TradesInv, FilesInv, Traded
<1>3. ASSUME summary'.reasons \in SUBSET {"quality_refusal", "no_signals"}
      PROVE  \A p \in DOMAIN proposals : proposals[p].created # today
  <2>1. run.step \in {"load", "gate"}
    BY <1>3 DEF NothingToLoad, GateRefuses, ReviewRaises, Fail, Close, At
  <2>2. \A p \in DOMAIN proposals : proposals[p].created < today
    BY <2>1 DEF IInv, FreshInv
  <2>3. QED
    BY <1>1, <2>2 DEF IInv, FilesInv, IsProposal
<1>4. QED
  BY <1>1, <1>2, <1>3 DEF BorneOut

LEMMA ConclusionIsBorneOut ==
    ASSUME IInv, Conclude
    PROVE  BorneOut(summary')
<1>1. /\ run # Idle /\ run.step = "conclude" /\ today \in Nat
      /\ IF RequiresAttention THEN Close("attention_required", run.id, AttentionReasons)
         ELSE Close("succeeded", run.id, {})
  BY DayIsNatural DEF Conclude, At, Idle, IInv
<1>2. CASE RequiresAttention
  <2>1. summary'.status = "attention_required" /\ summary'.reasons = AttentionReasons
    BY <1>1, <1>2 DEF Close
  <2>2. AttentionReasons # {}
    <3> DEFINE blocked == blocking_issues(run.proposal.checks) # {}
               approved == run.proposal.status = "approved"
               empty == run.trades = {}
               grave == Grave(run.report)
               refused == Gates!Refused(run.gate)
               reason == [blocking_issue |-> blocked,
                          proposal_not_approved_for_paper_trade |-> ~approved /\ empty,
                          paper_trade_quality_refusal |-> refused,
                          no_paper_trade_candidates |-> approved /\ empty,
                          reconciliation_high_severity_mismatch |-> grave]
    <3>1. AttentionReasons = {r \in DOMAIN reason : reason[r]}
      BY DEF AttentionReasons
    <3>2. blocked \/ empty \/ grave
      BY <1>2 DEF RequiresAttention
    <3> HIDE DEF blocked, approved, empty, grave, refused
    <3>3. \E r \in DOMAIN reason : reason[r]
      <4>1. CASE blocked
        <5>1. "blocking_issue" \in DOMAIN reason /\ reason["blocking_issue"] = blocked
          OBVIOUS
        <5>2. QED
          BY <4>1, <5>1
      <4>2. CASE grave
        <5>1. /\ "reconciliation_high_severity_mismatch" \in DOMAIN reason
              /\ reason["reconciliation_high_severity_mismatch"] = grave
          OBVIOUS
        <5>2. QED
          BY <4>2, <5>1
      <4>3. CASE empty /\ approved
        <5>1. /\ "no_paper_trade_candidates" \in DOMAIN reason
              /\ reason["no_paper_trade_candidates"] = (approved /\ empty)
          OBVIOUS
        <5>2. QED
          BY <4>3, <5>1
      <4>4. CASE empty /\ ~approved
        <5>1. /\ "proposal_not_approved_for_paper_trade" \in DOMAIN reason
              /\ reason["proposal_not_approved_for_paper_trade"] = (~approved /\ empty)
          OBVIOUS
        <5>2. QED
          BY <4>4, <5>1
      <4>5. QED
        BY <3>2, <4>1, <4>2, <4>3, <4>4
    <3>4. QED
      BY <3>1, <3>3
  <2>3. QED
    BY <2>1, <2>2 DEF BorneOut
<1>3. CASE ~RequiresAttention
  <2>1. summary'.status = "succeeded" /\ summary'.proposal = run.id
    BY <1>1, <1>3 DEF Close
  <2>2. run.trades # {} /\ ~Grave(run.report)
    BY <1>3 DEF RequiresAttention
  <2>3. /\ {t \in trades : t.batch = today} = run.trades
        /\ {t.idea : t \in run.trades} = run.proposal.ideas
        /\ \A t \in run.trades : t.proposal = run.id
        /\ run.proposal.status = "approved"
    BY <1>1, <2>2 DEF IInv, TradesInv, Traded
  <2>4. run.proposal.mapping = None
    BY <1>1, <2>2 DEF IInv, ReportInv, Compared
  <2>5. /\ proposals[run.id].ideas = run.proposal.ideas
        /\ proposals[run.id].mapping = run.proposal.mapping
    BY <1>1 DEF IInv, DraftInv, SameContent, Drafted, Loaded
  <2>6. \E d \in Approvals(run.id) : d.ideas = run.proposal.ideas
    BY <1>1, <2>3 DEF IInv, MemoryInv, Covered, Approvals, Loaded
  <2>7. {u \in {t \in trades : t.batch = today} : u.proposal = run.id} = run.trades
    BY <2>3
  <2>8. run.proposal.ideas # {}
    BY <2>2, <2>3
  <2>9. QED
    BY <2>1, <2>3, <2>4, <2>5, <2>6, <2>7, <2>8 DEF BorneOut
<1>4. QED
  BY <1>2, <1>3

(* What the summary of a run says is true of the files it leaves: success  *)
(* only with the trades of an approved proposal and without a report, a    *)
(* reason for every call for attention, and no trade after a failure.      *)
THEOREM ConclusionsAreTrue == Spec => ConclusionsAreBorneOut
<1>1. IInv /\ [Next]_vars => [summary' # summary => BorneOut(summary')]_vars
  <2> SUFFICES ASSUME IInv, [Next]_vars, summary' # summary
               PROVE  BorneOut(summary')
    OBVIOUS
  <2>1. NothingToLoad \/ GateRefuses \/ ReviewRaises \/ Conclude
    BY DEF vars, Next, Arbitrate, FileSignal, OperatorReviews, Begin, Load, GatePasses, WriteDraft,
       ReviewInRun, SkipReview, ProposeTrades, Reconcile, SkipReconciliation, WriteScorecard, Die
  <2>2. QED
    BY <2>1, FailureIsBorneOut, ConclusionIsBorneOut
<1>2. QED
  BY <1>1, InitInv, NextKeeps, PTL DEF Spec, ConclusionsAreBorneOut

-----------------------------------------------------------------------------
(* The order of the candidates.                                            *)

RankKey(in, s) == Append(SubstantiveRankKey(in, s), s.id)

LEMMA RankKeyTyped ==
    ASSUME NEW in, NEW s, IsSignal(s)
    PROVE  Len(RankKey(in, s)) = 5 /\ \A i \in 1..5 : RankKey(in, s)[i] \in Int
<1> DEFINE key == SubstantiveRankKey(in, s)
<1>1. Abs(s.score) \in Int /\ s.effective \in Int /\ s.id \in Int /\ MaturityBucket(s) \in Int
  BY DEF IsSignal, Abs, MaturityBucket
<1>2. key \in Seq(Int) /\ Len(key) = 4
  BY <1>1 DEF SubstantiveRankKey
<1> HIDE DEF key
<1>3. Append(key, s.id) \in Seq(Int) /\ Len(Append(key, s.id)) = 5
  <2>1. s.id \in Int
    BY <1>1
  <2> DEFINE id == s.id
  <2> HIDE DEF id
  <2>2. id \in Int
    BY <2>1 DEF id
  <2>3. Append(key, id) \in Seq(Int) /\ Len(Append(key, id)) = Len(key) + 1
    BY <1>2, <2>2, AppendProperties
  <2>4. QED
    BY <1>2, <2>3 DEF id
<1>4. QED
  BY <1>3, LenProperties DEF RankKey, key

LEMMA LexLessTransitive ==
    ASSUME NEW n \in Nat, NEW a, NEW b, NEW c, Len(a) = n, Len(b) = n, Len(c) = n,
           \A i \in 1..n : a[i] \in Int /\ b[i] \in Int /\ c[i] \in Int,
           LexLess(a, b), LexLess(b, c)
    PROVE  LexLess(a, c)
<1>1. PICK i \in 1..n : a[i] < b[i] /\ \A k \in 1..(i - 1) : a[k] = b[k]
  BY DEF LexLess
<1>2. PICK j \in 1..n : b[j] < c[j] /\ \A k \in 1..(j - 1) : b[k] = c[k]
  BY DEF LexLess
<1>3. CASE i <= j
  <2>1. b[i] <= c[i]
    BY <1>2, <1>3
  <2>2. a[i] < c[i] /\ \A k \in 1..(i - 1) : a[k] = c[k]
    BY <1>1, <1>2, <1>3, <2>1
  <2>3. QED
    BY <2>2 DEF LexLess
<1>4. CASE j < i
  <2>1. a[j] < c[j] /\ \A k \in 1..(j - 1) : a[k] = c[k]
    BY <1>1, <1>2, <1>4
  <2>2. QED
    BY <2>1 DEF LexLess
<1>5. QED
  BY <1>3, <1>4

(* A transitive relation without loops leaves something first in every     *)
(* finite set.                                                             *)
LEMMA SomethingIsFirst ==
    ASSUME NEW E, IsFiniteSet(E), E # {}, NEW R,
           \A a, b, c \in E : <<a, b>> \in R /\ <<b, c>> \in R => <<a, c>> \in R,
           \A a \in E : <<a, a>> \notin R
    PROVE  \E x \in E : \A y \in E : <<y, x>> \notin R
<1> DEFINE Ahead(x) == {y \in E : <<y, x>> \in R}
           T == {Ahead(x) : x \in E}
<1>1. T \subseteq FiniteSubsetsOf(E) /\ T # {}
  <2>1. \A A \in SUBSET E : IsFiniteSet(A)
    BY FS_Subset
  <2>2. \A x \in E : Ahead(x) \in SUBSET E
    OBVIOUS
  <2> HIDE DEF Ahead
  <2>3. \A x \in E : Ahead(x) \in FiniteSubsetsOf(E)
    BY <2>1, <2>2 DEF FiniteSubsetsOf
  <2>4. QED
    BY <2>3
<1>2. PICK A \in T : \A B \in T : ~(<<B, A>> \in StrictSubsetOrdering(E))
  <2> HIDE DEF T
  <2>1. IsWellFoundedOn(StrictSubsetOrdering(E), FiniteSubsetsOf(E))
    BY FS_StrictSubsetOrderingWellFounded
  <2>2. QED
    BY <1>1, <2>1, WFMin
<1>3. PICK x \in E : A = Ahead(x)
  OBVIOUS
<1>4. ASSUME NEW y \in E, <<y, x>> \in R
      PROVE  FALSE
  <2>1. Ahead(y) \subseteq Ahead(x) /\ y \in Ahead(x) /\ y \notin Ahead(y)
    BY <1>4
  <2>2. <<Ahead(y), Ahead(x)>> \in StrictSubsetOrdering(E)
    BY <2>1 DEF StrictSubsetOrdering
  <2>3. QED
    BY <1>2, <1>3, <2>2
<1>5. QED
  BY <1>4

(* What construction can select from: signals of the company, each with    *)
(* an identifier of its own.                                               *)
WellFormed(in) ==
    /\ IsFiniteSet(in.signals) /\ \A s \in in.signals : IsSignal(s)
    /\ \A s, t \in in.signals : s.id = t.id => s = t

LEMMA FirstIsEligible ==
    ASSUME NEW in, WellFormed(in), Eligible(in) # {}
    PROVE  RankedForConstruction(in)[1] \in Eligible(in)
<1> DEFINE E == Eligible(in)
           R == {p \in E \X E : RanksBefore(in, p[1], p[2])}
           ahead(s) == {t \in E : RanksBefore(in, t, s)}
<1>1. IsFiniteSet(E) /\ \A s \in E : IsSignal(s)
  BY FS_Subset DEF Eligible, WellFormed
<1>2. \A s, t \in E : <<s, t>> \in R <=> LexLess(RankKey(in, t), RankKey(in, s))
  BY DEF RanksBefore, RankKey
<1>3. \A s \in E : <<s, s>> \notin R
  <2> SUFFICES ASSUME NEW s \in E PROVE ~LexLess(RankKey(in, s), RankKey(in, s))
    BY <1>2
  <2>1. QED
    BY <1>1, RankKeyTyped DEF LexLess
<1>4. \A s, t, u \in E : <<s, t>> \in R /\ <<t, u>> \in R => <<s, u>> \in R
  <2> SUFFICES ASSUME NEW s \in E, NEW t \in E, NEW u \in E,
                      LexLess(RankKey(in, t), RankKey(in, s)),
                      LexLess(RankKey(in, u), RankKey(in, t))
               PROVE  LexLess(RankKey(in, u), RankKey(in, s))
    BY <1>2
  <2>1. \A x \in {s, t, u} : /\ Len(RankKey(in, x)) = 5
                            /\ \A i \in 1..5 : RankKey(in, x)[i] \in Int
    BY <1>1, RankKeyTyped
  <2>2. QED
    BY <2>1, LexLessTransitive
<1>5. PICK s \in E : \A t \in E : <<t, s>> \notin R
  <2> HIDE DEF E, R
  <2>1. E # {}
    BY DEF E
  <2>2. QED
    BY <1>1, <1>3, <1>4, <2>1, SomethingIsFirst
<1>6. ahead(s) = {}
  BY <1>5
<1>7. Cardinality(ahead(s)) = 1 - 1
  BY <1>6, FS_EmptySet
<1>8. 1 \in 1..Cardinality(E)
  BY <1>1, FS_EmptySet, FS_CardinalityType
<1>9. RankedForConstruction(in)[1] = CHOOSE x \in E : Cardinality(ahead(x)) = 1 - 1
  BY <1>8 DEF RankedForConstruction
<1>10. QED
  BY <1>7, <1>9

-----------------------------------------------------------------------------
(* What construction selects.                                              *)

LEMMA LeastExists ==
    ASSUME NEW S, S \subseteq Nat, S # {}
    PROVE  \E n \in S : \A m \in S : m >= n
<1> DEFINE R == OpToRel(<, Nat)
<1>1. \A m, n \in Nat : m < n => <<m, n>> \in R
  BY DEF OpToRel
<1>2. IsWellFoundedOn(R, Nat)
  BY NatLessThanWellFounded
<1> HIDE DEF R
<1>3. PICK n \in S : \A m \in S : ~(<<m, n>> \in R)
  BY <1>2, WFMin
<1>4. ASSUME NEW m \in S
      PROVE  m >= n
  <2>1. m \in Nat /\ n \in Nat
    OBVIOUS
  <2>2. ~(m < n)
    BY <1>1, <1>3, <2>1
  <2>3. QED
    BY <2>1, <2>2
<1>5. QED
  BY <1>4

(* The survivor is the first candidate in rank order that no limit rejects. *)
LEMMA SurvivorFacts ==
    ASSUME NEW in, NEW limits, IsFiniteSet(Eligible(in)),
           LET r == Ranking(in, limits) IN r.n # 0
    PROVE  LET r == Ranking(in, limits)
           IN  /\ r.n \in Nat /\ r.n >= 1 /\ Cardinality(Eligible(in)) >= 1
               /\ \A m \in 1..(r.n - 1) : Breaches(r.order[m], limits) # {}
<1> DEFINE k == Cardinality(Eligible(in))
           order == RankedForConstruction(in)
           fits == {i \in 1..Len(order) : Breaches(order[i], limits) = {}}
           n == Survivor(order, limits)
<1>1. k \in Nat
  BY FS_CardinalityType
<1>2. Len(order) = k
  <2>1. order \in Seq({order[i] : i \in 1..k})
    <3> DEFINE at(i) == CHOOSE s \in Eligible(in) :
                            Cardinality({t \in Eligible(in) : RanksBefore(in, t, s)}) = i - 1
    <3>1. order = [i \in 1..k |-> at(i)]
      BY DEF RankedForConstruction
    <3> HIDE DEF order, at, k
    <3>2. order \in [1..k -> {order[i] : i \in 1..k}]
      BY <3>1
    <3>3. QED
      BY <1>1, <3>2, SeqDef
  <2>2. DOMAIN order = 1..k
    BY DEF RankedForConstruction
  <2> HIDE DEF order, k
  <2>3. QED
    BY <1>1, <2>1, <2>2, LenProperties
<1>3. n = IF fits = {} THEN 0 ELSE Min(fits)
  BY DEF Survivor
<1>4. n # 0 /\ Ranking(in, limits).n = n /\ Ranking(in, limits).order = order
  BY DEF Ranking
<1> HIDE DEF n, order, k
<1>5. fits # {} /\ fits \subseteq Nat
  BY <1>1, <1>2, <1>3, <1>4
<1>6. n \in fits /\ \A m \in fits : m >= n
  BY <1>3, <1>5, LeastExists DEF Min
<1>7. n \in 1..k
  BY <1>2, <1>6
<1>8. ASSUME NEW m \in 1..(n - 1)
      PROVE  Breaches(order[m], limits) # {}
  BY <1>1, <1>2, <1>6, <1>7, <1>8
<1>9. QED
  BY <1>1, <1>4, <1>7, <1>8 DEF k

LEMMA DecisionOf ==
    ASSUME NEW in, WellFormed(in), NEW ranking, NEW limits, NEW s \in in.signals
    PROVE  ConstructionDecisions(in, ranking, limits)[s.id]
               = ConstructionDecision(in, ranking, limits, s)
<1>1. (CHOOSE t \in in.signals : t.id = s.id) = s
  BY DEF WellFormed
<1> DEFINE at(id) == ConstructionDecision(in, ranking, limits, CHOOSE t \in in.signals : t.id = id)
<1>2. at(s.id) = ConstructionDecision(in, ranking, limits, s)
  BY <1>1
<1>3. ConstructionDecisions(in, ranking, limits) = [id \in {t.id : t \in in.signals} |-> at(id)]
  BY DEF ConstructionDecisions
<1> HIDE DEF at
<1>4. QED
  BY <1>2, <1>3

LEMMA IncludedFacts ==
    ASSUME NEW in, NEW ranking, NEW limits, NEW s \in in.signals,
           ConstructionDecision(in, ranking, limits, s).outcome = "included"
    PROVE  /\ s \in Eligible(in) /\ ~ranking.tie /\ ranking.n # 0
           /\ s = ranking.order[ranking.n]
BY DEF ConstructionDecision, TieDecision, RankedDecision, Rejected, Included, Eligible

(* Nothing, or the one candidate that survived, and no tie at the top.     *)
LEMMA SelectionShape ==
    ASSUME NEW in, WellFormed(in), NEW limits, ~PrimaryWithheld(in)
    PROVE  LET r == Ranking(in, limits)
               ideas == build_portfolio_selection(in, limits).ideas
           IN  \/ ideas = {}
               \/ \E s \in Eligible(in) : /\ ideas = {Idea(s, limits)} /\ ~r.tie /\ r.n # 0
                                          /\ s = r.order[r.n]
<1> DEFINE r == Ranking(in, limits)
           decided == ConstructionDecisions(in, r, limits)
           I == {c \in in.signals : decided[c.id].outcome = "included"}
           ideas == build_portfolio_selection(in, limits).ideas
<1>1. ideas = {Idea(s, limits) : s \in I}
  BY DEF build_portfolio_selection, RankedSelection, Selection, PositionIdeas
<1> HIDE DEF r
<1>2. \A c \in I : /\ c \in Eligible(in) /\ ~r.tie /\ r.n # 0 /\ c = r.order[r.n]
  BY DecisionOf, IncludedFacts
<1> HIDE DEF I, ideas
<1>3. CASE I = {}
  BY <1>1, <1>3 DEF ideas, r
<1>4. ASSUME NEW s \in I
      PROVE  /\ s \in Eligible(in) /\ ideas = {Idea(s, limits)} /\ ~r.tie /\ r.n # 0
             /\ s = r.order[r.n]
  <2>1. I = {s}
    BY <1>2, <1>4
  <2>2. QED
    BY <1>1, <1>2, <1>4, <2>1
<1>5. QED
  BY <1>3, <1>4 DEF ideas, r

LEMMA OpposingTie ==
    ASSUME NEW in, WellFormed(in), NEW s \in Eligible(in), NEW t \in Eligible(in),
           StancesOppose(s, t), SubstantiveRankKey(in, s) = SubstantiveRankKey(in, t),
           s = RankedForConstruction(in)[1]
    PROVE  UnresolvedOpposingTie(in)
<1> DEFINE T == TopTied(in)
           stances == {x.stance : x \in T}
           f == [x \in T |-> x.stance]
<1>1. s \in T /\ t \in T /\ T \subseteq in.signals
  BY DEF TopTied, Eligible
<1>2. IsFiniteSet(T)
  BY <1>1, FS_Subset DEF WellFormed
<1>3. f \in Surjection(T, stances)
  BY DEF Surjection
<1>4. {s.stance, t.stance} \subseteq stances
  BY <1>1
<1> HIDE DEF T, stances, f
<1>5. IsFiniteSet(stances)
  BY <1>2, <1>3, FS_Surjection
<1>6. s.stance # t.stance
  BY DEF StancesOppose
<1>7. IsFiniteSet({s.stance}) /\ Cardinality({s.stance}) = 1
  BY FS_Singleton
<1>8. Cardinality({s.stance} \cup {t.stance}) = 2
  BY <1>6, <1>7, FS_AddElement
<1>9. {s.stance} \cup {t.stance} = {s.stance, t.stance}
  OBVIOUS
<1>10. Cardinality(stances) \in Nat /\ Cardinality(stances) >= 2
  BY <1>4, <1>5, <1>8, <1>9, FS_Subset, FS_CardinalityType
<1>11. QED
  BY <1>10 DEF UnresolvedOpposingTie, T, stances

(* Construction takes no side of a tie, unless a limit turned something    *)
(* better away.                                                            *)
LEMMA TiesAreLeft ==
    ASSUME NEW in, WellFormed(in), NEW limits, ~PrimaryWithheld(in)
    PROVE  NoSideOfATie(in, limits, build_portfolio_selection(in, limits).ideas)
<1> DEFINE ideas == build_portfolio_selection(in, limits).ideas
           r == Ranking(in, limits)
<1> SUFFICES ASSUME NEW i \in ideas, NEW s \in SignalOf(in, i), NEW t \in Eligible(in),
                    StancesOppose(s, t), SubstantiveRankKey(in, s) = SubstantiveRankKey(in, t)
             PROVE  \E u \in Eligible(in) : Breaches(u, limits) # {}
  BY DEF NoSideOfATie
<1>1. PICK c \in Eligible(in) : ideas = {Idea(c, limits)} /\ ~r.tie /\ r.n # 0
                               /\ c = r.order[r.n]
  BY SelectionShape
<1>2. s = c
  <2>1. s \in in.signals /\ s.id = i.signal /\ c \in in.signals
    BY DEF SignalOf, Eligible
  <2>2. i.signal = c.id
    BY <1>1 DEF Idea
  <2>3. QED
    BY <2>1, <2>2 DEF WellFormed
<1>3. r.order = RankedForConstruction(in) /\ r.tie = UnresolvedOpposingTie(in)
  BY DEF Ranking
<1>4. r.n # 1
  BY <1>1, <1>2, <1>3, OpposingTie
<1>5. IsFiniteSet(Eligible(in))
  BY FS_Subset DEF Eligible, WellFormed
<1>6. /\ r.n \in Nat /\ r.n >= 1
      /\ \A m \in 1..(r.n - 1) : Breaches(r.order[m], limits) # {}
  BY <1>1, <1>5, SurvivorFacts
<1>7. r.order[1] \in Eligible(in)
  BY <1>1, <1>3, FirstIsEligible
<1>8. 1 \in 1..(r.n - 1)
  BY <1>4, <1>6
<1>9. QED
  BY <1>6, <1>7, <1>8

(* What the risk engine says of a selection over an active limit.          *)
IsLimits(limits) ==
    /\ \A t \in ConstraintType : limits[t] \in Int \cup {None}
    /\ limits["single_name"] \in Nat \cup {None}

LEMMA WeightTyped ==
    ASSUME NEW limits, IsLimits(limits), NEW s
    PROVE  FinalWeight(s, limits) \in Nat
<1>1. BaseWeight(s) \in Nat /\ MaxWeight \in Nat
  BY DEF BaseWeight, MaxWeight
<1>2. limits["single_name"] # None => SingleNameLimit(limits) \in Nat
  BY <1>1 DEF SingleNameLimit, IsLimits
<1>3. QED
  BY <1>1, <1>2 DEF FinalWeight, Least

LEMMA OverLimitBlocks ==
    ASSUME NEW in, NEW limits, IsLimits(limits), NEW selection, NEW conflicts, NEW stress,
           \/ selection.ideas = {}
           \/ \E i : selection.ideas = {i} /\ i.weight \in Nat,
           NEW t \in ActiveTypes(limits, ConstraintType),
           Observed(selection.ideas)[t] > limits[t]
    PROVE  blocking_issues(evaluate_portfolio_risk(in, selection, limits, conflicts, stress)) # {}
<1> DEFINE ideas == selection.ideas
           o == Observed(ideas)
           checks == evaluate_portfolio_risk(in, selection, limits, conflicts, stress)
<1> SUFFICES \E c \in checks : c.blocking
  BY DEF blocking_issues
<1>1. limits[t] # None /\ t \in ConstraintType
  BY DEF ActiveTypes
<1>2. ASSUME NEW rule, NEW subject, Check(rule, subject, TRUE) \in checks
      PROVE  \E c \in checks : c.blocking
  BY <1>2 DEF Check
<1>3. ExposureChecks(ideas, limits) \subseteq checks /\ IdeaChecks(in, ideas, limits) \subseteq checks
  BY DEF evaluate_portfolio_risk
<1> HIDE DEF checks
<1>4. CASE t = "gross_exposure"
  <2>1. Check("gross_exposure_limit", TheProposal, TRUE) \in ExposureChecks(ideas, limits)
    BY <1>1, <1>4 DEF ExposureChecks, Checks, When, Exceeds
  <2>2. QED
    BY <1>2, <1>3, <2>1
<1>5. CASE t = "net_exposure"
  <2>1. Check("net_exposure_limit", TheProposal, TRUE) \in ExposureChecks(ideas, limits)
    BY <1>1, <1>5 DEF ExposureChecks, Checks, When, Exceeds
  <2>2. QED
    BY <1>2, <1>3, <2>1
<1>6. CASE t = "turnover"
  <2>1. Check("flat_start_turnover_limit", TheProposal, TRUE) \in ExposureChecks(ideas, limits)
    BY <1>1, <1>6 DEF ExposureChecks, Checks, When, Exceeds
  <2>2. QED
    BY <1>2, <1>3, <2>1
<1>7. CASE t = "single_name"
  <2>1. limits["single_name"] \in Nat
    BY <1>1, <1>7 DEF IsLimits
  <2>2. Max({i.weight : i \in ideas} \cup {0}) > limits["single_name"]
    BY <1>7 DEF Observed
  <2>3. ideas # {}
    <3>1. Max({0}) = 0
      BY DEF Max
    <3>2. ideas = {} => {i.weight : i \in ideas} \cup {0} = {0}
      OBVIOUS
    <3>3. QED
      BY <2>1, <2>2, <3>1, <3>2
  <2>4. PICK i : ideas = {i} /\ i.weight \in Nat
    BY <2>3
  <2>5. {x.weight : x \in ideas} \cup {0} = {i.weight, 0}
    BY <2>4
  <2>6. Max({i.weight, 0}) = i.weight
    BY <2>4 DEF Max
  <2>7. i.weight > limits["single_name"]
    BY <2>2, <2>5, <2>6
  <2>8. Check("single_name_weight_limit", i.signal, TRUE) \in IdeaChecks(in, ideas, limits)
    BY <1>1, <1>7, <2>4, <2>7 DEF IdeaChecks, Checks
  <2>9. QED
    BY <1>2, <1>3, <2>8
<1>8. QED
  BY <1>1, <1>4, <1>5, <1>6, <1>7 DEF ConstraintType

-----------------------------------------------------------------------------
(* The selection a run holds is defensible, from the moment it selects.    *)

(* What makes it so, of the signals on file, the inputs of the workflow,   *)
(* what the run was asked for, and the proposal.                           *)
Defensible(given, in, request, ideas, checks) ==
    /\ Cardinality(ideas) <= 1
    /\ \A i \in ideas : \E s \in given :
           /\ s.id = i.signal
           /\ request.asOf # None => s.created <= request.asOf /\ s.effective <= request.asOf
           /\ Side(s) = i.side /\ s.status \in {"candidate", "approved"}
    /\ PrimaryWithheld(in) => ideas = {}
    /\ (\E t \in ActiveTypes(request.limits, ConstraintType) :
             Observed(ideas)[t] > request.limits[t]) => blocking_issues(checks) # {}
    /\ NoSideOfATie(in, request.limits, ideas)

LEMMA EligibleStatus ==
    ASSUME NEW in, NEW s \in Eligible(in)
    PROVE  s.status \in {"candidate", "approved"}
<1>1. "signal_status_ineligible" # None
  BY PipelineAssumption DEF RejectionReasons
<1>2. QED
  BY <1>1 DEF Eligible, RejectionReason

LEMMA SelectionDefensible ==
    ASSUME NEW in, WellFormed(in), NEW request, IsLimits(request.limits), NEW given,
           in.signals \subseteq VisibleSignals(given, request.asOf), NEW conflicts, NEW stress
    PROVE  LET selection == build_portfolio_selection(in, request.limits)
           IN  Defensible(given, in, request, selection.ideas,
                   evaluate_portfolio_risk(in, selection, request.limits, conflicts, stress))
<1> DEFINE limits == request.limits
           selection == build_portfolio_selection(in, limits)
           ideas == selection.ideas
           checks == evaluate_portfolio_risk(in, selection, limits, conflicts, stress)
<1>1. PrimaryWithheld(in) => ideas = {}
  BY DEF build_portfolio_selection, EmptySelection
<1>2. \/ ideas = {}
      \/ \E s \in Eligible(in) : ideas = {Idea(s, limits)}
  BY <1>1, SelectionShape
<1>3. Cardinality(ideas) <= 1
  <2>1. \A x : Cardinality({x}) = 1
    BY FS_Singleton
  <2> HIDE DEF ideas
  <2>2. QED
    BY <1>2, <2>1, FS_EmptySet
<1>4. ASSUME NEW i \in ideas
      PROVE  \E s \in given :
                 /\ s.id = i.signal
                 /\ request.asOf # None => s.created <= request.asOf /\ s.effective <= request.asOf
                 /\ Side(s) = i.side /\ s.status \in {"candidate", "approved"}
  <2>1. PICK s \in Eligible(in) : i = Idea(s, limits)
    BY <1>2
  <2>2. s.id = i.signal /\ Side(s) = i.side
    BY <2>1 DEF Idea
  <2>3. s \in VisibleSignals(given, request.asOf)
    BY DEF Eligible
  <2>4. QED
    BY <2>2, <2>3, EligibleStatus DEF VisibleSignals
<1>5. \/ ideas = {}
      \/ \E i : ideas = {i} /\ i.weight \in Nat
  <2>1. ASSUME NEW s \in Eligible(in)
        PROVE  Idea(s, limits).weight \in Nat
    BY WeightTyped DEF Idea
  <2>2. QED
    BY <1>2, <2>1
<1>6. (\E t \in ActiveTypes(limits, ConstraintType) : Observed(ideas)[t] > limits[t])
          => blocking_issues(checks) # {}
  <2> HIDE DEF selection
  <2>1. QED
    BY <1>5, OverLimitBlocks
<1>7. NoSideOfATie(in, limits, ideas)
  <2>1. CASE PrimaryWithheld(in)
    BY <1>1, <2>1 DEF NoSideOfATie
  <2>2. CASE ~PrimaryWithheld(in)
    BY <2>2, TiesAreLeft
  <2>3. QED
    BY <2>1, <2>2
<1> HIDE DEF ideas, checks
<1>8. Defensible(given, in, request, ideas, checks)
  BY <1>1, <1>3, <1>4, <1>6, <1>7 DEF Defensible
<1>9. QED
  BY <1>8 DEF ideas, checks

(* The same of the run in progress.                                        *)
RunDefensible ==
    run # Idle /\ run.step # "load" =>
        Defensible(signals, run.in, run.request, run.proposal.ideas, run.proposal.checks)

LEMMA RunDefensibleIs == RunDefensible => SelectionIsDefensible
BY DEF RunDefensible, SelectionIsDefensible, Defensible, OverLimitIsBlocked

LEMMA LoadDefensible ==
    ASSUME IInv, Load
    PROVE  RunDefensible'
<1>1. run # Idle /\ run.step = "load"
  BY DEF Load, At, Idle
<1>2. PICK bundle, in, selection :
          /\ in = Inputs(bundle)
          /\ selection = build_portfolio_selection(in, run.request.limits)
          /\ Step("gate", [in |-> in, selection |-> selection, id |-> ProposalDay(in),
                           proposal |-> RiskReviewed(in, selection, bundle)])
  BY DEF Load
<1> DEFINE p == RiskReviewed(in, selection, bundle)
           fields == [in |-> in, selection |-> selection, id |-> ProposalDay(in), proposal |-> p]
           conflicts == IF bundle = None THEN {} ELSE bundle.conflicts
           stress == run_stress_tests(in, selection.ideas, run.request.sector)
           checks == evaluate_portfolio_risk(in, selection, run.request.limits, conflicts, stress)
<1>3. in.signals \subseteq VisibleSignals(signals, run.request.asOf)
  BY <1>2, InputsFacts
<1>4. WellFormed(in)
  <2>1. in.signals \subseteq signals
    BY <1>3 DEF VisibleSignals
  <2>2. QED
    BY <2>1, FS_Subset DEF IInv, SignalsInv, WellFormed
<1>5. IsLimits(run.request.limits) /\ {"step", "request"} \subseteq DOMAIN run
  BY <1>1, PipelineAssumption DEF IInv, MemoryInv, IsRequest, IsLimits
<1>6. p.ideas = selection.ideas /\ p.checks = checks
  <2>1. p = [build_portfolio_proposal(in, selection, today) EXCEPT !.checks = checks]
    BY DEF RiskReviewed
  <2> HIDE DEF p, checks
  <2>2. QED
    BY <2>1 DEF build_portfolio_proposal
<1> HIDE DEF conflicts, stress
<1>7. Defensible(signals, in, run.request, selection.ideas, checks)
  BY <1>2, <1>3, <1>4, <1>5, SelectionDefensible
<1> HIDE DEF p, checks
<1>8. /\ DOMAIN fields = {"in", "selection", "id", "proposal"} /\ fields.in = in
      /\ fields.proposal = p /\ "step" \notin DOMAIN fields
  OBVIOUS
<1>9. Step("gate", fields) /\ signals' = signals
  BY <1>2 DEF p, Load
<1> HIDE DEF fields
<1>10. run'.in = in /\ run'.proposal = p /\ run'.request = run.request
  <2>1. /\ \A k \in DOMAIN fields : run'[k] = fields[k]
        /\ \A k \in DOMAIN run \ DOMAIN fields : k # "step" => run'[k] = run[k]
    BY <1>1, <1>8, <1>9, StepFacts DEF IInv
  <2>2. "request" \in DOMAIN run \ DOMAIN fields
    BY <1>5, <1>8
  <2>3. QED
    BY <1>8, <2>1, <2>2
<1>11. QED
  BY <1>6, <1>7, <1>9, <1>10 DEF RunDefensible

(* Afterwards no step changes what the selection was made of and made.     *)
LEMMA SelectionStays ==
    ASSUME IInv, [Next]_vars, run # Idle, run.step # "load", run' # Idle
    PROVE  /\ run'.in = run.in /\ run'.request = run.request
           /\ run'.proposal.ideas = run.proposal.ideas
           /\ run'.proposal.checks = run.proposal.checks
<1>1. /\ {"step", "request", "in", "selection", "id", "proposal"} \subseteq DOMAIN run
      /\ IsProposal(run.proposal) /\ run.request \in Request
  BY DEF IInv, MemoryInv
<1>2. CASE UNCHANGED run
  BY <1>2
<1>3. CASE GatePasses \/ WriteDraft \/ SkipReview
  <2>1. PICK name : GoOn(name)
    BY <1>3 DEF GatePasses, WriteDraft, SkipReview
  <2>2. QED
    BY <1>1, <2>1 DEF GoOn
<1>4. CASE ReviewInRun
  <2> DEFINE p == proposals[run.id]
             q == Reviewed(p, run.request.verdict)
             fields == [proposal |-> q]
  <2>1. run.step = "review" /\ run.request.verdict # None /\ Step("propose", fields)
    BY <1>4 DEF ReviewInRun, At
  <2>2. SameContent(p, run.proposal) /\ IsProposal(p)
    BY <2>1 DEF IInv, DraftInv, FilesInv, Drafted, Loaded
  <2>3. run.request.verdict \in Verdict
    BY <1>1, <2>1, PipelineAssumption DEF IsRequest
  <2>4. SameContent(q, p)
    BY <2>2, <2>3, ReviewedFacts
  <2> HIDE DEF p, q
  <2>5. DOMAIN fields = {"proposal"} /\ fields.proposal = q /\ "step" \notin DOMAIN fields
    OBVIOUS
  <2> HIDE DEF fields
  <2>6. run'.in = run.in /\ run'.request = run.request /\ run'.proposal = q
    BY <1>1, <2>1, <2>5, StepFacts DEF IInv
  <2>7. QED
    BY <2>2, <2>4, <2>6 DEF SameContent
<1>5. CASE ProposeTrades \/ SkipReconciliation
  <2>1. PICK name, fields : /\ Step(name, fields) /\ DOMAIN fields \cap {"step", "request", "in",
                                                              "proposal"} = {}
    <3>1. CASE ProposeTrades
      <4>1. PICK made, gate : Step("reconcile", [trades |-> made, gate |-> gate])
        BY <3>1 DEF ProposeTrades
      <4> DEFINE fields == [trades |-> made, gate |-> gate]
      <4>2. DOMAIN fields = {"trades", "gate"}
        OBVIOUS
      <4> HIDE DEF fields
      <4>3. QED
        BY <4>1, <4>2 DEF fields
    <3>2. CASE SkipReconciliation
      <4>1. Step("report", [report |-> None])
        BY <3>2 DEF SkipReconciliation
      <4> DEFINE fields == [report |-> None]
      <4>2. DOMAIN fields = {"report"}
        OBVIOUS
      <4> HIDE DEF fields
      <4>3. QED
        BY <4>1, <4>2 DEF fields
    <3>3. QED
      BY <1>5, <3>1, <3>2
  <2>2. QED
    BY <1>1, <2>1, StepFacts DEF IInv
<1>6. CASE Reconcile \/ WriteScorecard
  <2>1. PICK name, fields :
            /\ Step(name, fields) /\ "proposal" \in DOMAIN fields
            /\ DOMAIN fields \cap {"step", "request", "in"} = {}
            /\ fields.proposal.ideas = run.proposal.ideas
            /\ fields.proposal.checks = run.proposal.checks
    <3>1. CASE Reconcile
      <4>1. PICK report : Step("report", [proposal |-> [run.proposal EXCEPT !.mapping = report],
                                          report |-> report])
        BY <3>1 DEF Reconcile
      <4> DEFINE p == [run.proposal EXCEPT !.mapping = report]
                 fields == [proposal |-> p, report |-> report]
      <4>2. p.ideas = run.proposal.ideas /\ p.checks = run.proposal.checks
        BY <1>1 DEF IsProposal, ProposalFields
      <4> HIDE DEF p
      <4>3. DOMAIN fields = {"proposal", "report"} /\ fields.proposal = p
        OBVIOUS
      <4>4. Step("report", fields)
        BY <4>1 DEF p
      <4> HIDE DEF fields
      <4>5. QED
        BY <4>2, <4>3, <4>4
    <3>2. CASE WriteScorecard
      <4> DEFINE p == [run.proposal EXCEPT !.scorecard = TRUE]
                 fields == [proposal |-> p]
      <4>1. Step("conclude", fields)
        BY <3>2 DEF WriteScorecard
      <4>2. p.ideas = run.proposal.ideas /\ p.checks = run.proposal.checks
        BY <1>1 DEF IsProposal, ProposalFields
      <4> HIDE DEF p
      <4>3. DOMAIN fields = {"proposal"} /\ fields.proposal = p
        OBVIOUS
      <4> HIDE DEF fields
      <4>4. QED
        BY <4>1, <4>2, <4>3
    <3>3. QED
      BY <1>6, <3>1, <3>2
  <2>2. QED
    BY <1>1, <2>1, StepFacts DEF IInv
<1>7. QED
  <2>1. \/ UNCHANGED run \/ GatePasses \/ WriteDraft \/ SkipReview \/ ReviewInRun \/ ProposeTrades
        \/ SkipReconciliation \/ Reconcile \/ WriteScorecard
    BY DEF vars, Next, Arbitrate, FileSignal, OperatorReviews, Begin, Load, NothingToLoad,
       GateRefuses, ReviewRaises, Conclude, Die, Fail, Close, At
  <2>2. QED
    BY <1>2, <1>3, <1>4, <1>5, <1>6, <2>1

LEMMA SignalsStay ==
    ASSUME [Next]_vars
    PROVE  signals \subseteq signals'
BY DEF vars, Next, Arbitrate, FileSignal, OperatorReviews, Begin, Load, NothingToLoad, GateRefuses,
   GatePasses, WriteDraft, ReviewInRun, SkipReview, ReviewRaises, ProposeTrades, Reconcile,
   SkipReconciliation, WriteScorecard, Conclude, Die, Fail

LEMMA RunDefensibleStep ==
    ASSUME IInv, RunDefensible, [Next]_vars
    PROVE  RunDefensible'
<1>1. CASE Load
  BY <1>1, LoadDefensible
<1>2. CASE run' = Idle \/ run'.step = "load"
  BY <1>2 DEF RunDefensible
<1>3. CASE run' # Idle /\ run'.step # "load" /\ run # Idle /\ run.step # "load"
  <2>1. Defensible(signals, run.in, run.request, run.proposal.ideas, run.proposal.checks)
    BY <1>3 DEF RunDefensible
  <2>2. Defensible(signals', run.in, run.request, run.proposal.ideas, run.proposal.checks)
    BY <2>1, SignalsStay DEF Defensible
  <2>3. QED
    BY <1>3, <2>2, SelectionStays DEF RunDefensible
<1>4. CASE run = Idle /\ run' # Idle
  <2>1. \E request \in Request : Begin(request)
    BY <1>4 DEF vars, Next, Arbitrate, FileSignal, OperatorReviews, Load, NothingToLoad, GateRefuses,
       GatePasses, WriteDraft, ReviewInRun, SkipReview, ReviewRaises, ProposeTrades, Reconcile,
       SkipReconciliation, WriteScorecard, Conclude, Die, Fail, At, Idle
  <2>2. run'.step = "load"
    BY <2>1 DEF Begin
  <2>3. QED
    BY <2>2 DEF RunDefensible
<1>5. CASE run # Idle /\ run.step = "load"
  <2>1. Load \/ run' = Idle \/ UNCHANGED run
    BY <1>5 DEF vars, Next, Arbitrate, FileSignal, OperatorReviews, Begin, NothingToLoad, GateRefuses,
       GatePasses, WriteDraft, ReviewInRun, SkipReview, ReviewRaises, ProposeTrades, Reconcile,
       SkipReconciliation, WriteScorecard, Conclude, Die, Fail, Close, At, Idle
  <2>2. QED
    BY <1>1, <1>5, <2>1 DEF RunDefensible
<1>6. QED
  BY <1>1, <1>2, <1>3, <1>4, <1>5

(* The selection of a run can be defended as long as the run holds it: at  *)
(* most one position, from signals that existed and had taken effect by    *)
(* its day, none against arbitration, none over a limit without a blocking *)
(* check, and no side of a tie, whatever is filed in the meantime.         *)
THEOREM SelectionsAreDefensible == Spec => []SelectionIsDefensible
<1>1. Init => IInv /\ RunDefensible
  BY InitInv DEF Init, RunDefensible
<1>2. IInv /\ RunDefensible /\ [Next]_vars => IInv' /\ RunDefensible'
  BY NextKeeps, RunDefensibleStep
<1>3. QED
  BY <1>1, <1>2, RunDefensibleIs, PTL DEF Spec
=============================================================================
