----------------------------- MODULE DailyResearch -----------------------------
(***************************************************************************)
(* A run of the daily workflow with the work of its first four executors:  *)
(* DailyWorkflow decides when an executor starts and what its result does  *)
(* to the run, DocumentEvidence and ResearchSlice say what it writes.  An  *)
(* executor computes from the shelf it finds and then writes one category  *)
(* after the other, and the process can die, or a write can raise, between *)
(* any two; a retry starts over.  The shelf may hold an earlier day's      *)
(* work, and an operator may reject research while the run goes on.        *)
(***************************************************************************)
EXTENDS DailyWorkflow

INSTANCE ResearchSlice   \* None is the None of the workflow

CONSTANTS
    Refresh,        \* what step 1 may find: a sequence of fixtures, or None to reuse files
    Yesterday,      \* the sequences of fixtures an earlier run may have worked on
    MaxRejections   \* verdicts of operators in the time of the run

(* A fixture has a text of some parts, a news item at least its headline;  *)
(* those of a batch are known by their names.                              *)
IsSequence(s) == s \in Seq(ToSet(s))
TextIsRead(f) ==
    /\ IsSequence(f.text) /\ \A p \in ToSet(f.text) : IsSequence(p.says)
    /\ f.kind = "news_item" => f.text # <<>>

ASSUME FixtureAssumption ==
    \A batch \in (Refresh \ {None}) \cup Yesterday :
        /\ IsSequence(batch) /\ \A f \in ToSet(batch) : TextIsRead(f)
        /\ \A f, g \in ToSet(batch) : f.name = g.name => f = g

VARIABLES
    shelf,          \* the artifacts by category
    refresh,        \* the fixtures of this run
    company,        \* resolved_company_id
    work,           \* the executor: its part, the writes left, whether it raises
    rejections

chain == <<shelf, refresh, company, work, rejections>>
allVars == <<vars, chain>>

Today == 2

AllCategories ==
    {"raw", "gates", "source_references", "companies", "documents", "price_series_metadata",
     "parsed_text", "segments", "evidence_spans", "claims", "risk_factors", "guidance_changes",
     "tone_markers", "hypotheses", "evidence_assessments", "counter_hypotheses",
     "research_briefs", "feature_values", "features", "signal_scores", "signals", "outcomes"}

NoFiles == [c \in AllCategories |-> {}]

(* A file with the identifier of an earlier one takes its place.           *)
GateKeyed(g) == <<g.name, g.target>>
Key(category, item) == IF category = "gates" THEN GateKeyed(item) ELSE item.id
Replacing(category, old, new) ==
    {a \in old : \A b \in new : Key(category, a) # Key(category, b)} \cup new
Put(fs, write) ==
    [fs EXCEPT ![write.category] = Replacing(write.category, @, write.items)]
PutAll(fs, writes) ==
    LET after[n \in 0..Len(writes)] == IF n = 0 THEN fs ELSE Put(after[n - 1], writes[n])
    IN  after[Len(writes)]

(* The shelf that an undisturbed run of the day before leaves: a stage that *)
(* raises is its last.                                                     *)
After(fs, plan, Stage(_)) ==
    LET left == PutAll(fs, plan.writes) IN IF plan.raises THEN left ELSE Stage(left)
Signalled(fs) ==
    PutAll(fs, (The(run_signal_generation_workflow(
                        fs, The(Resolved(ResearchedCompanies(fs), None))))).writes)
Mapped(fs) == After(fs, run_feature_mapping_workflow(fs, None), Signalled)
Researched(fs) == After(fs, run_research_workflow(fs, None, 1), Mapped)
Parsed(fs) == After(fs, run_evidence_extraction_pipeline(fs), Researched)
FilesOf(fixtures) ==
    IF fixtures = <<>> THEN NoFiles
    ELSE After(NoFiles, run_fixture_ingestion_pipeline(fixtures), Parsed)

NoWork == [part |-> "none", writes |-> <<>>, raises |-> FALSE]

ChainInit ==
    /\ Init
    /\ \E old \in Yesterday : shelf = FilesOf(old)
    /\ refresh \in Refresh
    /\ company = None
    /\ work = NoWork
    /\ rejections = 0

-----------------------------------------------------------------------------
(* The executors (services/daily_orchestration/executors.py).              *)

Worked == 1..4     \* the steps whose executors are modelled

execute_fixture_refresh_and_normalization ==
    IF refresh = None THEN Plan(<<>>, FALSE) ELSE run_fixture_ingestion_pipeline(refresh)

FirstPart(s) == [i \in Worked |-> <<"ingest", "parse", "research", "features">>[i]][s]
LastPart(s) == IF s = 4 THEN "signals" ELSE FirstPart(s)

PlanOf(s) ==
    CASE s = 1 -> execute_fixture_refresh_and_normalization
      [] s = 2 -> run_evidence_extraction_pipeline(shelf)
      [] s = 3 -> run_research_workflow(shelf, company, Today)
      [] OTHER -> run_feature_mapping_workflow(shelf, company)

StartWork ==
    /\ pc = "execute" /\ step \in Worked /\ work = NoWork
    /\ \E plan \in {PlanOf(step)} :
         work' = [part |-> FirstPart(step), writes |-> plan.writes, raises |-> plan.raises]
    /\ UNCHANGED <<shelf, refresh, company, rejections, vars>>

WriteNext ==
    /\ pc = "execute" /\ work.writes # <<>>
    /\ shelf' = Put(shelf, Head(work.writes))
    /\ work' = [work EXCEPT !.writes = Tail(@)]
    /\ UNCHANGED <<refresh, company, rejections, vars>>

(* A write that raises leads to the handler of its workflow, which files a *)
(* failure; when the write was the handler's own nothing more is filed.    *)
FailureOf(writes) ==
    LET outcomes == {i \in DOMAIN writes : writes[i].category = "outcomes"}
        next == {i \in outcomes : \A j \in outcomes : i <= j}
    IN  Write("outcomes", {[id |-> o.id, status |-> "failed"] :
                               o \in UNION {writes[i].items : i \in next}})
InHandler(writes, raises) == raises /\ Len(writes) = 1

WorkWriteRaises ==
    /\ WritesMayFail /\ pc = "execute" /\ work.writes # <<>>
    /\ work' = [work EXCEPT !.raises = TRUE,
           !.writes = IF InHandler(work.writes, work.raises) THEN <<>> ELSE <<FailureOf(work.writes)>>]
    /\ UNCHANGED <<shelf, refresh, company, rejections, vars>>

Finished(part) == work.part = part /\ work.writes = <<>> /\ ~work.raises

(* The company that a step of the research works on.                       *)
CompanyOf(s) ==
    The(Resolved(IF s = 3 THEN ResearchCompanies(shelf) ELSE ResearchedCompanies(shelf), company))

(* Signal generation reads the features of that company back.              *)
StartSignals ==
    /\ pc = "execute" /\ Finished("features")
    /\ \E plan \in run_signal_generation_workflow(shelf, CompanyOf(step)) :
         work' = [part |-> "signals", writes |-> plan.writes, raises |-> plan.raises]
    /\ UNCHANGED <<shelf, refresh, company, rejections, vars>>

(* The companies that an executor finds in what it worked on: the first    *)
(* steps settle for one, the later ones say which it was.                  *)
Derived(s) ==
    CASE s = 1 -> IF refresh = None THEN {}
                  ELSE UNION {refresh[i].company : i \in DOMAIN refresh}
      [] OTHER -> UNION {d.company : d \in shelf.documents}
ResolvedCompany(s) ==
    IF s \in {3, 4} THEN CompanyOf(s)
    ELSE IF company = None /\ Cardinality(Derived(s)) = 1 THEN The(Derived(s)) ELSE company

WorkReturns ==
    /\ IF step \in Worked
       THEN Finished(LastPart(step)) /\ company' = ResolvedCompany(step)
       ELSE company' = company
    /\ ExecutorReturns
    /\ work' = NoWork
    /\ UNCHANGED <<shelf, refresh, rejections>>

(* An executor also raises when it cannot read what it starts from.        *)
WorkRaises ==
    /\ step \in Worked => work.writes = <<>>
    /\ ExecutorRaises
    /\ work' = NoWork
    /\ UNCHANGED <<shelf, refresh, company, rejections>>

(* An operator rejects a brief (services/operator_review).                 *)
OperatorRejects(id) ==
    /\ pc \notin {"done", "dead"} /\ rejections < MaxRejections
    /\ rejections' = rejections + 1
    /\ shelf' = [shelf EXCEPT !.research_briefs =
           {IF b.id = id THEN [b EXCEPT !.review = "rejected"] ELSE b : b \in @}]
    /\ UNCHANGED <<refresh, company, work, vars>>

DieAmidWork ==
    /\ Die
    /\ work' = NoWork
    /\ UNCHANGED <<shelf, refresh, company, rejections>>

Other(A) == A /\ UNCHANGED chain

ChainAdvance ==
    \/ Other(WriteExecution) \/ Other(WriteQueuedStep) \/ Other(RecordStartEvent)
    \/ Other(BeginStep) \/ WorkRaises \/ WriteNext \/ WorkWriteRaises \/ WorkReturns
    \/ StartWork \/ StartSignals
    \/ Other(RecordStep) \/ Other(RecordExecution) \/ Other(WriteRaises)
    \/ Other(Retry) \/ Other(GiveUp) \/ Other(RecordFailure)
    \/ Other(NextStep) \/ Other(FinishExecution)
    \/ Other(RecordTerminalEvent) \/ Other(RecordAlerts) \/ Other(RecordRunSummary)

ChainNext ==
    \/ ChainAdvance \/ DieAmidWork
    \/ \E b \in shelf.research_briefs : OperatorRejects(b.id)

ChainSpec == ChainInit /\ [][ChainNext]_allVars
FairChainSpec == ChainSpec /\ WF_allVars(ChainAdvance)

-----------------------------------------------------------------------------
(* Properties.                                                             *)

Ids(category) == {a.id : a \in shelf[category]}

(* A link of a hypothesis leads to a span of a document that is on file    *)
(* with its source, its raw payload and its text.                          *)
LinkHolds(l) ==
    /\ l.document \in Ids("documents") \cap Ids("source_references") \cap Ids("raw")
                      \cap Ids("parsed_text")
    /\ \E s \in shelf.evidence_spans : s.id = l.span /\ s.document = l.document

(* Whatever run died or was retried, a brief on file leads to a hypothesis *)
(* with evidence from at least two documents, to its critique and to an    *)
(* assessment that is neither weak nor insufficient; a feature leads to a  *)
(* brief, and a signal to features and scores of every kind.  A signal     *)
(* never points down: the weights cannot outvote the support it takes.     *)
SignalsTraceToEvidence ==
    /\ \A b \in shelf.research_briefs :
         /\ ~Dangling(shelf, b)
         /\ \A h \in ById(shelf.hypotheses, b.hypothesis) :
              Cardinality(Documents(h.links)) >= 2 /\ \A l \in h.links : LinkHolds(l)
         /\ \A a \in ById(shelf.evidence_assessments, b.assessment) : a.grade \in {"strong", "moderate"}
    /\ \A f \in shelf.features : f.brief \in Ids("research_briefs")
    /\ \A s \in shelf.signals :
         /\ s.features \subseteq Ids("features") /\ s.hypothesis \in Ids("hypotheses")
         /\ {f.name : f \in {g \in shelf.features : g.id \in s.features}} = FeatureName
         /\ \A n \in FeatureName : <<s.id, n>> \in Ids("signal_scores")
         /\ s.stance # "negative"

(* A step that is recorded as succeeded may still be tried again when the   *)
(* record of the execution could not be written.                            *)
Succeeded(s) == s \in Steps /\ Written(s) /\ Status(s) = "succeeded" /\ (step > s \/ Concluded)
StatusOf(workflow, item) == {o.status : o \in ById(shelf.outcomes, <<workflow, item>>)}
RefusedOnFile(d) ==
    \E g \in shelf.gates : g.target = d /\ Refused(g) /\
        g.name \in {"ingestion_normalization", "parsing_inputs", "evidence_bundle"}

(* What a step that succeeded vouches for: after the extraction there is   *)
(* no document on file that a gate refused or whose spans are missing,     *)
(* whichever day it came from; research has graded the evidence today and  *)
(* either filed a brief or asked for attention; and the signals rest on    *)
(* the features of the latest brief, whatever became of it meanwhile.      *)
Extraction ==
    \A d \in shelf.documents :
        /\ ~RefusedOnFile(d.id)
        /\ StatusOf("evidence_extraction", d.id) = {"succeeded"}
        /\ \E s \in shelf.evidence_spans : s.document = d.id
Research ==
    \E a \in Of(shelf.evidence_assessments, company) :
        /\ a.created = Today
        /\ IF a.grade \in {"strong", "moderate"}
           THEN \E b \in Of(shelf.research_briefs, company) : b.created = Today /\ b.assessment = a.id
           ELSE StatusOf("research_workflow", company) = {"attention_required"}
Signals ==
    LET briefs == Of(shelf.research_briefs, company)
        Features(b) == {f \in shelf.features : f.brief = b.id /\ BriefDay(f) = b.created}
    IN  /\ briefs # {}
        /\ \E s \in Of(shelf.signals, company) :
             /\ s.hypothesis = Latest(briefs).hypothesis
             /\ {f.id : f \in Features(Latest(briefs))} \cap s.features # {}
StepsVouchForTheirOutputs ==
    (Succeeded(2) => Extraction) /\ (Succeeded(3) => Research) /\ (Succeeded(4) => Signals)
=============================================================================
