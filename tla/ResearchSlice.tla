----------------------------- MODULE ResearchSlice -----------------------------
(***************************************************************************)
(* Steps 3 and 4 of the daily workflow as functions of the files: the      *)
(* research slice of a company (services/research_orchestrator), its       *)
(* features (services/feature_store) and its candidate signal              *)
(* (services/signal_generation).  A company is known by its name; a        *)
(* hypothesis by its title and thesis, which are picked from fixed ones.   *)
(* Scores are in three-thousandths.                                        *)
(***************************************************************************)
EXTENDS DocumentEvidence

Latest(artifacts) ==
    IF artifacts = {} THEN None
    ELSE CHOOSE a \in artifacts : \A b \in artifacts : b.created <= a.created
Of(artifacts, company) == {a \in artifacts : a.company = company}
ById(artifacts, id) == {a \in artifacts : a.id = id}

(* An explicit company has to be there, a single one is found.             *)
Resolved(known, company) ==
    {c \in known : IF company = None THEN known = {c} ELSE c = company}

-----------------------------------------------------------------------------
(* Loading the evidence.                                                   *)

Categories == {"claims", "risk_factors", "guidance_changes", "tone_markers"}
EvidenceOf(files, company) == [c \in Categories |-> {a \in files[c] : a.company = {company}}]
ResearchCompanies(files) == UNION {UNION {a.company : a \in files[c]} : c \in Categories}

(* Spans are loaded for claims, risk factors and guidance, not for tone.   *)
load_research_artifacts(files, company) ==
    LET found == EvidenceOf(files, company)
        cited == {a.span : a \in found.claims \cup found.risk_factors \cup found.guidance_changes}
    IN  [company |-> company, evidence |-> found,
         spans |-> {s \in files.evidence_spans : s.id \in cited}]

Classes(artifacts) == {a.class : a \in artifacts}

-----------------------------------------------------------------------------
(* The hypothesis.                                                         *)

_build_link(a, role) == [id |-> <<a.span, role, a.id>>, document |-> a.document, span |-> a.span]
Linkable(artifacts, spans) == {a \in artifacts : \E s \in spans : s.id = a.span}

(* One link for each span; of a claim before a guidance change.            *)
_build_supporting_evidence_links(in) ==
    LET claims == Linkable(in.evidence.claims, in.spans)
        changes == {g \in Linkable(in.evidence.guidance_changes, in.spans) :
                        \A c \in claims : c.span # g.span}
    IN  {_build_link(a, "support") : a \in claims \cup changes}

_build_title(types, changes) ==
    IF "financial_result" \in types /\ changes # {} THEN "execution"
    ELSE IF {"product_update", "timeline_statement"} \subseteq types THEN "product"
    ELSE "operating"

_build_thesis(types, changes) ==
    <<IF {"financial_result", "operational_update"} \subseteq types THEN "on_plan"
      ELSE IF "financial_result" \in types THEN "momentum"
      ELSE IF "product_update" \in types THEN "adoption"
      ELSE "setup",
      changes # {}, "product_update" \in types>>

Documents(links) == {l.document : l \in links}

Supported(links) == Cardinality(links) >= 2 /\ Cardinality(Documents(links)) >= 2

generate_hypothesis(in, links, now) ==
    IF ~Supported(links) THEN None
    ELSE LET types == Classes(in.evidence.claims)
             changes == in.evidence.guidance_changes
         IN  [id |-> <<in.company, _build_title(types, changes), _build_thesis(types, changes)>>,
              company |-> in.company, links |-> links, assessment |-> None,
              review |-> "pending", validation |-> "unvalidated", created |-> now,
              prov |-> WithSource]

-----------------------------------------------------------------------------
(* The assessment, the critique and the brief.                             *)

GradeOf(in, links) ==
    LET direct == in.evidence.guidance_changes # {} \/
                  {"financial_result", "outlook_statement"} \cap Classes(in.evidence.claims) # {}
        wide == Cardinality(Documents(links)) >= 2
    IN  IF Cardinality(links) >= 3 /\ wide /\ direct THEN "strong"
        ELSE IF Cardinality(links) >= 2 /\ wide THEN "moderate"
        ELSE IF links # {} THEN "weak"
        ELSE "insufficient"

Thin(company) == <<company, "insufficient", <<>> >>

build_evidence_assessment(in, hypothesis, links, now) ==
    LET grade == GradeOf(in, links)
        about == IF hypothesis = None THEN Thin(in.company) ELSE hypothesis.id
    IN  [id |-> <<about, grade>>, company |-> in.company, grade |-> grade, review |-> "pending",
         validation |-> IF grade \in {"strong", "moderate"} THEN "pending_validation" ELSE "unvalidated",
         created |-> now, prov |-> {"time", "name", "upstream"}]

_build_critique_links(in) ==
    {_build_link(a, "contradict") : a \in Linkable(in.evidence.risk_factors, in.spans)}
    \cup {_build_link(a, "context") : a \in Linkable(
             {m \in in.evidence.tone_markers : m.class \in {"caution", "uncertainty"}}, in.spans)}

(* Two gaps in the evidence and two in the causes are always named.        *)
generate_counter_hypothesis(in, hypothesis, now) ==
    LET links == _build_critique_links(in)
    IN  [id |-> hypothesis.id, hypothesis |-> hypothesis.id, links |-> links,
         kinds |-> {"missing_evidence", "assumption_risk", "causal_gap"}
                   \cup IF links = {} THEN {} ELSE {"contradictory_evidence"},
         missing_evidence |-> 2, causal_gaps |-> 2,
         review |-> "pending", validation |-> "unvalidated", created |-> now,
         prov |-> {"time", "name", "upstream"}]

build_research_brief(hypothesis, counter, assessment, now) ==
    [id |-> <<hypothesis.id, counter.id>>, company |-> hypothesis.company,
     hypothesis |-> hypothesis.id, counter |-> counter.id, assessment |-> assessment.id,
     review |-> hypothesis.review, validation |-> hypothesis.validation, created |-> now,
     prov |-> WithSource]

ResearchOutcome(company, status) == Outcome("research_workflow", company, status)

_persist_partial_workflow(assessment) ==
    <<Write("evidence_assessments", {assessment}),
      ResearchOutcome(assessment.company, "attention_required")>>

\* Mutant: the brief is filed before what it refers to.
_persist_completed_workflow_brief_first(hypothesis, assessment, counter, brief) ==
    <<Write("research_briefs", {brief}),
      Write("hypotheses", {hypothesis}),
      Write("evidence_assessments", {assessment}),
      Write("counter_hypotheses", {counter}),
      ResearchOutcome(brief.company, "succeeded")>>

_persist_completed_workflow(hypothesis, assessment, counter, brief) ==
    <<Write("hypotheses", {hypothesis}),
      Write("evidence_assessments", {assessment}),
      Write("counter_hypotheses", {counter}),
      Write("research_briefs", {brief}),
      ResearchOutcome(brief.company, "succeeded")>>

CompletedPlan(in, hypothesis, assessment, now) ==
    LET counter == generate_counter_hypothesis(in, hypothesis, now)
    IN  Plan(_persist_completed_workflow([hypothesis EXCEPT !.assessment = assessment.id],
                 assessment, counter,
                 build_research_brief(hypothesis, counter, assessment, now)), FALSE)

(* Too little evidence, and so no hypothesis, is a result, not a failure.  *)
ResearchPlan(in, links, hypothesis, assessment, now) ==
    IF ~Supported(links) \/ assessment.grade = "insufficient"
    THEN Plan(_persist_partial_workflow(assessment), FALSE)
    ELSE CompletedPlan(in, hypothesis, assessment, now)

LinksPlan(in, links, now) ==
    LET hypothesis == generate_hypothesis(in, links, now)
    IN  ResearchPlan(in, links, hypothesis,
                     build_evidence_assessment(in, hypothesis, links, now), now)

(* Step 3.                                                                 *)
run_research_workflow(files, company, now) ==
    LET companies == Resolved(ResearchCompanies(files), company)
        Of_(c) == load_research_artifacts(files, c)
    IN  IF companies = {} THEN Plan(<<ResearchOutcome("unresolved", "failed")>>, TRUE)
        ELSE LET in == Of_(CHOOSE c \in companies : TRUE)
             IN  LinksPlan(in, _build_supporting_evidence_links(in), now)

-----------------------------------------------------------------------------
(* Features: of the latest brief and what it refers to, else of the latest *)
(* assessment alone.                                                       *)

(* What a brief refers to and is not on file.                              *)
Dangling(files, brief) ==
    \/ ById(files.hypotheses, brief.hypothesis) = {}
    \/ ById(files.counter_hypotheses, brief.counter) = {}
    \/ ById(files.evidence_assessments, brief.assessment) = {}
The(artifacts) == CHOOSE a \in artifacts : TRUE

SliceOf(files, company, brief) ==
    IF brief = None
    THEN [company |-> company, hypothesis |-> None, counter |-> None, brief |-> None,
          assessment |-> Latest(Of(files.evidence_assessments, company))]
    ELSE [company |-> company, brief |-> brief,
          hypothesis |-> The(ById(files.hypotheses, brief.hypothesis)),
          counter |-> The(ById(files.counter_hypotheses, brief.counter)),
          assessment |-> The(ById(files.evidence_assessments, brief.assessment))]

Clamp(n, low, high) == IF n < low THEN low ELSE IF n > high THEN high ELSE n

SUPPORT_GRADE_MAP == [strong |-> 100, moderate |-> 66, weak |-> 33, insufficient |-> 0]
GUIDANCE_SCORE_MAP == [raised |-> 2, maintained |-> 1, initiated |-> 1, lowered |-> -2, withdrew |-> -2]

_guidance_change_score(changes) ==
    IF changes = {} THEN 0 ELSE Max({GUIDANCE_SCORE_MAP[g.class] : g \in changes})
_tone_balance_score(markers) ==
    Clamp(Cardinality({m \in markers : m.class \in {"confidence", "improvement"}})
          - Cardinality({m \in markers : m.class \in {"caution", "uncertainty"}}), -3, 3)
_counterargument_pressure_score(counter) ==
    Clamp(Cardinality(counter.kinds) + counter.missing_evidence + counter.causal_gaps, 0, 6)

FeatureValues(slice, evidence) ==
    [support_grade_score |-> SUPPORT_GRADE_MAP[slice.assessment.grade],
     support_document_count |-> Cardinality(Documents(slice.hypothesis.links)),
     guidance_change_score |-> _guidance_change_score(evidence.guidance_changes),
     risk_factor_count |-> Cardinality(evidence.risk_factors),
     tone_balance_score |-> _tone_balance_score(evidence.tone_markers),
     counterargument_pressure_score |-> _counterargument_pressure_score(slice.counter)]

FeatureName == {"support_grade_score", "support_document_count", "guidance_change_score",
                "risk_factor_count", "tone_balance_score", "counterargument_pressure_score"}

(* A feature is known by its name and the day of its brief.                *)
FeaturesOf(slice, values) ==
    {[id |-> <<slice.company, name, slice.brief.created>>, name |-> name,
      company |-> slice.company, value |-> values[name],
      hypothesis |-> slice.hypothesis.id, brief |-> slice.brief.id,
      assessment |-> slice.assessment.id,
      links |-> {l.id : l \in slice.hypothesis.links},
      documents |-> Documents(slice.hypothesis.links)] : name \in FeatureName}

_artifact_blocked(a) == review_state_invalid(a)

build_feature_candidates(slice, evidence) ==
    IF slice.assessment.grade = "insufficient"
       \/ None \in {slice.hypothesis, slice.counter, slice.brief} THEN {}
    ELSE IF \E a \in {slice.assessment, slice.hypothesis, slice.counter, slice.brief} :
                _artifact_blocked(a) THEN {}
    ELSE FeaturesOf(slice, FeatureValues(slice, evidence))

(* A feature as the gates see it.                                          *)
FeatureView(f) ==
    [id |-> f.id, definition |-> f.name, valueOf |-> f.name, links |-> f.links,
     documents |-> f.documents, assumptions |-> TRUE, prov |-> WithSource,
     definitionRecord |-> [id |-> f.name, prov |-> {"time", "name", "upstream"}],
     valueRecord |-> [id |-> f.id, prov |-> WithSource]]
FeatureViews(features) == LET s == InSomeOrder(features) IN [i \in DOMAIN s |-> FeatureView(s[i])]

FeatureOutcome(company, features) ==
    Outcome("feature_mapping", company, IF features = {} THEN "attention_required" ELSE "succeeded")

OutputPlan(company, features) ==
    Gated(validate_feature_output(company, FeatureViews(features)),
          <<Write("feature_values", {[id |-> <<f.id, f.brief>>, name |-> f.name] : f \in features}),
            Write("features", features)>>,
          <<FeatureOutcome(company, features)>>, Outcome("feature_mapping", company, "failed"))

SlicePlan(files, slice) ==
    InTurn(<<Gated(validate_feature_mapping_inputs(slice), <<>>, <<>>,
                   Outcome("feature_mapping", slice.company, "failed")),
             OutputPlan(slice.company,
                 IF Refused(validate_feature_mapping_inputs(slice)) THEN {}
                 ELSE build_feature_candidates(slice, EvidenceOf(files, slice.company)))>>)

FeaturePlanOf(files, company, brief) ==
    IF Of(files.evidence_assessments, company) = {} \/ (brief # None /\ Dangling(files, brief))
    THEN Plan(<<Outcome("feature_mapping", company, "failed")>>, TRUE)
    ELSE SlicePlan(files, SliceOf(files, company, brief))

ResearchedCompanies(files) ==
    {a.company : a \in files.research_briefs \cup files.evidence_assessments}

(* The first part of step 4.                                               *)
run_feature_mapping_workflow(files, company) ==
    LET companies == Resolved(ResearchedCompanies(files), company)
    IN  IF companies = {} THEN Plan(<<Outcome("feature_mapping", "unresolved", "failed")>>, TRUE)
        ELSE LET c == The(companies)
             IN  FeaturePlanOf(files, c, Latest(Of(files.research_briefs, c)))

-----------------------------------------------------------------------------
(* The candidate signal, of every feature on file for the company.  Where  *)
(* several days have a feature of one name, the last in the order of the   *)
(* directory gives its value and the first is cited as its source.         *)

Named(features, name) == {f \in features : f.name = name}
BriefDay(f) == f.id[3]
ValueOn(features, name, day) == (The({f \in Named(features, name) : BriefDay(f) = day})).value
LastOfName(features) ==
    {[n \in FeatureName |-> ValueOn(features, n, last[n])] :
        last \in {p \in [FeatureName -> {BriefDay(f) : f \in features}] :
                    \A n \in FeatureName : \E f \in Named(features, n) : BriefDay(f) = p[n]}}

PrimaryScore(value) ==
    9 * value["support_grade_score"]
    + 200 * Clamp(value["support_document_count"], 0, 3)
    + 300 * value["guidance_change_score"]
    + 100 * value["tone_balance_score"]
    - 100 * Clamp(value["risk_factor_count"], 0, 3)
    - 50 * value["counterargument_pressure_score"]

_stance_from_score(score) ==
    IF score >= 750 THEN "positive" ELSE IF score <= -750 THEN "negative" ELSE "monitor"

(* A signal is known by its company and the time it takes effect.          *)
CandidateSignal(company, features, value, effective, hypothesis) ==
    [id |-> <<company, effective>>, company |-> company, hypothesis |-> hypothesis,
     stance |-> _stance_from_score(PrimaryScore(value)),
     features |-> {f.id : f \in features}, effective |-> effective]

ScoresOf(signal, features) ==
    {[id |-> <<signal.id, n>>, signal |-> signal.id,
      source |-> {f.id : f \in Named(features, n)}] : n \in FeatureName}

SignalView(s, features) ==
    [id |-> s.id, features |-> s.features, lineage |-> s.features,
     components |-> {{f.id : f \in Named(features, n)} : n \in FeatureName},
     effective |-> s.effective, expires |-> s.effective, status |-> "candidate",
     uncertainties |-> TRUE, prov |-> WithSource]
ScoreView(s) == [id |-> s.id, prov |-> {"time", "name", "upstream"}]

SignalPlan(signal, features, scores) ==
    Gated(validate_signal_generation(signal.company, FeatureViews(features),
              <<SignalView(signal, features)>>,
              LET s == InSomeOrder(scores) IN [i \in DOMAIN s |-> ScoreView(s[i])]),
          <<Write("signal_scores", scores), Write("signals", {signal})>>,
          <<Outcome("signal_generation", signal.company, "succeeded")>>,
          Outcome("signal_generation", signal.company, "failed"))

(* A feature is missing, as after a death amid the features of a run.      *)
NoSignalPlan(company, features) ==
    Gated(validate_signal_generation(company, FeatureViews(features), <<>>, <<>>), <<>>,
          <<Outcome("signal_generation", company, "attention_required")>>,
          Outcome("signal_generation", company, "failed"))

(* The last day on which a document of the company became available.       *)
EffectiveAt(files, company) ==
    Max({d.day : d \in {x \in files.documents : x.company = {company}}})

HypothesisOf(files, company, features) ==
    LET briefs == Of(files.research_briefs, company)
    IN  IF briefs = {} THEN The(features).hypothesis ELSE Latest(briefs).hypothesis

(* The second part of step 4: a plan for each order of the directory.      *)
run_signal_generation_workflow(files, company) ==
    LET features == Of(files.features, company)
        Signal(value) == CandidateSignal(company, features, value, EffectiveAt(files, company),
                                         HypothesisOf(files, company, features))
    IN  IF features = {} THEN {Plan(<<Outcome("signal_generation", company, "failed")>>, TRUE)}
        ELSE IF {f.name : f \in features} # FeatureName THEN {NoSignalPlan(company, features)}
        ELSE {SignalPlan(s, features, ScoresOf(s, features)) :
                 s \in {Signal(value) : value \in LastOfName(features)}}
=============================================================================
