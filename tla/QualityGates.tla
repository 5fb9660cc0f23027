---------------------------- MODULE QualityGates ----------------------------
(***************************************************************************)
(* The validation gates of services/data_quality that the workflows call   *)
(* before and after they write.  A gate collects issues, which only warn,  *)
(* and contract violations, in order; it decides, files its report, its    *)
(* findings, its checks and last itself, and refuses or quarantines when a *)
(* violation blocks.  Artifacts are records of what the gates read.        *)
(***************************************************************************)
EXTENDS EvaluationChecks

Violation(contract, target, reason) ==
    [contract |-> contract, target |-> target, reason |-> reason, blocking |-> TRUE]

(* What a stage does to the files: its writes in order, and whether it     *)
(* raises after the last.                                                  *)
Write(category, items) == [category |-> category, items |-> items]
Plan(writes, raises) == [writes |-> writes, raises |-> raises]

\* Mutant: a batch goes on after an item that raises.
InTurnRegardless(plans) ==
    Plan(FlattenSeq([i \in DOMAIN plans |-> plans[i].writes]), FALSE)

(* Plans one after the other: nothing follows the first that raises.       *)
InTurn(plans) ==
    LET raising == {i \in DOMAIN plans : plans[i].raises}
        last == IF raising = {} THEN Len(plans) ELSE Min(raising)
    IN  Plan(FlattenSeq([i \in 1..last |-> plans[i].writes]), raising # {})

-----------------------------------------------------------------------------
(* rules.py                                                                *)

provenance_failures(artifact, link) ==
    ({"time", "name"} \ artifact.prov)
        \cup IF link /\ artifact.prov \cap {"source", "upstream"} = {} THEN {"link"} ELSE {}

Unproven(artifact, contract) ==
    Only(provenance_failures(artifact, TRUE) # {},
         Violation(contract, artifact.id, "missing_provenance"))

has_usable_source_timing(a) == a.available \/ a.published \/ a.effective
requires_company_link(kind) == kind \in {"filing", "earnings_call"}
review_state_invalid(a) == a.review = "rejected" \/ a.validation = "invalidated"

quality_decision_for_findings(issues, violations, quarantine) ==
    IF \E i \in DOMAIN violations : violations[i].blocking
    THEN IF quarantine THEN "quarantine" ELSE "refuse"
    ELSE IF issues # {} THEN "warn" ELSE "pass"

refusal_reason_from_failure_case(f) ==
    CASE f.kind = "missing_provenance" -> "missing_provenance"
      [] f.kind = "broken_lineage" -> "broken_signal_lineage"
      [] f.kind = "incomplete_config" -> "missing_required_artifact"
      [] OTHER -> "structurally_invalid_output"

_violations_from_failure_cases(failures, Reason(_)) ==
    [i \in DOMAIN failures |->
        [contract |-> failures[i].kind, target |-> failures[i].target,
         reason |-> Reason(failures[i]), blocking |-> failures[i].blocking]]

-----------------------------------------------------------------------------
(* What every gate does with its findings.                                 *)

With(violations, reasons) == Those(violations, LAMBDA v : v.reason \in reasons)

(* A check groups some of the findings under its code and decides on them. *)
_build_checks(specs, quarantine) ==
    {[code |-> s.code,
      decision |-> IF s.violations # <<>> /\ ~\E i \in DOMAIN s.violations : s.violations[i].blocking
                   THEN "warn"
                   ELSE quality_decision_for_findings(s.issues, s.violations, quarantine)] : s \in specs}
Spec_(code, issues, violations) == [code |-> code, issues |-> issues, violations |-> violations]

(* The reason of a refusal is that of the first violation that blocks.     *)
FirstReason(violations) ==
    LET blocking == Those(violations, LAMBDA v : v.blocking)
    IN  IF blocking = <<>> THEN None ELSE blocking[1].reason

(* A later run of the gate on the same target writes the same file.        *)
_finalize_gate_result(name, target, missing, issues, violations, specs, quarantine) ==
    LET decision == quality_decision_for_findings(issues, violations, quarantine)
    IN  [name |-> name, target |-> target, decision |-> decision,
         reason |-> FirstReason(violations),
         missing |-> missing, issues |-> issues,
         violations |-> {violations[i] : i \in DOMAIN violations},
         checks |-> _build_checks(specs, quarantine)]

Refused(gate) == gate.decision \in {"refuse", "quarantine"}
Missing(fields) == {f \in DOMAIN fields : ~fields[f]}

-----------------------------------------------------------------------------
(* Ingestion: the source, the document and the company normalized from one *)
(* raw fixture.  `document` and `company` are sets of at most one.         *)

IngestionFields(source, documents, companies) ==
    {<<"source", f>> : f \in (IF has_usable_source_timing(source) THEN {} ELSE {"timing"})
                             \cup ({"time", "name"} \ source.prov)}
    \cup UNION {{<<"document", f>> :
            f \in (IF has_usable_source_timing(d) THEN {} ELSE {"timing"})
                  \cup ({"time", "name"} \ d.prov)
                  \cup (IF requires_company_link(d.kind) /\ d.company = {}
                        THEN {"company_id"} ELSE {})} : d \in documents}
    \cup UNION {{<<"company", f>> : f \in {"time", "name"} \ c.prov} : c \in companies}

IngestionIssues(source) ==
    IF ~source.published /\ source.effective
    THEN {"source_publication_timestamp_missing"} ELSE {}

IngestionSourceViolations(source) ==
    Only(~has_usable_source_timing(source),
         Violation("source_timing_anchor", source.id, "missing_required_timestamp"))
    \o Only(provenance_failures(source, FALSE) # {},
            Violation("source_minimum_provenance", source.id, "missing_provenance"))

IngestionDocumentViolations(d, companies) ==
    Only(~has_usable_source_timing(d),
         Violation("document_timing_anchor", d.id, "missing_required_timestamp"))
    \o Unproven(d, "document_minimum_provenance")
    \o Only(requires_company_link(d.kind) /\ (companies = {} \/ d.company = {}),
            Violation("document_company_link", d.id, "missing_entity_linkage"))
    \o Only(d.company # {} /\ \E c \in companies : d.company # {c.id},
            Violation("document_company_mismatch", d.id, "missing_entity_linkage"))

validate_ingestion_normalization(source, documents, companies) ==
    LET violations ==
            IngestionSourceViolations(source)
            \o FlattenSeq(SetToSeq({IngestionDocumentViolations(d, companies) : d \in documents}))
            \o FlattenSeq(SetToSeq({Unproven(c, "company_minimum_provenance") : c \in companies}))
        issues == IngestionIssues(source)
        specs == {Spec_("source_timing_visibility", issues, <<>>),
                  Spec_("normalized_ingestion_provenance", {},
                        With(violations, {"missing_provenance"})),
                  Spec_("normalized_ingestion_entity_linkage", {},
                        With(violations, {"missing_entity_linkage"}))}
    IN  _finalize_gate_result("ingestion_normalization",
            IF documents = {} THEN source.id ELSE (CHOOSE d \in documents : TRUE).id,
            IngestionFields(source, documents, companies), issues, violations, specs, TRUE)

-----------------------------------------------------------------------------
(* Parsing: the document and its source on the way in, the bundle of       *)
(* evidence on the way out.                                                *)

ParsingInputViolations(d, source) ==
    Only(d.source # source.id, Violation("source_must_match", d.id, "missing_required_artifact"))
    \o Unproven(d, "document_provenance_for_parsing")
    \o Only(provenance_failures(source, FALSE) # {},
            Violation("source_provenance_for_parsing", source.id, "missing_provenance"))
    \o Only(~has_usable_source_timing(d),
            Violation("document_timing_for_parsing", d.id, "missing_required_timestamp"))
    \o Only(requires_company_link(d.kind) /\ d.company = {},
            Violation("document_company_for_parsing", d.id, "missing_entity_linkage"))

validate_parsing_inputs(d, source) ==
    LET violations == ParsingInputViolations(d, source)
        fields == [document_timing |-> has_usable_source_timing(d),
                   source_timing |-> has_usable_source_timing(source),
                   company_id |-> requires_company_link(d.kind) => d.company # {}]
        specs == {Spec_("parsing_input_completeness", {},
                        With(violations, {"missing_required_timestamp",
                            "missing_required_artifact", "missing_entity_linkage"})),
                  Spec_("parsing_input_provenance", {},
                        With(violations, {"missing_provenance"}))}
    IN  _finalize_gate_result("parsing_inputs", d.id, Missing(fields), {}, violations,
                              specs, FALSE)

EvidenceViolations(b) ==
    Only(~b.passed, Violation("passing_integrity_evaluation", b.id, "structurally_invalid_output"))
    \o Only(b.segments = <<>> \/ b.spans = <<>>,
            Violation("segments_and_spans", b.id, "structurally_invalid_output"))
    \o Only(requires_company_link(b.kind) /\ b.company = {},
            Violation("bundle_company_link", b.id, "missing_entity_linkage"))
    \o _violations_from_failure_cases(
           evaluate_provenance_completeness(b.id, <<b.text>> \o b.segments \o b.spans \o b.artifacts).failures,
           refusal_reason_from_failure_case)

validate_evidence_bundle(b) ==
    LET violations == EvidenceViolations(b)
        fields == [canonical_text |-> b.filled,
                   segments |-> b.segments # <<>>, evidence_spans |-> b.spans # <<>>,
                   passed |-> b.passed,
                   company_id |-> requires_company_link(b.kind) => b.company # {}]
        specs == {Spec_("document_evidence_integrity", {},
                        With(violations, {"structurally_invalid_output", "missing_entity_linkage"})),
                  Spec_("document_evidence_provenance", {},
                        With(violations, {"missing_provenance"}))}
    IN  _finalize_gate_result("evidence_bundle", b.id, Missing(fields), {}, violations,
                              specs, TRUE)

-----------------------------------------------------------------------------
(* Features: the research slice on the way in, the features on the way     *)
(* out.  An artifact of the slice that was not produced is None.           *)

SliceViolations(a, company) ==
    Unproven(a, "slice_provenance")
    \o Only(a.company # company, Violation("slice_company", a.id, "missing_entity_linkage"))
    \o Only(review_state_invalid(a), Violation("slice_review_state", a.id, "invalid_review_state"))

CounterViolations(c, hypothesis) ==
    Unproven(c, "counter_hypothesis_provenance")
    \o Only(hypothesis # None /\ c.hypothesis # hypothesis.id,
            Violation("counter_hypothesis_link", c.id, "missing_entity_linkage"))
    \o Only(review_state_invalid(c),
            Violation("counter_hypothesis_review_state", c.id, "invalid_review_state"))

FeatureInputViolations(in) ==
    LET found == <<in.assessment>> \o Only(in.hypothesis # None, in.hypothesis)
                 \o Only(in.brief # None, in.brief)
        OfSlice(a) == SliceViolations(a, in.company)
    IN  Only(None \in {in.hypothesis, in.counter, in.brief},
             Violation("completed_research_slice", in.company, "missing_required_artifact"))
        \o FailuresOf(found, OfSlice)
        \o IF in.counter = None THEN <<>> ELSE CounterViolations(in.counter, in.hypothesis)

validate_feature_mapping_inputs(in) ==
    LET violations == FeatureInputViolations(in)
        fields == [hypothesis |-> in.hypothesis # None,
                   counter_hypothesis |-> in.counter # None,
                   research_brief |-> in.brief # None]
        specs == {Spec_("feature_mapping_input_completeness", {},
                        With(violations, {"missing_required_artifact"})),
                  Spec_("feature_mapping_input_provenance", {},
                        With(violations, {"missing_provenance"})),
                  Spec_("feature_mapping_input_review_state", {},
                        With(violations, {"invalid_review_state", "missing_entity_linkage"}))}
    IN  _finalize_gate_result("feature_mapping_inputs", in.company, Missing(fields), {},
                              violations, specs, FALSE)

(* What an output gate says of findings that are about lineage or about    *)
(* provenance; nothing at all in the output is only an issue.              *)
OutputSpecs(presence, lineage, provenance, issues, violations) ==
    {Spec_(presence, issues, <<>>),
     Spec_(lineage, {}, Those(violations, LAMBDA v : v.reason # "missing_provenance")),
     Spec_(provenance, {}, With(violations, {"missing_provenance"}))}

Nested(f) == <<f.definitionRecord, f.valueRecord, f>>

FeatureOutputViolations(company, features) ==
    IF features = <<>> THEN <<>>
    ELSE _violations_from_failure_cases(
             evaluate_feature_lineage_completeness(features).failures,
             LAMBDA f : "structurally_invalid_output")
         \o _violations_from_failure_cases(
             evaluate_provenance_completeness(company, FailuresOf(features, Nested)).failures,
             refusal_reason_from_failure_case)

validate_feature_output(company, features) ==
    LET issues == IF features = <<>> THEN {"feature_output_empty"} ELSE {}
        violations == FeatureOutputViolations(company, features)
    IN  _finalize_gate_result("feature_output", company,
            Missing([features |-> features # <<>>]), issues, violations,
            OutputSpecs("feature_output_presence", "feature_output_lineage",
                        "feature_output_provenance", issues, violations), TRUE)

-----------------------------------------------------------------------------
(* Signals.                                                                *)

SignalOutputViolations(company, features, signals, scores) ==
    IF signals = <<>> THEN <<>>
    ELSE _violations_from_failure_cases(
             evaluate_signal_generation_validity(signals, features).failures,
             refusal_reason_from_failure_case)
         \o _violations_from_failure_cases(
             evaluate_provenance_completeness(company, signals \o scores).failures,
             refusal_reason_from_failure_case)

validate_signal_generation(company, features, signals, scores) ==
    LET issues == IF signals = <<>> THEN {"signal_output_empty"} ELSE {}
        violations == SignalOutputViolations(company, features, signals, scores)
        fields == [signals |-> signals # <<>>,
                   signal_scores |-> signals # <<>> => scores # <<>>]
    IN  _finalize_gate_result("signal_generation_output", company, Missing(fields), issues,
            violations, OutputSpecs("signal_output_presence", "signal_output_validity",
                                    "signal_output_provenance", issues, violations), TRUE)

-----------------------------------------------------------------------------
(* The proposal and its paper trades.                                      *)

InputSignalViolations(s) ==
    Unproven(s, "signal_provenance")
    \o Only(s.features = {} \/ s.lineage # s.features,
            Violation("signal_lineage", s.id, "broken_signal_lineage"))
    \o Only(\E c \in s.components : c = {} \/ ~(c \subseteq s.features),
            Violation("signal_component_scores", s.id, "broken_signal_lineage"))

IdeaViolations(idea, signals) ==
    Only(\A i \in DOMAIN signals : signals[i].id # idea.signal,
         Violation("idea_signal", idea.id, "missing_required_artifact"))
    \o Unproven(idea, "idea_provenance")

validate_portfolio_proposal(signals, ideas, proposal) ==
    LET ofSignals == FailuresOf(signals, InputSignalViolations)
        OfIdea(i) == IdeaViolations(i, signals)
        ofIdeas == FailuresOf(ideas, OfIdea)
        ofProposal == Unproven(proposal, "proposal_provenance")
        specs == {Spec_("portfolio_input_signal_contracts", {}, ofSignals),
                  Spec_("portfolio_output_position_contracts", {}, ofIdeas),
                  Spec_("portfolio_output_proposal_contracts", {}, ofProposal)}
    IN  _finalize_gate_result("portfolio_proposal", proposal.id,
            Missing([signals |-> signals # <<>>]), {},
            ofSignals \o ofIdeas \o ofProposal, specs, FALSE)

(* A proposal is blocked by its recorded issues or by a check that blocks. *)
Blocked(proposal) == proposal.blocking \/ \E c \in proposal.checks : c.blocking

RequestViolations(proposal) ==
    Only(proposal.status # "approved",
         Violation("approved_proposal", proposal.id, "invalid_review_state"))
    \o Only(Blocked(proposal), Violation("no_blocking_checks", proposal.id, "invalid_review_state"))

TradeViolations(trade, proposal) ==
    Only(trade.proposal # proposal.id,
         Violation("trade_proposal", trade.id, "structurally_invalid_output"))
    \o Only(\A i \in DOMAIN proposal.ideas : proposal.ideas[i].id # trade.idea,
            Violation("trade_idea", trade.id, "missing_required_artifact"))
    \o Unproven(trade, "trade_provenance")

(* Before any trade exists the request is refused; afterwards the trades   *)
(* are quarantined.  `trades` is None for the request.                     *)
validate_paper_trade_request(proposal, trades) ==
    LET OfTrade(t) == TradeViolations(t, proposal)
        ofRequest == RequestViolations(proposal)
        ofTrades == IF trades = None THEN <<>> ELSE FailuresOf(trades, OfTrade)
        fields == [status_approved |-> proposal.status = "approved",
                   blocking_issues_clear |-> ~Blocked(proposal),
                   proposed_trades |-> trades # <<>>]
        specs == {Spec_("paper_trade_request_contracts", {}, ofRequest),
                  Spec_("paper_trade_output_contracts", {}, ofTrades)}
    IN  _finalize_gate_result(
            IF trades = None THEN "paper_trade_request" ELSE "paper_trade_output",
            proposal.id, Missing(fields), {}, ofRequest \o ofTrades, specs,
            trades # None)

-----------------------------------------------------------------------------
(* Experiments: the configuration and the references to the datasets.      *)

DatasetViolations(d) ==
    Only(None \in {d.snapshot, d.storage, d.manifest} \/ provenance_failures(d, TRUE) # {},
         Violation("replayable_dataset_reference", d.id, "incomplete_experiment_metadata"))

validate_experiment_metadata(name, config, datasets) ==
    LET violations ==
            Only(datasets = <<>>,
                 Violation("dataset_references", name, "incomplete_experiment_metadata"))
            \o Unproven(config, "experiment_config_provenance")
            \o FailuresOf(datasets, DatasetViolations)
        specs == {Spec_("experiment_metadata_completeness", {},
                        With(violations, {"incomplete_experiment_metadata"})),
                  Spec_("experiment_metadata_provenance", {},
                        With(violations, {"missing_provenance"}))}
    IN  _finalize_gate_result("experiment_metadata", name,
            Missing([dataset_reference_ids |-> datasets # <<>>]), {}, violations,
            specs, FALSE)
=============================================================================
