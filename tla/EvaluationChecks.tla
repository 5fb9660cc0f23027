--------------------------- MODULE EvaluationChecks ---------------------------
(***************************************************************************)
(* The deterministic checks of services/evaluation on artifacts of the     *)
(* research chain.  A check returns failure cases, in the order it finds   *)
(* them, and metrics that pass, warn or fail; an evaluation concatenates   *)
(* checks.  Of an artifact the checks see its identifier, what its         *)
(* provenance record holds (`prov`) and the identifiers it refers to.      *)
(***************************************************************************)
EXTENDS Integers, Sequences, FiniteSets, SequencesExt

CONSTANT None   \* an absent grade, reason or artifact

Failure(kind, target, severity, blocking) ==
    [kind |-> kind, target |-> target, severity |-> severity, blocking |-> blocking]

(* A metric is filed under its name and its target: a later one with both  *)
(* takes its place.                                                        *)
Metric(name, target, status) == [id |-> <<name, target>>, status |-> status]

(* One item when a condition holds, none otherwise.                        *)
Only(b, item) == IF b THEN <<item>> ELSE <<>>

Artifacts(failures, metrics) == [failures |-> failures, metrics |-> metrics, robustness |-> {}]
(* What the checks have found, one after the other.                        *)
extend(checks) ==
    [failures |-> FlattenSeq([i \in DOMAIN checks |-> checks[i].failures]),
     metrics |-> UNION {checks[i].metrics : i \in DOMAIN checks},
     robustness |-> UNION {checks[i].robustness : i \in DOMAIN checks}]

_ratio_status(covered, total) ==
    IF total = 0 \/ covered = 0 THEN "fail" ELSE IF covered < total THEN "warn" ELSE "pass"

(* A collection in whatever order it is enumerated.                        *)
InSomeOrder(items) == FoldSet(LAMBDA item, rest : Append(rest, item), <<>>, items)

(* The items that pass a test, in their order.                             *)
Those(items, Test(_)) == FlattenSeq([i \in DOMAIN items |-> Only(Test(items[i]), items[i])])

(* The failures of each artifact in turn and the share without a failure   *)
(* that counts.                                                            *)
FailuresOf(items, Find(_)) == FlattenSeq([i \in DOMAIN items |-> Find(items[i])])
CoverageMetric(name, items, Uncovered(_)) ==
    Metric(name, "all", _ratio_status(
        Cardinality({i \in DOMAIN items : ~Uncovered(items[i])}), Len(items)))

-----------------------------------------------------------------------------
(* Provenance.                                                             *)

(* A link may also be to a data snapshot or an experiment.                 *)
_provenance_failures(artifact) ==
    ({"time", "name"} \ artifact.prov)
        \cup IF artifact.prov \cap {"source", "upstream", "snapshot", "experiment"} = {}
             THEN {"link"} ELSE {}

evaluate_provenance_completeness(target, artifacts) ==
    LET Missing(a) == _provenance_failures(a) # {}
        Find(a) == Only(Missing(a), Failure("missing_provenance", a.id, "high", TRUE))
    IN  Artifacts(IF artifacts = <<>>
                  THEN <<Failure("empty_output", target, "high", TRUE)>>
                  ELSE FailuresOf(artifacts, Find),
                  {CoverageMetric("provenance_complete_ratio", artifacts, Missing)})

-----------------------------------------------------------------------------
(* Features and signals.                                                   *)

FeatureFailures(f) ==
    Only(f.definition # f.valueOf, Failure("broken_lineage", f.id, "high", TRUE))
    \o Only(f.links = {} \/ f.documents = {}, Failure("broken_lineage", f.id, "high", TRUE))

evaluate_feature_lineage_completeness(features) ==
    LET Uncovered(f) == FeatureFailures(f) # <<>>
    IN  Artifacts(FailuresOf(features, FeatureFailures),
                  {Metric("feature_assumptions_present", f.id, "warn") :
                      f \in {x \in ToSet(features) : ~x.assumptions}}
                  \cup {CoverageMetric("feature_lineage_complete_ratio", features, Uncovered)})

_evaluate_research_signal_lineage(s, known) ==
    LET Broken(b) == Only(b, Failure("broken_lineage", s.id, "high", TRUE))
    IN  Broken(s.features = {})
        \o Broken(~(s.features \subseteq known))
        \o Broken(s.lineage # s.features)
        \o Broken(\E c \in s.components : c = {} \/ ~(c \subseteq s.features))

SignalFailures(s, known) ==
    Only(s.expires < s.effective, Failure("invalid_timestamp", s.id, "high", TRUE))
    \o _evaluate_research_signal_lineage(s, known)

evaluate_signal_generation_validity(signals, features) ==
    LET known == {f.id : f \in ToSet(features)}
        Find(s) == SignalFailures(s, known)
        Uncovered(s) == Find(s) # <<>>
    IN  Artifacts(FailuresOf(signals, Find),
                  {Metric("candidate_uncertainty_visible", s.id, "warn") :
                      s \in {x \in ToSet(signals) : x.status = "candidate" /\ ~x.uncertainties}}
                  \cup {CoverageMetric("signal_validity_ratio", signals, Uncovered)})

(* Signals of strategy variants rest on snapshots, and those that use text *)
(* on signals of the slice.                                                *)
_evaluate_variant_signal_lineage(s, known, snapshots) ==
    LET Broken(b) == Only(b, Failure("broken_lineage", s.id, "high", TRUE))
    IN  Broken(s.snapshots = {})
        \o Broken(~(s.snapshots \subseteq snapshots))
        \o Broken(s.family \in {"text_only", "combined"} /\ s.sources = {})
        \o Broken(~(s.sources \subseteq known))

evaluate_variant_signal_validity(signals, known, snapshots) ==
    LET Find(s) == _evaluate_variant_signal_lineage(s, known, snapshots)
        Uncovered(s) == Find(s) # <<>>
    IN  Artifacts(FailuresOf(signals, Find),
                  {CoverageMetric("signal_validity_ratio", signals, Uncovered)})

-----------------------------------------------------------------------------
(* The runs of an ablation: each with its family, signals, backtest run,   *)
(* summary, benchmarks, dataset references and experiment.                 *)

SnapshotsOf(run) == {run.signalSnapshot, run.priceSnapshot}
LinkedSnapshots(v) == {d.snapshot : d \in v.datasets}
NamesItsExperiment(v) == v.experiment # None /\ v.run.experiment = v.experiment.id

LinkageFailures(v) ==
    Only(~NamesItsExperiment(v), Failure("incomplete_config", v.run.id, "high", TRUE))
    \o Only(v.datasets = {}, Failure("incomplete_config", v.run.id, "high", TRUE))
    \o Only(v.datasets # {} /\ ~(SnapshotsOf(v.run) \subseteq LinkedSnapshots(v)),
            Failure("broken_lineage", v.run.id, "high", TRUE))

BacktestFailures(v, recorded) ==
    Only(None \in SnapshotsOf(v.run), Failure("incomplete_config", v.run.id, "high", TRUE))
    \o Only(v.run.summary # v.summary.id, Failure("broken_lineage", v.run.id, "high", TRUE))
    \o Only(v.benchmarks = {}, Failure("empty_output", v.run.id, "high", TRUE))
    \o IF recorded THEN LinkageFailures(v) ELSE <<>>

evaluate_backtest_artifact_completeness(runs, recorded) ==
    LET Find(v) == BacktestFailures(v, recorded)
        Uncovered(v) == Find(v) # <<>>
        Unlinked(v) == LinkageFailures(v) # <<>>
    IN  Artifacts(FailuresOf(runs, Find),
                  {Metric("leakage_checks_clean", v.run.id, "warn") :
                      v \in {x \in ToSet(runs) : x.run.leaks}}
                  \cup {CoverageMetric("backtest_artifact_complete_ratio", runs, Uncovered)}
                  \cup IF recorded THEN {CoverageMetric("experiment_linkage_ratio", runs, Unlinked)}
                       ELSE {})

(* The families of the result against those that were asked for.           *)
evaluate_strategy_comparison_output(config, result, runs) ==
    LET observed == [i \in DOMAIN result.rows |-> result.rows[i].family]
        Fails(b, kind) == Only(b, Failure(kind, result.id, "high", TRUE))
    IN  Artifacts(
            Fails(result.rows = <<>>, "empty_output")
            \o Fails(~IsInjective(observed) \/ ToSet(observed) # ToSet(config.families),
                     "incomplete_config")
            \o Fails(result.metric # config.metric, "incomplete_config")
            \o Fails(config.record /\ \E r \in ToSet(result.rows) : r.experiment = None,
                     "incomplete_config")
            \o Fails(~({r.run : r \in ToSet(result.rows)} \subseteq {v.run.id : v \in ToSet(runs)}),
                     "broken_lineage"),
            {Metric("strategy_family_coverage_ratio", "all",
                 _ratio_status(Cardinality(ToSet(observed)), Cardinality(ToSet(config.families))))})

-----------------------------------------------------------------------------
(* Robustness checks.                                                      *)

Robustness(kind, status) == [id |-> kind, status |-> status]

robustness_missing_data_sensitivity(runs) ==
    Robustness("missing_data_sensitivity",
               IF \E v \in ToSet(runs) : v.signals = {} THEN "warn" ELSE "pass")

(* Whatever is later than what the comparison says it could have known.    *)
TextAfterCutoff(research, texts) == {t \in texts : t.effective > research.cutoff}
DecidedAfterPrices(prices, runs) == {v \in runs : v.run.cutoff > prices.time}
OutsideSlice(slice, runs) ==
    {s \in UNION {v.signals : v \in runs} : s.effective < slice.start \/ s.effective > slice.end}
AfterItsSources(sources, runs) ==
    {s \in UNION {v.signals : v \in runs} :
        \/ ~(s.snapshots \subseteq {x.id : x \in sources})
        \/ \E x \in sources : x.id \in s.snapshots /\ s.effective > x.cutoff}

robustness_timestamp_anomaly(slice, research, prices, texts, runs) ==
    LET sources == {research, prices}
        anomalous == \/ \E x \in sources : x.time < x.cutoff
                     \/ TextAfterCutoff(research, texts) # {}
                     \/ DecidedAfterPrices(prices, ToSet(runs)) # {}
                     \/ OutsideSlice(slice, ToSet(runs)) # {}
                     \/ AfterItsSources(sources, ToSet(runs)) # {}
    IN  Robustness("timestamp_anomaly", IF anomalous THEN "fail" ELSE "pass")

robustness_source_inconsistency(expected, companies) ==
    Robustness("source_inconsistency", IF companies # {expected} THEN "fail" ELSE "pass")

robustness_incomplete_extraction_artifact(texts, features) ==
    Robustness("incomplete_extraction_artifact",
               IF \/ \E t \in texts : t.links = {}
                  \/ \E f \in features : f.links = {} \/ f.documents = {}
               THEN "fail" ELSE "pass")

robustness_invalid_strategy_config(families) ==
    Robustness("invalid_strategy_config", IF IsInjective(families) THEN "pass" ELSE "fail")

-----------------------------------------------------------------------------
(* The report.                                                             *)

derive_overall_status(a) ==
    LET marks == {m.status : m \in a.metrics} \cup {r.status : r \in a.robustness}
        severe(f) == f.blocking \/ f.severity \in {"high", "critical"}
    IN  IF (\E i \in DOMAIN a.failures : severe(a.failures[i])) \/ "fail" \in marks THEN "fail"
        ELSE IF a.failures # <<>> \/ "warn" \in marks THEN "warn"
        ELSE IF marks # {} THEN "pass" ELSE "not_evaluated"
=============================================================================
