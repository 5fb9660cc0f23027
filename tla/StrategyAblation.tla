--------------------------- MODULE StrategyAblation ---------------------------
(***************************************************************************)
(* run_strategy_ablation_workflow (services/backtesting): the strategies   *)
(* of a configuration each turn the same prices and research into signals, *)
(* run the simulation of BacktestSimulation on them and file an experiment *)
(* in the registry; the workflow then ranks them, files an experiment over *)
(* theirs, evaluates the comparison and reports.                           *)
(*                                                                         *)
(* One write stands for the files of one category written in a row.  The   *)
(* process can die, or a write can raise, between any two.  A run has new  *)
(* experiments and backtest runs, but the configurations, the snapshots,   *)
(* the result and the report of a run before it are overwritten.  Scores   *)
(* are whole hundredths; the instances keep their divisions exact.         *)
(***************************************************************************)
EXTENDS QualityGates

CONSTANTS
    NumBars, CloseAt, Buffer, CostRate, StartingCash,   \* as in BacktestSimulation
    Slice,         \* [start, end] of the evaluation slice
    Now,           \* the wall clock
    VariantOrder,  \* the families by the identifiers of their variants
    Scenarios,     \* [prices, config, researches]: what run n finds is researches[n]
    MaxFaults      \* deaths and failing writes

Family == {"naive", "price_only", "text_only", "combined"}

(* Bars close in order, at prices that are positive; the files of a        *)
(* research directory are finitely many, one for each signal.              *)
ASSUME AblationAssumption ==
    /\ NumBars \in Nat \ {0} /\ Buffer \in Nat
    /\ CloseAt \in [1..NumBars -> Nat]
    /\ \A b, c \in 1..NumBars : b < c => CloseAt[b] < CloseAt[c]
    /\ \A s \in Scenarios :
         /\ s.config.families \in Seq(Family)
         /\ \A b \in 1..NumBars : s.prices.close[b] \in Nat \ {0}
         /\ s.researches \in Seq(ToSet(s.researches))
         /\ \A r \in ToSet(s.researches) :
              /\ IsFiniteSet(r.signals) /\ IsFiniteSet(r.features)
              /\ \A t \in r.signals : t.id \in Nat /\ t.effective \in Nat /\ t.score \in Int
              /\ \A t, u \in r.signals : t.id = u.id => t = u

(* Money and prices are counted, and a configuration has one variant of a  *)
(* family (build_default_strategy_variants), each with its place in the    *)
(* order of the identifiers.                                               *)
ASSUME VariantAssumption ==
    /\ CostRate \in Nat /\ StartingCash \in Nat
    /\ VariantOrder \in Seq(Family) /\ Family \subseteq ToSet(VariantOrder)
    /\ \A s \in Scenarios :
         /\ IsInjective(s.config.families)
         /\ \A b \in 1..NumBars : s.prices.open[b] \in Nat \ {0}

VARIABLES
    signals, lag, bar, phase, open, close, units, cash, costs, turnover, trades,
    pending, decision, fill, held, summary,   \* the simulation of a child
    scenario, n,   \* what is compared, and the runs so far
    files,         \* the artifacts by category
    runs,          \* variant_run_evaluations of this run
    pc,            \* where this run is
    work,          \* what it is about to write, and whether it raises after that
    faults

simulation == <<signals, lag, bar, phase, open, close, units, cash, costs, turnover, trades,
                pending, decision, fill, held, summary>>
vars == <<simulation, scenario, n, files, runs, pc, work, faults>>

Child == INSTANCE BacktestSimulation WITH Price <- {1}, Lags <- {1}, Inputs <- {{}}

Bar == 1..NumBars
LastClose == CloseAt[NumBars]
config == scenario.config
research == scenario.researches[n]

-----------------------------------------------------------------------------
(* The inputs of the strategies and what is said to have been known.       *)

(* The features a signal refers to must be on file.                        *)
Loadable(r) ==
    /\ r.signals # {} /\ r.features # {}
    /\ UNION {t.features : t \in r.signals} \subseteq {f.id : f \in r.features}

TextSignals(r) ==
    {t \in r.signals : config.as_of = None \/ (t.created <= config.as_of /\ t.effective <= config.as_of)}
_text_signals_in_slice(r) ==
    {t \in TextSignals(r) : Slice.start <= t.effective /\ t.effective <= Slice.end}

(* What an artifact says of where it comes from.                           *)
Stamped == {"time", "name"}
Linked == Stamped \cup {"upstream"}

Snapshot(id, cutoff, prov) ==
    [id |-> id, cutoff |-> cutoff, time |-> Max({Now, cutoff}), prov |-> prov]

(* Without an as-of time the last signal of the slice sets the cutoff.     *)
ResearchCutoff(r) ==
    IF config.as_of # None THEN config.as_of
    ELSE IF _text_signals_in_slice(r) = {} THEN Max({Now, LastClose})
    ELSE Max({t.effective : t \in _text_signals_in_slice(r)})
(* The research names the signals it holds; the prices name nothing.       *)
ResearchSnapshot(r) ==
    Snapshot("research", ResearchCutoff(r), IF _text_signals_in_slice(r) = {} THEN Stamped ELSE Linked)
PriceSnapshot == Snapshot("prices", LastClose, Stamped)

-----------------------------------------------------------------------------
(* The strategies.                                                         *)

(* The specification of a family comes from nothing on file.               *)
build_strategy_specs == {[id |-> family, prov |-> Stamped] : family \in ToSet(config.families)}

_score_to_stance(score) ==
    IF score >= 25 THEN "positive" ELSE IF score <= -25 THEN "negative" ELSE "monitor"
_clamp(score) == Max({-100, Min({100, score})})

(* A variant signal is a candidate from its effective time on; its status, *)
(* its expiry and its window are not those of the signal it comes from.    *)
_variant_signal(r, family, id, effective, score, sources, snapshots) ==
    [id |-> id, family |-> family, effective |-> effective, available |-> effective,
     score |-> score, stance |-> _score_to_stance(score),
     sources |-> {t.id : t \in sources}, snapshots |-> snapshots,
     features |-> Max({0} \cup {f.available : f \in
                         {g \in r.features : \E t \in sources : g.id \in t.features}}),
     allowed |-> config.candidates,
     traceable |-> snapshots # {} /\ (family \in {"text_only", "combined"} => sources # {}),
     prov |-> Linked]

NaiveBaseline(p, r) == {_variant_signal(r, "naive", 0, CloseAt[1], 0, {}, {"prices"})}

TextOnlyCandidate(p, r) ==
    {_variant_signal(r, "text_only", t.id, t.effective, t.score, {t}, {"research"}) :
        t \in _text_signals_in_slice(r)}

(* Momentum over three bars, in units of 5 percent.                        *)
Momentum(p, b) == _clamp(((p.close[b] - p.close[b - 3]) * 2000) \div p.close[b - 3])
PriceOnlyMomentum(p, r) ==
    {_variant_signal(r, "price_only", b, CloseAt[b], Momentum(p, b), {}, {"prices"}) : b \in 4..NumBars}

\* Mutant: the blend takes the last signal of the slice.
TextUpToEnd(r, time) == _text_signals_in_slice(r)

TextUpTo(r, time) == {t \in _text_signals_in_slice(r) : t.effective <= time}
LatestText(r, time) ==
    CHOOSE t \in TextUpTo(r, time) : \A u \in TextUpTo(r, time) \ {t} :
        u.effective < t.effective \/ (u.effective = t.effective /\ u.id < t.id)

(* Half text, half momentum, on the bars that have both.                   *)
CombinedBaseline(p, r) ==
    {_variant_signal(r, "combined", b, CloseAt[b],
         _clamp((LatestText(r, CloseAt[b]).score + Momentum(p, b)) \div 2),
         {LatestText(r, CloseAt[b])}, {"research", "prices"}) :
        b \in {c \in 4..NumBars : TextUpTo(r, CloseAt[c]) # {}}}

materialize_variant_signals(family, p, r) ==
    CASE family = "naive" -> NaiveBaseline(p, r)
      [] family = "text_only" -> TextOnlyCandidate(p, r)
      [] family = "price_only" -> PriceOnlyMomentum(p, r)
      [] family = "combined" -> CombinedBaseline(p, r)

-----------------------------------------------------------------------------
(* The experiment registry.                                                *)

ExperimentArtifact(e, category, id) ==
    [id |-> <<e.id, category, id>>, experiment |-> e.id, category |-> category, of |-> id]
ExperimentMetrics(e, label, s) ==
    {[id |-> <<e.id, name, label>>, experiment |-> e.id, of |-> s.id, name |-> name,
      value |-> s[name]] : name \in {"gross", "net", "trades", "turnover"}}

RunningExperiment(id, datasets, of) ==
    [id |-> id, status |-> "running", datasets |-> {d.id : d \in datasets}, runs |-> of,
     artifacts |-> {}, metrics |-> {}, prov |-> Linked]

(* The gate speaks first; the experiment is filed after all it refers to.  *)
begin_experiment(e, datasets, manifests) ==
    LET gate == validate_experiment_metadata(e.id, [id |-> e.id, prov |-> Linked],
                                             InSomeOrder(datasets))
        spoken == <<Write("gates", {[id |-> e.id, decision |-> gate.decision]})>>
    IN  IF Refused(gate) THEN Plan(spoken, TRUE)
        ELSE Plan(spoken \o <<Write("experiment_configs", {[id |-> e.id]}),
                              Write("run_contexts", {[id |-> e.id]}),
                              Write("dataset_manifests", manifests),
                              Write("dataset_references", datasets),
                              Write("experiments", {e})>>, FALSE)

Completed(e, artifacts, metrics) ==
    [e EXCEPT !.status = "completed", !.artifacts = {a.id : a \in artifacts},
              !.metrics = {m.id : m \in metrics}]

\* Mutant: the experiment is completed before its metrics are on file.
finalize_experiment_first(e, artifacts, metrics) ==
    <<Write("experiment_artifacts", artifacts),
      Write("experiments", {Completed(e, artifacts, metrics)}),
      Write("experiment_metrics", metrics)>>

finalize_experiment(e, artifacts, metrics) ==
    <<Write("experiment_artifacts", artifacts), Write("experiment_metrics", metrics),
      Write("experiments", {Completed(e, artifacts, metrics)})>>

(* The scorecard of a completed experiment.                                *)
append_experiment_context(e) ==
    LET card == ExperimentArtifact(e, "scorecards", e.id)
    IN  <<Write("scorecards", {[id |-> e.id]}), Write("experiment_artifacts", {card}),
          Write("experiments", {[e EXCEPT !.artifacts = @ \cup {card.id}]})>>

Audit(what, target) == Write("audit", {[id |-> <<n, what, target>>]})

-----------------------------------------------------------------------------
(* The backtest of one family: run_backtest_workflow once the simulation   *)
(* has reported.                                                           *)

(* Identifiers of runs and experiments are drawn, the others derived; the  *)
(* number of the child in its run stands for a drawn one.                  *)
RunId(family) == <<n, Len(runs) + 1, family>>
DatasetNames == {"signals", "prices"}
_build_dataset_registry_records(family) ==
    {[id |-> <<family, name>>, snapshot |-> <<family, name>>, manifest |-> <<family, name>>,
      storage |-> <<family, name>>, prov |-> Linked] : name \in DatasetNames}

(* A signal was available and refused for a feature that was not yet.      *)
FeatureRejected ==
    \E s \in signals, b \in Bar :
        /\ Child!TimingSafe(s) /\ s.available + Buffer <= CloseAt[b] /\ s.traceable
        /\ ~Child!Eligible(s, CloseAt[b])

BacktestRun(family) ==
    [id |-> RunId(family), signalSnapshot |-> <<family, "signals">>,
     priceSnapshot |-> <<family, "prices">>, summary |-> RunId(family),
     experiment |-> IF config.record THEN RunId(family) ELSE None,
     cutoff |-> LastClose, leaks |-> FeatureRejected, prov |-> Linked]
PerformanceSummary(family) ==
    [id |-> RunId(family), prov |-> Linked, gross |-> summary.gross, net |-> summary.net,
     trades |-> summary.trades, turnover |-> summary.turnover]
Benchmarks(family) ==
    {[id |-> <<RunId(family), kind>>, prov |-> Linked] : kind \in {"flat", "buy_and_hold"}}

ChildExperiment(family) ==
    RunningExperiment(RunId(family), _build_dataset_registry_records(family), {RunId(family)})

_build_experiment_artifacts(family, e) ==
    {ExperimentArtifact(e, "runs", RunId(family)),
     ExperimentArtifact(e, "performance_summaries", RunId(family))}
    \cup {ExperimentArtifact(e, "snapshots", <<family, name>>) : name \in DatasetNames}
    \cup {ExperimentArtifact(e, "benchmarks", b.id) : b \in Benchmarks(family)}

InputWrites(family) ==
    <<Write("realism", {[id |-> RunId(family)]}), Write("configs", {[id |-> family]}),
      Write("snapshots", {[id |-> <<family, name>>] : name \in DatasetNames})>>
OutputWrites(family) ==
    <<Write("decisions", {[id |-> RunId(family)]}),
      Write("performance_summaries", {PerformanceSummary(family)}),
      Write("benchmarks", Benchmarks(family)), Write("runs", {BacktestRun(family)})>>

ChildMetrics(family) == ExperimentMetrics(ChildExperiment(family), family, PerformanceSummary(family))
ChildCompleted(family) ==
    Completed(ChildExperiment(family), _build_experiment_artifacts(family, ChildExperiment(family)),
              ChildMetrics(family))

run_backtest_workflow(family) ==
    LET e == ChildExperiment(family)
        datasets == _build_dataset_registry_records(family)
    IN  IF ~config.record
        THEN Plan(InputWrites(family) \o OutputWrites(family)
                  \o <<Audit("backtest_completed", family)>>, FALSE)
        ELSE InTurn(<<Plan(InputWrites(family), FALSE),
                      begin_experiment(e, datasets, {[id |-> d.manifest] : d \in datasets}),
                      Plan(OutputWrites(family)
                           \o finalize_experiment(e, _build_experiment_artifacts(family, e),
                                                  ChildMetrics(family))
                           \o <<Audit("backtest_completed", family),
                                Audit("experiment_completed", family)>>
                           \o append_experiment_context(ChildCompleted(family)), FALSE)>>)

VariantRun(family) ==
    [family |-> family, signals |-> signals, run |-> BacktestRun(family),
     summary |-> PerformanceSummary(family), benchmarks |-> Benchmarks(family),
     datasets |-> IF config.record THEN _build_dataset_registry_records(family) ELSE {},
     experiment |-> IF config.record THEN ChildCompleted(family) ELSE None]

-----------------------------------------------------------------------------
(* The comparison.                                                         *)

Row(v) ==
    [family |-> v.family, run |-> v.run.id, summary |-> v.summary.id,
     experiment |-> IF v.experiment = None THEN None ELSE v.experiment.id,
     gross |-> v.summary.gross, net |-> v.summary.net, trades |-> v.summary.trades,
     turnover |-> v.summary.turnover]

_comparison_metric_value(row) ==
    IF config.metric \in {"gross", "trades", "turnover"} THEN row[config.metric] ELSE row.net
Position(family) == CHOOSE i \in DOMAIN VariantOrder : VariantOrder[i] = family

\* Mutant: the smallest value comes first.
RankedBeforeAscending(a, b) ==
    \/ _comparison_metric_value(a) < _comparison_metric_value(b)
    \/ /\ _comparison_metric_value(a) = _comparison_metric_value(b)
       /\ Position(a.family) < Position(b.family)

(* The larger value first, then the smaller identifier.                    *)
RankedBefore(a, b) ==
    \/ _comparison_metric_value(a) > _comparison_metric_value(b)
    \/ /\ _comparison_metric_value(a) = _comparison_metric_value(b)
       /\ Position(a.family) < Position(b.family)

(* Each row in the place that has as many rows before it, those of the     *)
(* same rank in the order of the runs.                                     *)
Ahead(rows, i, j) == RankedBefore(rows[i], rows[j]) \/ (~RankedBefore(rows[j], rows[i]) /\ i < j)
RankOf(rows) == [j \in DOMAIN rows |-> Cardinality({i \in DOMAIN rows : Ahead(rows, i, j)})]
sort_variant_results(rows) ==
    [i \in DOMAIN rows |-> rows[CHOOSE j \in DOMAIN rows : RankOf(rows)[j] = i - 1]]

Rows == [i \in DOMAIN runs |-> Row(runs[i])]
AblationResult ==
    [id |-> "ablation_result", n |-> n, metric |-> config.metric, rows |-> sort_variant_results(Rows),
     prov |-> Linked]

(* The experiment over the experiments.                                    *)
Datasets == UNION {v.datasets : v \in ToSet(runs)}
ParentExperiment == RunningExperiment(<<n, 0, "ablation">>, Datasets, {v.run.id : v \in ToSet(runs)})
Definitions == {"slice", "config"} \cup ToSet(config.families)
build_parent_experiment_artifacts(e) ==
    {ExperimentArtifact(e, "definitions", d) : d \in Definitions}
    \cup {ExperimentArtifact(e, "source_snapshots", s) : s \in {"research", "prices"}}
    \cup {ExperimentArtifact(e, "ablation_results", "ablation_result")}
    \cup {ExperimentArtifact(e, "experiments", v.experiment.id) : v \in ToSet(runs)}
build_parent_experiment_metrics(e) ==
    UNION {ExperimentMetrics(e, v.family, v.summary) : v \in ToSet(runs)}
ParentCompleted ==
    Completed(ParentExperiment, build_parent_experiment_artifacts(ParentExperiment),
              build_parent_experiment_metrics(ParentExperiment))

Recorded == config.record /\ Datasets # {}
ParentPlan ==
    IF ~Recorded THEN Plan(<<>>, FALSE)
    ELSE InTurn(<<begin_experiment(ParentExperiment, Datasets, {}),
                  Plan(finalize_experiment(ParentExperiment,
                           build_parent_experiment_artifacts(ParentExperiment),
                           build_parent_experiment_metrics(ParentExperiment)), FALSE)>>)

-----------------------------------------------------------------------------
(* The evaluation (services/evaluation/service.py).                        *)

(* What is asked for its provenance, under the name of its type.           *)
Proven(type, items) == {[id |-> <<type, a.id>>, prov |-> a.prov] : a \in items}
ProvenOfRun(v) ==
    Proven("signals", v.signals) \cup Proven("runs", {v.run}) \cup Proven("summaries", {v.summary})
    \cup Proven("benchmarks", v.benchmarks) \cup Proven("datasets", v.datasets)
    \cup Proven("experiments", {v.experiment} \ {None})
provenance_artifacts ==
    Proven("config", {config}) \cup Proven("result", {AblationResult})
    \cup Proven("specs", build_strategy_specs)
    \cup Proven("snapshots", {ResearchSnapshot(research), PriceSnapshot})
    \cup Proven("texts", TextSignals(research)) \cup Proven("features", research.features)
    \cup UNION {ProvenOfRun(v) : v \in ToSet(runs)}

(* The checks in turn; each sees the artifacts in memory.                  *)
Evaluations ==
    LET texts == InSomeOrder(TextSignals(research))
        features == InSomeOrder(research.features)
        variants == InSomeOrder(UNION {v.signals : v \in ToSet(runs)})
    IN  <<evaluate_provenance_completeness("ablation_result", InSomeOrder(provenance_artifacts)),
          evaluate_feature_lineage_completeness(features),
          evaluate_signal_generation_validity(texts, features),
          evaluate_variant_signal_validity(variants, {t.id : t \in ToSet(texts)}, {"research", "prices"}),
          evaluate_backtest_artifact_completeness(runs, config.record),
          evaluate_strategy_comparison_output(config, AblationResult, runs)>>

RobustnessChecks ==
    {robustness_missing_data_sensitivity(runs),
     robustness_timestamp_anomaly(Slice, ResearchSnapshot(research), PriceSnapshot,
                                  TextSignals(research), runs),
     robustness_source_inconsistency(config.company, {research.company}),
     robustness_incomplete_extraction_artifact(TextSignals(research), research.features),
     robustness_invalid_strategy_config(config.families)}

_evaluate_ablation_bundle ==
    [extend(Evaluations) EXCEPT !.robustness = RobustnessChecks]

FailureIds(failures) == {[id |-> <<failures[i].kind, failures[i].target>>] : i \in DOMAIN failures}
EvaluationReport ==
    [id |-> "report", n |-> n, status |-> derive_overall_status(_evaluate_ablation_bundle)]

(* Metrics are filed in the order of the checks, the report last.          *)
evaluate_strategy_ablation ==
    [i \in DOMAIN Evaluations |-> Write("metrics", Evaluations[i].metrics)]
    \o <<Write("failure_cases", FailureIds(_evaluate_ablation_bundle.failures)),
         Write("robustness_checks", RobustnessChecks),
         Write("comparison_summaries", {[id |-> "summary", order |-> AblationResult.rows]}),
         Write("reports", {EvaluationReport})>>

derive_ablation_run_status(report, a) ==
    IF \/ report.status \in {"fail", "warn"}
       \/ \E i \in DOMAIN a.failures : a.failures[i].blocking
       \/ \E c \in a.robustness : c.status \in {"warn", "fail"}
    THEN "attention_required" ELSE "succeeded"

-----------------------------------------------------------------------------
(* The workflow.                                                           *)

Categories ==
    {"definitions", "source_snapshots", "variant_signals", "realism", "configs", "snapshots",
     "gates", "experiment_configs", "run_contexts", "dataset_manifests", "dataset_references",
     "experiments", "decisions", "performance_summaries", "benchmarks", "runs",
     "experiment_artifacts", "experiment_metrics", "audit", "scorecards", "ablation_results",
     "metrics", "failure_cases", "robustness_checks", "comparison_summaries", "reports",
     "events", "run_summaries"}

(* A file with the identifier of an earlier one takes its place.           *)
Put(write) ==
    [files EXCEPT ![write.category] =
        {a \in @ : \A b \in write.items : a.id # b.id} \cup write.items]

Event(type) == Write("events", {[id |-> <<n, type>>]})
RunSummary(status) == Write("run_summaries", {[id |-> n, status |-> status]})
Quiet == Plan(<<>>, FALSE)

Init ==
    /\ scenario \in Scenarios
    /\ Child!Init
    /\ n = 0 /\ runs = <<>> /\ pc = "idle" /\ work = Quiet /\ faults = 0
    /\ files = [c \in Categories |-> {}]

(* The simulation of a child starts from its signals and nothing else.     *)
StartSimulation(given) ==
    /\ signals' = given /\ lag' = 1 /\ bar' = 1 /\ phase' = "open"
    /\ open' = [b \in Bar |-> None] /\ close' = [b \in Bar |-> None]
    /\ units' = 0 /\ cash' = StartingCash /\ costs' = 0 /\ turnover' = 0 /\ trades' = 0
    /\ pending' = [b \in Bar |-> None] /\ decision' = [b \in Bar |-> None]
    /\ fill' = [b \in Bar |-> None] /\ held' = [b \in Bar |-> None] /\ summary' = None
NoSimulation == StartSimulation({})

Start ==
    /\ pc = "idle" /\ n < Len(scenario.researches)
    /\ n' = n + 1
    /\ pc' = "starting"
    /\ work' = Plan(<<Write("events", {[id |-> <<n + 1, "run_started">>]})>>, FALSE)
    /\ UNCHANGED <<simulation, scenario, files, runs, faults>>

WriteNext ==
    /\ work.writes # <<>>
    /\ files' = Put(Head(work.writes))
    /\ work' = [work EXCEPT !.writes = Tail(@)]
    /\ UNCHANGED <<simulation, scenario, n, runs, pc, faults>>

(* What the run has to write is written.                                   *)
At(place) == pc = place /\ work = Quiet
Proceed(place, plan) ==
    /\ pc' = place /\ work' = plan
    /\ UNCHANGED <<scenario, n, files, faults>>

LoadInputs ==
    /\ At("starting") /\ Loadable(research)
    /\ Proceed("comparing", Plan(
         <<Write("definitions", {[id |-> d] : d \in Definitions}),
           Write("source_snapshots", {ResearchSnapshot(research), PriceSnapshot})>>, FALSE))
    /\ UNCHANGED <<simulation, runs>>
FamilyOfChild == config.families[Len(runs) + 1]
MaterializeSignals ==
    /\ At("comparing") /\ Len(runs) < Len(config.families)
    /\ \E given \in {materialize_variant_signals(FamilyOfChild, scenario.prices, research)} :
         /\ StartSimulation(given)
         /\ Proceed("simulating", Plan(
              <<Write("variant_signals", {[id |-> <<FamilyOfChild, s.id>>] : s \in given})>>, FALSE))
    /\ UNCHANGED runs

Simulate ==
    /\ At("simulating")
    /\ \/ Child!Fill(scenario.prices.open[bar])
       \/ Child!OpenWithoutFill(scenario.prices.open[bar])
       \/ Child!Decide(scenario.prices.close[bar])
       \/ Child!Report
       \/ Child!Raise
    /\ UNCHANGED <<scenario, n, files, runs, pc, work, faults>>
RecordChild ==
    /\ At("simulating") /\ phase = "done"
    /\ Proceed("comparing", run_backtest_workflow(FamilyOfChild))
    /\ runs' = Append(runs, VariantRun(FamilyOfChild))
    /\ NoSimulation

Compare ==
    /\ At("comparing") /\ Len(runs) = Len(config.families)
    /\ Proceed("concluding", InTurn(
         <<Plan(<<Write("ablation_results", {AblationResult})>>, FALSE), ParentPlan,
           Plan(evaluate_strategy_ablation
                \o (IF Recorded THEN append_experiment_context(ParentCompleted) ELSE <<>>)
                \o <<Audit("ablation_completed", "ablation"),
                     Audit("evaluation_completed", "report")>>
                \o (IF Recorded THEN <<Audit("experiment_completed", "ablation")>> ELSE <<>>),
                FALSE)>>))
    /\ UNCHANGED <<simulation, runs>>

Conclude ==
    LET status == derive_ablation_run_status(EvaluationReport, _evaluate_ablation_bundle) IN
    /\ At("concluding")
    /\ Proceed("reporting", Plan(
         <<Event("run_completed")>>
         \o Only(status = "attention_required", Event("attention_required"))
         \o <<RunSummary(status)>>, FALSE))
    /\ runs' = <<>> /\ UNCHANGED simulation

Return ==
    /\ At("reporting") \/ At("failing")
    /\ Proceed("idle", Quiet)
    /\ UNCHANGED <<simulation, runs>>

(* What makes the workflow raise: inputs that do not fit, a simulation     *)
(* without a usable signal, or a gate that refuses.                        *)
Exception ==
    /\ work.writes = <<>>
    /\ \/ work.raises
       \/ pc = "starting" /\ ~Loadable(research)
       \/ pc = "simulating" /\ phase = "raised"

(* The handler of the workflow; the exception goes on to the caller.       *)
HandlerWrites == Plan(<<Event("run_failed"), RunSummary("failed")>>, FALSE)
Handle == pc' = "failing" /\ work' = HandlerWrites

WorkflowRaises ==
    /\ Exception /\ Handle
    /\ runs' = <<>> /\ NoSimulation
    /\ UNCHANGED <<scenario, n, files, faults>>

(* The first and the last writes are outside of the handler.               *)
Guarded == {"comparing", "simulating", "concluding"}
WriteRaises ==
    /\ work.writes # <<>> /\ faults < MaxFaults
    /\ IF pc \in Guarded THEN Handle ELSE pc' = "idle" /\ work' = Quiet
    /\ faults' = faults + 1
    /\ runs' = <<>> /\ NoSimulation
    /\ UNCHANGED <<scenario, n, files>>
Die ==
    /\ pc # "idle" /\ faults < MaxFaults
    /\ pc' = "idle" /\ work' = Quiet /\ runs' = <<>> /\ NoSimulation
    /\ faults' = faults + 1
    /\ UNCHANGED <<scenario, n, files>>

Next ==
    \/ Start \/ WriteNext \/ LoadInputs \/ MaterializeSignals \/ Simulate \/ RecordChild
    \/ Compare \/ Conclude \/ Return \/ WorkflowRaises \/ WriteRaises \/ Die

Spec == Init /\ [][Next]_vars

-----------------------------------------------------------------------------
(* Properties.                                                             *)

Ids(category) == {a.id : a \in files[category]}
ById(category, id) == {a \in files[category] : a.id = id}
ArtifactsOf(e) == {a \in files.experiment_artifacts : a.experiment = e.id}
MetricsOf(e) == {m \in files.experiment_metrics : m.experiment = e.id}

(* Whichever write was the last before a crash, a failing child or a later *)
(* run over the same identifiers, an experiment that says it is completed  *)
(* has on file every artifact, metric and dataset it lists; the artifacts  *)
(* lead to files, the datasets to snapshots and manifests, the metrics say *)
(* what the summaries say, and an experiment over experiments lists        *)
(* completed ones only (finalize_experiment writes the experiment last).   *)
CompletedExperimentsAreWhole ==
    \A e \in files.experiments : e.status = "completed" =>
        /\ e.artifacts \subseteq Ids("experiment_artifacts") /\ e.metrics \subseteq Ids("experiment_metrics")
        /\ e.datasets \subseteq Ids("dataset_references") /\ e.runs \subseteq Ids("runs")
        /\ \A a \in ArtifactsOf(e) : a.of \in Ids(a.category)
        /\ \A d \in files.dataset_references : d.id \in e.datasets =>
             d.snapshot \in Ids("snapshots") /\ d.manifest \in Ids("dataset_manifests")
        /\ \A m \in MetricsOf(e) : \E s \in ById("performance_summaries", m.of) : s[m.name] = m.value
        /\ \A a \in ArtifactsOf(e) : a.category = "experiments" =>
             \A x \in ById("experiments", a.of) : x.status = "completed"

(* Prices that agree up to a bar, and research that agrees on the signals  *)
(* effective by its close, give the same variant signals up to then, and a *)
(* decision rests only on such a signal: what any of the strategies does   *)
(* at a bar cannot depend on anything later.                               *)
EffectiveBy(set, time) == {s \in set : s.effective <= time}
AgreeUpTo(b, other, r) ==
    /\ \A c \in 1..b : other.prices.close[c] = scenario.prices.close[c]
    /\ EffectiveBy(r.signals, CloseAt[b]) = EffectiveBy(research.signals, CloseAt[b])
    /\ r.features = research.features
NoVariantReadsAhead ==
    pc = "simulating" =>
        \A b \in Bar : decision[b] # None =>
            /\ decision[b].signal # None =>
                 decision[b].signal.effective <= CloseAt[b] /\ decision[b].signal.features <= CloseAt[b]
            /\ \A other \in Scenarios : \A r \in ToSet(other.researches) :
                 AgreeUpTo(b, other, r) =>
                   EffectiveBy(signals, CloseAt[b]) =
                   EffectiveBy(materialize_variant_signals(FamilyOfChild, other.prices, r), CloseAt[b])

(* The result on file ranks every family once, by the metric asked for,    *)
(* all from one run, with the numbers of the summaries on file, and        *)
(* holding cash earned nothing.  A run that ended well has the result and  *)
(* the report of that run or a later one on file.  No report is better     *)
(* than "fail", because nothing can be traced from the specifications and  *)
(* the prices, and so every run that ends well calls for attention, in its *)
(* summary and as an event.                                                *)
RankedRows(c) ==
    /\ \A i, j \in DOMAIN c.rows : i < j =>
         _comparison_metric_value(c.rows[i]) >= _comparison_metric_value(c.rows[j])
    /\ IsInjective([i \in DOMAIN c.rows |-> c.rows[i].family])
    /\ {r.family : r \in ToSet(c.rows)} = ToSet(config.families)
RowHolds(c, r) ==
    /\ r.run[1] = c.n /\ r.run[3] = r.family /\ r.run \in Ids("runs")
    /\ \E s \in ById("performance_summaries", r.summary) :
         s.net = r.net /\ s.gross = r.gross /\ s.trades = r.trades /\ s.turnover = r.turnover
    /\ r.family = "naive" => r.net = 0 /\ r.trades = 0
EndedWell == {s \in files.run_summaries : s.status # "failed"}
ComparisonIsHonest ==
    /\ \A c \in files.ablation_results : RankedRows(c) /\ \A r \in ToSet(c.rows) : RowHolds(c, r)
    /\ \A p \in files.reports : p.status = "fail"
    /\ \A s \in EndedWell :
         /\ \E c \in files.ablation_results : c.n >= s.id
         /\ \E p \in files.reports : p.n >= s.id
         /\ s.status = "attention_required" /\ <<s.id, "attention_required">> \in Ids("events")
=============================================================================
