# A TLA+ model of the AI-native research and paper-trading stack

The program is a local research operating system: documents are ingested and
parsed, research, features and signals are derived from them, a backtest and a
portfolio proposal are built on the signals, an operator reviews what the
pipelines leave, and approved paper trades are tracked in a ledger. There is no
database and no lock anywhere. Every artifact is one JSON file whose name is its
identifier; a service loads whole directories, decides in memory, and writes
files one after the other.

This directory holds TLA+ modules for the parts where that shape makes
correctness hard, TLC configurations that check them on small instances, and
proofs checked by TLAPS for what can be said of every instance. PROJECT.json
lists the components, the runs, the source lines behind every definition, the
hazards that the properties are aimed at, and the proved theorems.

Paths below are relative to `src/`.

## What an artifact file is

Everything rests on three facts of `libraries/core/local_artifacts.py` and
`libraries/utils`, which the modules use without modelling them separately:

* `persist_local_model` replaces the file of one identifier as a whole. The
  models take one such write as atomic. (It is a plain `write_text`, so a
  process that dies inside it leaves a truncated file; nothing loads after
  that, and there is nothing to check.)
* `make_canonical_id` is a function of what it is given, so a second artifact
  with the same parts replaces the first; `make_prefixed_id` is a fresh uuid.
  Files are therefore functions from identifiers to an artifact or `None`, or
  sets of artifacts in which a write replaces the one with the same identifier.
* `load_local_models` validates every file of a directory, in the order of file
  names, and raises at the first that its schema rejects. An update made with
  `model_copy(update=...)` is *not* validated, so a service can write a file
  that no service can read again.

## Inventory

### Modelled

| component | state it keeps | operations | what is hard | what makes it correct |
|---|---|---|---|---|
| `paper_ledger` | trades, positions, ledger entries, lifecycle events, outcomes, attributions, followups | admit an approved trade, record a lifecycle event, record an outcome | five kinds of files per operation and a death between any two; identifiers that collide; unvalidated updates; reviews of a trade that is already tracked | a position moves forward once and stays ended; no file refers to one that was never written; outcomes tell how the position ended; PnL is never made up |
| `operator_review` | queue items, notes, assignments, decisions; the status of every reviewable target | sync, note, assign, action (approve, reject, needs revision, escalate) | API routes run in a thread pool, every request loads twice and writes up to seven files; deaths | a status is backed by a decision; nothing blocked is approved; a trade needs an approved parent and is admitted once; the queue shows what is on file |
| `daily_orchestration`, with `monitoring` | execution, step, event, alert and summary files; the loop's local variables | one run of a workflow definition | executors that fail, writes that fail inside the same try as the executor, retries, three failure actions, attention that does not stop, deaths | steps start in order, the verdict is what the steps explain, outputs are linked, monitoring never contradicts the verdict, a run concludes |
| `ingestion`, `parsing`, `research_orchestrator`, `feature_store`, `signal_generation` (their files) | raw records, documents, segments, evidence, hypotheses, assessments, critiques, briefs, features, signals and scores, gates, the outcome of each workflow | steps 1 to 4 of the daily workflow | dozens of writes under identifiers of earlier days, refusals in the middle of a batch, briefs rewritten while an operator reviews them | a signal leads back to segments of documents that are on file; a step that succeeded vouches for what the next one reads |
| `data_quality`, with the checks of `evaluation` | one gate file per gate and target | the gate of every workflow: pass, warn, refuse, quarantine | the gates share checks with the evaluation of experiments; each workflow reacts to a refusal in its own way | no refused document survives a successful extraction; a refused input leaves no proposal |
| `portfolio`, `signal_arbitration`, `risk_engine`, `portfolio_analysis`, `backtest_reconciliation`, `paper_execution`, the portfolio pipeline | signals, arbitration bundles, proposals, decisions, trades, backtests, the run's own memory | one run of the review pipeline; arbitration; the operator's verdict | canonical identifiers that a rerun reuses, verdicts between and during runs, cutoffs, ties, limits that cap or reject, a reconciliation that raises | an approval is about the content that was reviewed; trades stem from approved positions; no side of a tie; the run's conclusion is borne out by the files |
| `backtesting` (simulation) | cash, units, pending fills, decision and fill log | one loop over daily bars | decisions at the close, fills at a later open, signals that become available out of order, a terminal bar with nothing to fill on | each decision is executed once, at the right bar; the account reconciles with its log; decisions never fall back to older signals |
| `backtesting` (workflow and strategy comparison), `experiment_registry`, `evaluation` | experiments with their artifacts, metrics and datasets; snapshots, manifests, runs, summaries, the ablation result, evaluation report | one ablation: a parent experiment, one child per strategy, a ranking, an evaluation | snapshots and the result have canonical identifiers that the next run overwrites; children that raise; writes that fail | completed experiments are whole; no strategy reads ahead; the ranking is that of the summaries on file |
| `timing`, and what ingestion to signals make of availability | documents, research, features, signals, each with the time it may be used from | ingest, research, map features, generate a signal, each optionally as of a past time | sessions, closed days, fallbacks when an input has no window, cutoffs, reruns that overwrite | no decision knows a document published after its session opened |

### Interactions

* The daily workflow calls the pipelines in order: ingestion, evidence,
  research, features and signals, portfolio, red team, paper-trade
  candidates, summary. The results stay in memory between steps;
  what a step leaves for the operator is in files.
* `operator_review` reads the files of research, signals, proposals and trades
  and rewrites them with their new status; approving a trade calls
  `PaperLedgerService.admit_approved_trade` in the same request.
* `paper_ledger` is called by review (admission) and by the operator (events,
  outcomes). It rewrites the trade, which the review rewrites as well.
* The portfolio pipeline reads signals, arbitration bundles and backtests, and may
  apply a verdict and propose trades itself.
* Signals reach a backtest through files; their availability window decides
  from which bar on they are seen.
* Gates are called inside every workflow; `audit` and `monitoring` are called
  by nearly every operation and only append.

### Not modelled

| component | why |
|---|---|
| `entity_resolution` | exact-key matching of names, tickers and identifiers, evaluated once per document at `services/ingestion/service.py:218` and `services/parsing/service.py:242`. Its result, the company of a document, is an input of `DocumentEvidence`. The matching itself keeps no state that another operation could meet |
| `red_team` | runs adversarial fixtures through the guardrails on cloned artifacts; a test harness of the system |
| `reporting`, `memo` | layout and wording over stored artifacts. The scorecard of an experiment is a file without content in `StrategyAblation` |
| `research_memory` | read-only token search |
| `generate_daily_paper_summary` of the ledger | one aggregation of the files the three operations leave; it changes none of them |
| executors of the last four daily steps | the portfolio pipeline is a module of its own; in the daily workflow these steps are what their executors return or raise |
| text | which sentences are claims, guidance, risks or tone is an input of `DocumentEvidence`: a paragraph is the set of cue words it contains |
| `demo`, `agents`, the routes of `apps`, most of `libraries/schemas`, `config`, `logging` | scripts, descriptors, data definitions; seen only through the services that use them |

## The modules

### PositionLifecycle, PaperLedger

`PositionLifecycle` is the abstract promise of `docs/risk/paper_ledger_and_outcomes.md`:
a trade has at most one position, which goes from `approved_pending_fill` to
`open` to one of the two terminal states and never back.

`PaperLedger` is `services/paper_ledger/service.py` over its seven directories,
one variable each. `ApproveAndAdmit`, `RecordLifecycleEvent` and
`RecordTradeOutcome` are the three operations that change files. Each is one
action that loads (`Loads`, false as soon as one file is invalid), checks the
code's conditions, and writes the first `n` of its files (`Persist`, in the order
of `_persist_trade_and_ledger_artifacts`): `n` below the last is a process that
died, so that every prefix of the writes is a step. Operators
use the ledger one call after the other; the calls are interleaved only with
reviews of the trade (`ReviewTrade`), which keep writing the trade file after it
was admitted. A lifecycle event is known by trade, type and time, like its
file: a second one with the same three replaces the first.

The property `ImplementsLifecycle` says that `PaperLedger`, with its files and its
deaths, implements `PositionLifecycle` under the mapping that reads the state of
the position file.

### OperatorReview

`services/operator_review/service.py`. A request is a process: `LoadForSync`,
one `WriteSyncedItem` per changed queue item, the second `Load` with its
validation, and then one action per file in the code's order. What a request
knows is the snapshot `seen` of its second load, and all it writes comes from
there. `MaxOpen` requests are served at a time: 1 is a single operator on the
command line, 2 the API's thread pool. `Die` ends all requests that are being
served. `AdmitTrade` stands for the ledger's admission, whose own writes
are the subject of `PaperLedger`. A target keeps its status, the decisions it
lists, whether it carries reasons not to approve it, and whether it was admitted. Only
proposals and trades list decisions (`Lists`): a review of a brief or a signal changes its status
and nothing else, and the decision file and the queue item alone say who decided.

### DailyWorkflow

`services/daily_orchestration/service.py`, `run_daily_workflow`, one action per
statement that writes a file or calls an executor, so that the process may die
(`Die`) or a write inside the loop's `try` may raise (`WriteRaises`) between any
two. The local variables of the Python function are variables of the
module under the names they have there (`settled` is `outcome is not None`, `raised`
is `step_error is not None`, `verdict` is `workflow_status`). The workflow definition
is a parameter; `MCDailyWorkflow` gives it the eight steps, retry policies and
failure actions of `definitions.py`. An executor is what it returns or raises.
Outputs are abstracted to the step they come from.

### QualityGates, EvaluationChecks, DocumentEvidence, ResearchSlice, DailyResearch

The research chain that steps 1 to 4 execute. `shelf` is every directory of it: a
record from category to a set of artifacts. A workflow is deterministic in
what it finds on file, so it is an operator that returns a *plan*: the
writes it will make, in order, and whether it ends by raising (`Write`, `Plan`,
and `InTurn`, which runs a workflow item by item and stops at the first that raises,
each in `QualityGates`).

* `DocumentEvidence`: `run_fixture_ingestion_pipeline` and
  `run_evidence_extraction_pipeline`, document by document, with their gates; a
  quarantined bundle is filed as a gate and raises.
* `ResearchSlice`: the hypothesis, the grade of its evidence, critiques and brief;
  the features and the scores of a signal with its stance.
* `EvaluationChecks`: the checks of `services/evaluation/checks.py` that the gates and the
  evaluation of an ablation share; `QualityGates`: the violations, decision and
  refusal of each gate of `services/data_quality/service.py`.
* `DailyResearch` extends `DailyWorkflow` and gives `ExecutorReturns` and
  `ExecutorRaises` their insides. `StartWork` makes the plan from the files as they are,
  `WriteNext` makes one write, `WorkWriteRaises` lets one fail (the handler of the
  workflow then files the failure), `OperatorRejects` rejects a brief at any moment.
  One write puts all artifacts of one category that the code persists in one loop.

### SignalArbitration, PortfolioConstruction, PortfolioRisk, Reconciliation, PortfolioReview

The first four are the algorithms as operators: candidates, calibration, conflicts and
ranking of `services/signal_arbitration`; selection, sizing under constraints and
exposures of `services/portfolio/construction.py`; the rules of
`services/risk_engine` with what they read of `portfolio_analysis`; the comparison with a
backtest of `services/backtest_reconciliation`.

`PortfolioReview` is `run_portfolio_review_pipeline`, one action per write or call that
may end the run: `Begin`, `Load` or `NothingToLoad`, `GateRefuses` or
`GatePasses`, `WriteDraft`, `ReviewInRun` (`SkipReview`, `ReviewRaises`),
`ProposeTrades`, `Reconcile` (`SkipReconciliation` is the `ValueError` that the
pipeline notes and passes over), `WriteScorecard`, `Conclude`, and `Die`. Around it
`Arbitrate` and `FileSignal` change what the next load finds, and `OperatorReviews` gives
a verdict on whatever proposal is on file, during a run too. Files are keyed
as the code's canonical identifiers are: a proposal by its as-of day, a
trade by its proposal and signal. The proposal of a run stays in its memory
(`run.proposal`) from load to conclusion, as in the code, and is written from there.
`decisions` and `batch` are the history the properties speak of: what an approval was
given to, and which run a trade comes from.

### BacktestSimulation, StrategyAblation

`BacktestSimulation` is `services/backtesting/simulation.py`, `run_backtest_simulation`:
`Fill` or `OpenWithoutFill` is the open of a bar, `Decide` its close with eligibility,
selection, the skip rule and the mark, `Report` and `Raise` the end. Bars are chosen
as the loop reaches them. The events and decisions that the code appends to
lists are functions of the bar. Money is counted in basis points of the price unit, so
that costs are whole numbers; the code uses floats, whose rounding is not modelled.

`StrategyAblation` is `run_strategy_ablation_workflow` around it: definitions and source
snapshots, then for each of the configured families (holding cash, momentum of prices,
the research signals, both combined) its variant signals and a child that runs
`BacktestSimulation` on them (`INSTANCE ... WITH`) and files its experiment,
then the ranking, the experiment over the children's experiments with its gate, the
evaluation with its robustness checks, and the conclusion. The evaluation asks everything it is
given for its provenance (`provenance_artifacts`), the specifications of the strategies and the source
snapshots included; the specifications and the snapshot of the prices are linked to nothing, so that
no report is better than a fail. Every write is a step: it
may fail, which leads to the handler only inside the code's `try`, and the process may
die before it. Two runs follow each other over the same configuration, so
that the second overwrites the snapshots, the result and the report of the first.

### PointInTime, ResearchToBacktest

`PointInTime` has the market calendar and the availability rules of
`services/timing`, and the pipelines that hand availability on. A day
is seven instants, from which every branch of the calendar (pre-market,
session, after-hours, night, closed day) can be reached. An artifact carries the set of
documents its numbers were computed from (`content`), which the code does not
have: it is how the properties know what a decision was influenced by.
Whether a fallback or a cutoff was involved anywhere on the way is recorded
beside it.

`ResearchToBacktest` composes the two: the pipelines run for a while, then a
backtest with one bar per session runs on the signals that are on file
(`INSTANCE BacktestSimulation WITH signals <- given, ...`).

## The runs

| run | module | distinct states | what it shows |
|---|---|---|---|
| `ledger` | PaperLedger, no deaths | 83,804 | the files tell one consistent story: history, trade status and references agree with the position (`FilesAgree`) |
| `ledger_crash` | PaperLedger, any prefix of the writes | 246,244 | what survives a death: no orphans, outcomes and PnL stay right, ended positions stay, and the abstract lifecycle is implemented |
| `ledger_unpriced_fill` | PaperLedger | stops | **violation**: a fill that supplies the missing quantity leaves a position without an entry price, which its schema rejects |
| `daily` | MCDailyResearch | 236,784 | the order of steps, the verdict, the links, monitoring and the attempts, over the files the executors write; signals lead back to documents, a step that succeeded vouches for its outputs, and the run concludes |
| `review` | MCOperatorReview, one request at a time, one death | 2,281,984 | the queue, its assignments and summaries agree with the files, parents of trades and single admission, when requests follow each other and one of them may die |
| `review_concurrent` | MCOperatorReview, two at a time, deaths | 3,365,556 | what no interleaving and no death breaks: statuses are backed by decisions, nothing blocked is approved, positions rest on approvals |
| `review_race` | MCOperatorReview, two at a time | stops | **violation**: a trade is approved although its proposal was rejected meanwhile |
| `portfolio_review` | MCPortfolioReview | 2,550,833 | two runs of the pipeline, approved and reconciled or not, with verdicts between and during them: what is selected, what an approval still stands for, which trades exist, what the runs conclude |
| `backtest` | MCBacktestSimulation | 392,704 | execution, accounts, benchmark, position and selection over all price paths |
| `ablation` | MCStrategyAblation | 79,426 | two ablations with refusals, a failing write or a death: experiments on file are whole, no strategy reads ahead, the ranking is that of the summaries, and who ends well calls for attention |
| `point_in_time` | MCResearchToBacktest | 851,165 | cutoffs are honoured and decisions do not look ahead, except through a recorded fallback or a replay |
| `point_in_time_replay` | MCResearchToBacktest | stops | **violation**: a replay looks ahead without recording a fallback |

### The properties

Every run that lists `TypeOK` checks the type invariant of its module. Besides:

| module | properties |
|---|---|
| PaperLedger | `FilesAgree`: history, trade status and references agree with the position. `NoOrphans`, `OutcomesDescribeTheEnd`, `NoInventedPnl`, `TerminalIsFinal`, `ImplementsLifecycle`: what survives any death |
| DailyWorkflow | `StepsStartInOrder`; `VerdictExplained`: the verdict is the one the steps' files explain; `AttentionCarriesARequirement`; `OutputsAreLinked`; `MonitoringAgrees`: events, alerts and summary never contradict the files; `FailsOnlyAfterItsAttempts`; `RunConcludes` |
| DailyResearch | `SignalsTraceToEvidence`: from each signal there is a way back to segments of documents on file, and its stance is one they support. `StepsVouchForTheirOutputs`: after a step succeeded, what the next one reads is on file and passed its gate, and the research and the signals are those of the company the run settled on |
| OperatorReview | `QueueAgreesWithFiles`, `TradeApprovalsHaveParents`, `AdmittedOnce` for requests in sequence, of which some may die: what an item, its assignment and a summary say is what the files say, except for what a dead request left until the next sync; `DecisionsBackStatuses`, `ApprovedIsNeverBlocked`, `PositionsWereApproved` for any interleaving |
| PortfolioReview | `SelectionIsDefensible`: what is selected was eligible, of the right day and no side of a tie. `ApprovalCoversContent`: an approved proposal has the content that was approved. `TradesComeFromApprovals`. `ConclusionsAreBorneOut`: a run's conclusion agrees with what is on file |
| BacktestSimulation | `DecisionsAreExecutedOnce`, `ReportIsRight`, `PositionFollowsDecisions`, `DecisionsMoveForward` |
| StrategyAblation | `CompletedExperimentsAreWhole`: what an experiment that completed refers to is on file. `NoVariantReadsAhead`. `ComparisonIsHonest`: the ranking is that of the summaries on file, no report is better than a fail, and a run that ended well has its result and its report and calls for attention |
| PointInTime, ResearchToBacktest | `CutoffsAreHonoured`, `NoLookAhead` |

The three runs that stop check what a document or a schema says and the code does not
do: `QuantityHasEntryPrice`, `TradeApprovalsHaveParents` with two requests at a time, and
`OnlyFallbacksLookAhead`.

### Bounds, and why they are enough

* **Ledger.** One trade: operations on different trades touch different files and meet
  only in `Loads`, which one trade exercises as well (its own invalid file blocks
  it). Two times let events collide, precede each other and precede the
  submission; two prices give a gain, a loss and none; three events after the
  admission reach fill, mark, end with repetition. The crash run drops to one
  time and two events, because each event comes with five prefixes of writes.
  The proofs remove these bounds.
* **Daily workflow.** The whole definition, with every retry and failure action it
  has; one run is finite without a bound. The seventh step may return either
  status, because the registry of the repository's tests replaces its executor. Ten
  batches of fixtures, each a way in which the chain goes on or stops: strong
  and moderate support, one document alone, a bundle without speakers (quarantined),
  a document of no company, a news item without a body (its text is not taken), prices without text, two companies at once, no batch and an empty one. They meet
  an empty shelf or one that an earlier day left, of the same company or of another, so
  that revised documents and reused identifiers occur, and steps that cannot tell which
  company they are for. One rejection, any number of failing writes, one death.
* **Review.** One proposal with one trade, and one brief or signal for the
  transitions that differ by type. Three requests in sequence are the fewest that
  assign, reassign and decide, or approve, send back and approve again; one of them
  may die after any of its writes, and another repeats it or repairs what it left. With
  concurrency two requests are enough for each of them to fall between any two
  steps of the other; a third is only needed by the race run, which first
  has to approve the proposal.
* **Portfolio review.** Eight sets of one to three signals, each an interesting case of the
  ranking (a tie of opposites, a mixed or withheld primary, duplicate support, a
  future or expired signal, missing lineage), one signal that arrives late. Two
  runs, on following days or as of the same day, five requests that differ in cutoff,
  verdict, limits and prices, one review in between, one backtest to reconcile with. A request for
  the present day that is approved is reconciled, and then always calls for attention; one as of
  a past day that is approved skips its reconciliation and can succeed, with trades, after a first run
  of the same day that left other trades or none.
  Two runs are the fewest in which a rerun replaces what was approved; a third
  would replace the replacement.
* **Backtest.** Four bars leave room for a decision, its fill with a lag of one or two,
  a second change and a skipped terminal change. Two signals with every relation of
  availability, effective time, score, stance and eligibility.
* **Ablation.** Five bars: momentum looks back three, which leaves two with a signal. Five
  scenarios of prices, research and configuration, each with other research for the
  second run; one fault (a failing write or a death) at any place. Scores are
  chosen so that the blend of text and momentum divides without rest.
* **Point in time.** Four days, one without a session; a document before the first open, one
  within a session, one without a date; runs of the pipelines in the evening and
  in two sessions; no cutoff or an early one.

`CHECK_DEADLOCK FALSE` is set where the modelled call ends, a file can no longer
be loaded, or a bound is reached: the program then has nothing to do.

### Fairness

Only `RunConcludes` is a liveness property. Its specification `FairChainSpec` asks weak
fairness of `ChainAdvance`, the next statement of the run or of the executor in it. The
workflow is one synchronous call with bounded loops that waits for nobody, so the process goes
on as long as it lives; the death and the operator's rejections are not fair, and the
property allows for the death. Nothing is asked of executors except that they return or raise.
There is no fairness in the other modules: operators need not act.

## Proofs

Eight modules hold theorems, each about the specification of the component
for every value of its constants, from the assumptions named in the component's
module (`ConstantsAssumption`, `WorkflowAssumption`, `BacktestAssumption`,
`ReviewAssumption`, `PipelineAssumption`, `CalendarAssumption`, `AblationAssumption`,
`VariantAssumption`, `TypesAreDisjoint` and the `NoneAssumption`s; TLC evaluates them in
every run of the module). They ask what the schemas ask: that prices are positive,
bars close in order, identifiers name one thing, money and prices are counted, a
comparison has one variant of a family, and `None` is none of the values it is told from. Every inductive invariant was checked by TLC on the run of its module
before it was proved.

**PaperLedgerProofs.** The inductive invariant is
`TypeOK /\ NoOrphans /\ OutcomesDescribeTheEnd /\ NoInventedPnl`. `NoOrphans` is needed
because admission only looks at the trade file: only if every position has a trade
that says it was admitted can an admission not start a position
over, which is what `TerminalIsFinal` and the refinement rest on.
`OutcomesDescribeTheEnd` needs that an ended position takes no event, and
`NoInventedPnl` that the entry price never changes. Proved: `TypeCorrect`,
`NeverOrphans`, `OutcomesAreFinal`, `PnlIsNeverInvented`, `EndedPositionsStay` (an action
property) and `Refinement` (`Spec => Lifecycle!Spec`, every operation maps to an
abstract step or a stutter). The proofs include deaths after every write.

`FilesAgree` is what a death breaks, and `WholeOperationsAgree` proves it from the
hypothesis `AllowCrash = FALSE`, as in the run `ledger`. Its invariant `Agreement` says of each
trade that its events explain its position (`Explained`), that its status is that of the
position (`Standing`) and that its references lead to files (`Resolving`). It needs
`EventsInv`: the state an event leads to is a function of its type (`LeadsTo`), so that an event
of the same type and time, which replaces the first one's file, still explains the position that
the first one led to.

**DailyWorkflowProofs.** The inductive invariant is `TypeOK /\ FilesInv /\ PhaseInv`.
`FilesInv` says what the file of each step is, relative to the step the loop is at
(those behind it ended without failure and are linked, those ahead are
queued); `PhaseInv` relates the local variables, the verdict and the monitoring
files to the statement that comes next. The properties are not inductive:
`VerdictExplained`, for example, speaks only of a concluded run, and holds
because in every earlier phase the verdict variable says what the last step did.
Proved: `TypeCorrect`, `StepsAlwaysStartInOrder`, `VerdictsAreExplained`,
`AttentionIsExplained`, `OutputsAreAlwaysLinked`, `MonitoringAlwaysAgrees`,
`AttemptsAreBounded`.

**DailyResearchProofs.** The composition of the workflow with the files of its first
four steps keeps what was proved of the workflow alone. `ChainStep` shows that every step
of the composition is a step of `DailyWorkflow` or leaves its variables as they are (a plan
that is complete is an executor that returned, a write that failed is an executor that
raised), so that `ChainFollowsTheWorkflow` (`ChainSpec => Spec`) and, with
the theorems above, `ChainKeepsThePromises` follow without another invariant.

`SignalsAreTraced` (`SignalsTraceToEvidence`) is about what the executors file. The property is not inductive: whether
a brief leads to evidence depends on the order of all the writes before it, of this run and of those that died before
it. `FilesOK` therefore reads the files as a set of facts (`FactsIn`: there is a file of this category with
this identifier) and asks of each file that the facts it rests on are among them (`Rests`: of a document its source and raw payload,
of a span its document and text, of a link its span, of a hypothesis two documents and its links, of a feature
its brief, of a signal its features and scores), with what its identifier says (a brief names the grade of its assessment) and the
ranges of the feature values, which keep a signal from pointing down. A file that is overwritten keeps its facts,
so a write whose own facts are there disturbs no other (`PutKeeps`). `PlanSound` says of a plan
of writes that each is due once those before it are done, and `ChainInv` that this is so of what is left of
the plan at work: a death, a failed write or an exception anywhere leaves files that are in order. The bulk of the proof shows that
each executor plans soundly from files that are in order, its gate passing or not: `NormalizationSound`,
`ExtractionSound`, `ResearchSound`, `MappingSound`, `GenerationSound`. `PastOK` composes the same five for
what an earlier day left. `FixtureAssumption` says that fixtures come in lists of texts whose paragraphs are lists of sentences and that a news
item has a headline, which is what the loader's schema demands.
A list is filtered by `Those` of EvaluationChecks, a FlattenSeq of singletons, because SelectSeq is opaque to the
provers; what flattening keeps (`FlattenGathers`) is shown by a least counterexample, not an induction.

`StepsVouch` (`StepsVouchForTheirOutputs`) is about what a complete plan leaves, where `SignalsAreTraced` needs only that each
write was due. What a step vouches for is stated of the files and of the writes still to come: `Owed` says that a file with a key is
on file or about to be written, and that every write of that key fits what is asked of it. So the promise of a part (`Ingests`: a gate that
passed for each fixture; `Extracts`: the gate and the spans of each document; `Researches`: an assessment of today, and a brief or a call
for attention; `Maps`, `Generates`: the features and a signal of the latest brief) holds when the plan is made, is kept by each write, and
at the end of the plan (no writes) is what is on file (`OwedIsKept`). `VouchInv` is inductive together with `IInv`,
`EndInv` and `ChainInv`: of the plan at work it says that it stays in the scope of its part and, if it does not end in an exception, keeps
the part's promise (`WorkInv`); of each step that is `Reached` (left behind, being recorded, or the
one the run concluded with) that what it vouches for is on file. A later part disturbs none of it, because it writes to other categories, other gates
or another workflow's outcome (`InScope`, `OwedElse`), and a rejection only changes the review of a brief (`SameFiles`).
The shelf has to be in order for that (`ShelfOK`): every document on file that a gate
refused is one that today's fixtures name, there is one brief of yesterday, and a brief of today is named after
the assessment of today, so that the brief a step reads as the latest stays the latest. `PastShelf` shows that an earlier
day, ended by whichever exception, leaves such a shelf.

**OperatorReviewProofs.** Any number of targets, any number of requests at once, any
interleaving and any death. A request writes from the snapshot of its second
load, which other requests have overtaken by then; what makes the properties true nevertheless
is that decisions are only ever added. `GoodFile` says of one version of a
target that its status is backed by decisions on file, that its approval is not of something
blocked and that its admission rests on an approval; it is kept by whatever adds decisions
(`Kept`), so it holds of each file (`FilesInv`) and of every snapshot that
a request in progress holds (`RequestsInv`, by the place the request is at). `ItemsInv` and
`PositionInv` say the same of queue items and positions. Proved: `TypeCorrect`,
`StatusesAreBacked`, `NothingBlockedIsApproved`, `PositionsRestOnApprovals`.

The other three properties are those of a server that takes one request at a time and may be killed
at any moment: the theorems `QueueIsRight`, `TradesFollowTheirProposals` and `TradesAreAdmittedOnce`
have the hypothesis `Sequential` (`MaxOpen <= 1`, as in the run
`review`); the run `review_race` shows that the second is false without it. Their
invariant `SeqInv` is about the middle of a request: one request is open (`OneOpen`), what it
has read is still what is on file except for what it wrote itself (`HeldInv`, `NotesInv`, `WrittenInv`), and each
queue item records what the requests before have decided and noted (`Records`) and says of its target
what is on file (`QueueInv`), except for the one that the request is about to write and for the target of
a review that died between its decision and its audit log (`Interrupted`), until the sync of a later request is
through (`Synced`). `SyncInv` says that past a sync every target that awaits review has an item, and that a sync
that starts over finds the items of the one that died,
`AssignInv` that an active assignment of a request that did not die is the one its item names or is about to name, `OutcomeInv`
that summaries tell the truth, and `LedgerInv` that a trade says it was admitted exactly when it has
a position.

**BacktestSimulationProofs.** The inductive invariant is
`TypeOK /\ LogsFollowTheLoop /\ ScheduleInv /\ SelectionInv /\ FollowInv`:
which bars have been opened and decided on, that what is pending is exactly what was
decided `lag` bars before a bar that has not opened, that each decision holds the
signal the selection would give for its close, and where the account
stands when the lag is one. Proved: `TypeCorrect`, `EachDecisionIsExecutedOnce` (any lag),
`PositionsFollowDecisions`, `DecisionsOnlyMoveForward`, `ReportsAreRight` and `SelectionIsWellDefined`: among any
finite set of eligible signals exactly one comes first. The last one replaces an induction on the
size of the set by the well-foundedness of strict inclusion on finite sets, applied
to the sets of signals preferred to each candidate; `DecisionsOnlyMoveForward` cites it
for two closes and uses that eligibility only grows with time.
`ReportsAreRight` needs a second invariant beside the first. `AccountInv` says that at any time
the units, the turnover, the costs, the cash and the count of trades are sums over the fills so far; `LongInv` that a run
that only ever decided to be long bought one unit at the first bar it could and has traded nothing else; `SummaryInv`
that a report is the marked account. The sums are `Total`, for which a short theory of finite sums is proved
first: they exist (`SumsExist`), depend only on the summands (`SumsAgree`), let any element be taken out
(`SumsWithout`) and are linear (`SumsCombine`). Each of these inductions on a finite set is done on a least
subset that breaks the claim. `QuantitiesFolded`, `TurnoversFolded` and `GainsFolded` show that
the folds in `AccountsReconcile` are these sums.

**PortfolioReviewProofs.** Any signals, requests, limits and number of runs, with verdicts
and deaths between any two steps. A rerun replaces a proposal under the same
identifier, and the run writes its proposal from memory twice more, over whatever was
decided meanwhile. `FilesInv` says of each proposal on file that an approval it carries is
covered by a decision on the same positions (`Covered`); `MemoryInv` says it of the one in
memory, and `DraftInv` that the two differ in nothing but the verdict, so that neither write can put an
approval on other content. `TradesInv` ties the trades of the day to the run that made
them, `FreshInv` the identifiers of the day to the run, and `ReportInv` a reconciliation to the
warnings that call for attention; `ConclusionsAreTrue` needs them all. `SelectionsAreDefensible` goes
through arbitration's verdicts and the whole of construction and risk review, which are pure operators:
the ranking has a first element (an order on finitely many signals), a position over its limit
meets a blocking check, and a withheld primary rejects every candidate. Proved:
`TypeCorrect`, `ApprovalsCoverContent`, `TradesAreApproved`, `ConclusionsAreTrue`,
`SelectionsAreDefensible`.

**ResearchToBacktestProofs.** Any calendar, any clock and any documents. What is derived is available
from the latest of the windows it derives from, so `FeaturesInv` and `SignalsInv` need that a finite set of
instants has a latest one; they say that without a fallback or a replay nothing is
available before the documents in it (`NotBefore`), and that what was generated under a cutoff was
parsed by then. Opening hours of the calendar turn that into the rule of the documents: the close of a
session is before the next open. `GivenInv` says that the backtest decides on signals that it once loaded
and that were available at the close of the decision. That the sessions have an order
(`SessionOf`) is an induction over their rank, done by the least rank without a session. Proved:
`TypeCorrect`, `CutoffsHonoured`, `NoDecisionLooksAhead`.

**StrategyAblationProofs.** `NoStrategyReadsAhead` has two halves. One is about the strategies as
functions: on two paths of prices and two sets of research that agree up to the close
of a bar, each of the four families produces the same variant signals up to that close
(`VariantsAgree`, from `TextsAgree` for the latest text and the order of the bars for momentum).
The other is the invariant that a simulation under way is on what its strategy makes of the
inputs of this run, and that whatever it selected had taken effect, with all of its
features, at the close it was selected for. Failing writes and deaths are included.

`ExperimentsAreWhole` is about what a death leaves behind. `CompletedExperimentsAreWhole` alone is not
inductive: whether the next write keeps it depends on all that the run has still to write. `RegistryInv`
reads the files as a set of facts (`Facts`: this artifact is there, this experiment is completed, this summary has
this value) and gives each file the facts it needs (`NeedsOf`) and those it must not find (`BarsOf`: a
summary or a running experiment never replaces one). `FilesInv` says that every file has what it needs, of
whatever category; `PlanInv` that every write still to come finds what it needs when its turn comes, after
the writes before it. A write then keeps both whatever it replaces (`FileAdded`), and stopping anywhere,
by a death, an exception or a refusing gate, leaves only files that have what they need. What has to be shown of each step is
that its plan is sound: for a child that its artifacts, metrics and datasets come before the experiment that
lists them (`ChildSound`), for the comparison that all it refers to is on file when the children have ended
(`ComparisonSound`, from `RunsInv` and `DefinitionsInv`). `DrawnInv` says that identifiers still to be drawn are on no
file, which keeps a later run from replacing an experiment or a summary of an earlier one.

`ComparisonsAreHonest` is about what the reader of a comparison is told. The invariant has four more parts.
`ChildrenInv` says that the children that ended are the first of the configured families in their order, each
with a counted summary, and that the account of the strategy that holds cash is untouched in every state of its
simulation (`Held`). `SpokenInv` says what each stage may still report (`MaySay`): of the
writes in front of it only its own reach the results, the reports, the summaries or the events, and the
summary comes last, after the event that calls for attention. So a result on file stays in order and a report a fail (`ResultsInv`), and a run that
ended well keeps a result and a report of its own or of a later run and its event (`SummariesInv`). While a run concludes, its result and report are on file or among the
writes to come, unless the plan ends in an exception (`ConcludingInv`); while it reports, the
summary still to be written is due (`ReportingInv`).
Three lemmas carry the rest: in a strict total order the numbers of places ahead are a permutation
(`RanksAreTaken`, so `sort_variant_results` loses no row and repeats none: `RowsAreSorted`); the result
depends on nothing but the scenario, the run and its children (`ResultKept`), so what is in the plan is what
is computed later; and every report is a fail and every run needs attention (`AlwaysFails`). The last follows from the
provenance check: the snapshot of the prices is linked to nothing (`UnlinkedFails`), so its failure, which blocks, is in
what the checks find. That needs that the artifacts to be checked are finitely many (`EvaluatedFinite`), so that
they can be gone through in some order that leaves none out (`OrderHas`), and that flattening the findings of
all checks loses none (`FlattenHas`), each shown by a least counterexample. The sort of
the code is modelled by rank: a stable sort puts each row after those that are ahead of it.

Out of the prover's reach: liveness under fairness and `ENABLED` (`RunConcludes`), what a
recursive definition computes for inputs of every size where it takes a theorem with an operator as parameter,
and everything in a module with a `RECURSIVE` operator. All of this
is only model-checked. Folds over finite sets and sequences are within
reach, by a least counterexample in place of an induction (the sums of `ReportIsRight`, the lists of `SignalsAreTraced`).

## Where the code and its documents disagree

Three disagreements have a run and an entry under "findings":

1. `ledger_unpriced_fill`: the followup of an admission without price asks for a
   price and a quantity; supplying them leaves a position file that cannot be
   loaded again, and with it the whole directory.
2. `review_race`: a trade's parent is validated against a snapshot.
3. `point_in_time_replay`: an as-of cutoff leaves out the windows of later
   documents and keeps what was extracted from them, so that features become
   available too early and no anomaly is recorded.

Others were met while modelling and have no run. The models contain the behaviour;
the properties above are stated so that they do not deny it.

Ledger and review:

* A close may be dated before the opening and a fill before the submission;
  neither is checked, and the file that results is rejected by the next load.
* Events and entries are described as append-only, but one of the same type and
  time replaces the first.
* A close without a price keeps the unrealized PnL of the last mark.
* Two concurrent approvals of one trade both admit it; two concurrent syncs both
  create a queue item for one target; of two concurrent decisions on one target the item, and a
  proposal or trade itself, lists only the one written last.
* A death between the write of a new assignment and that of its item leaves the assignment active without an
  item that names it; later calls do not deactivate it, and the next assignment is active beside it.
* A review that dies between its decision and its item leaves a decision that no item lists; a later sync corrects the
  status the item shows, and nothing adds the decision.
* Every sync rewrites every reviewable item, since the comparison with the
  existing item includes the time in its provenance.
* Escalation leaves the status of a brief or signal as it is. One that was approved or rejected before
  is no longer reviewable, so the next sync resolves its escalation without anyone having looked at it.
* A reviewed brief or signal does not say which decision it rests on; only the decision's file and the queue item do.

Daily workflow and research chain:

* A soft failure of the last step replaces the attention verdict of a run that stopped at
  the review gate by `PARTIAL` (`services/daily_orchestration/service.py:401`, against
  `docs/plans/day21_plan.md:48`); `VerdictExplained` says what the code does.
* A step whose record cannot be written is executed again, and its first child
  runs stay on file.
* Step 7 passes the proposal that step 5 returned on to `propose_trades`
  (`services/daily_orchestration/executors.py:421`): a verdict given on file in between is not seen. Step 5
  itself files the proposal twice, by the portfolio workflow and again from memory with the scorecard
  (`:340`), over a verdict given between the two.
* One refused document ends the whole batch, and a document on file whose
  bundle is quarantined makes step 2 of every later day fail.
* A daily rerun replaces a brief, hypothesis or signal that an operator rejected by a
  new one that is pending review.
* The critique looks for tone markers among the links, which the loader never
  selects as evidence (`services/research_orchestrator`, `loaders.py:115` against
  `critique.py:152`).
* With insufficient evidence today, step 4 maps the brief of an earlier day.
* A document that is ingested again with revised text leaves its old claims on file.
* `feature_values` keeps the last feature of a name and `_feature_id_by_name` returns the first:
  with an older feature on file a score may name one that its value does not come from
  (`services/signal_generation/scoring.py:69` and `:392`).
* The weights cannot outvote the support of a brief: a signal's stance is
  never negative, which `SignalsTraceToEvidence` states.

Gates and evaluation:

* The ingestion gate records violations of timing that no check of its gate lists
  (`services/data_quality/service.py:417`), and it cannot refuse a fixture that
  normalisation has accepted.
* A gate's file is known by gate and target, so a later one replaces an earlier one.
* A check names a signal by its hypothesis when it looks for an identifier
  (`services/evaluation/checks.py:2015`).
* The checks of research signals and of variant signals report a metric of the same
  identifier, and one file replaces the other (`services/evaluation/service.py:297`).

Portfolio:

* A primary signal of arbitration only ranks first: the next candidate is taken when the
  primary is turned away (`services/portfolio/loaders.py:193`, against
  `docs/research/signal_calibration_and_arbitration.md:165`: "portfolio construction
  uses only that selected signal").
* Opposing signals tied below a rejected candidate are decided by identifier, and a primary
  without a direction lets construction take a side that a blocking disagreement withholds
  elsewhere; `NoSideOfATie` excepts the first.
* The reason of a constraint breach is replaced by "lower ranked candidate of the same company".
* With an as-of time in the past, reconciliation always raises its `ValueError` and is skipped
  (`pipelines/portfolio/portfolio_review_pipeline.py:427`); a reconciliation that succeeds
  always has a high mismatch, so the pipeline always asks for attention after it.
* The pipeline writes its proposal from memory twice more after the first time (`:419` and `:480`): a verdict given
  meanwhile is lost.
* After a rerun for the same day the trades of the first stay on file although the positions changed.
* A rerun that proposes a trade of the same identifier replaces it by one that is proposed and names no position
  (`services/paper_execution/service.py:235`), also when it was admitted: it can be approved and admitted again, and the
  position then starts over.
* A conflict's identifier leaves out the as-of time, so bundles of two days share its file.

Backtesting:

* With a lag of two bars or more a second fill may trade zero units and still count.
* The documented compatibility fallback
  (`docs/research/point_in_time_availability.md`) lets a decision know a document of its own
  session; it leaves an anomaly, and `NoLookAhead` makes an exception for it.
* No ablation can end `succeeded`: the specifications of its strategies (`services/backtesting/ablation.py:163`) and the
  snapshot of its prices (`:296`) carry neither a source nor an upstream artifact, and the provenance
  check (`services/evaluation/checks.py:1725`) records a blocking failure for each, so the report is a fail. `docs/product/run_summary_contract.md:45`
  describes `attention_required` as what a run with structural warnings ends with. `ComparisonIsHonest` says what the code does.
* Combined signals after the last text signal exceed the research cutoff, so the robustness
  check of timestamps fails as well.
* `as_of_time` of an ablation filters text signals only; prices after it are used.
* The text-only strategy ignores the status, expiry and window of the signals it is built from.
* A rerun replaces snapshots that experiments of an earlier run refer to, and one that dies leaves the
  earlier report and result beside the new snapshots.
* A child that raises leaves its experiment `RUNNING`.

## What is left

* **Algorithms**: the matching of `entity_resolution` as operators checked against a
  reference definition; `generate_daily_paper_summary` as an aggregation.
* **Composition**: the executors of steps 5 to 8 as the calls of `PortfolioReview`, and
  `PortfolioReview` with the concurrent requests of `OperatorReview`. Both state spaces are
  near what can be checked in minutes; the compositions would need smaller parts.
