# TLA+ specifications of KN Company Scraper

KN Company Scraper collects data about Swedish companies in PostgreSQL, ranks a
watchlist deterministically, buys structured investment theses from a language
model, and ranks the accepted theses every month. The programs that matter here
run for minutes, pay for model answers, may be interrupted anywhere and are
resumed from what the database holds; around them, jobs of a scheduler bring data
in, and pure rules decide what the answers are worth. The specifications in this
directory say what the database may and may not come to hold, and what the rules
may and may not decide.

Paths below are relative to `src/src/kncompanyscraper/` of the repository.

## Inventory

| Part | State it keeps | Operations | What is hard |
| --- | --- | --- | --- |
| Company analysis pipeline (`analysis/company_analysis_pipeline.py`, `repositories/job_repository.py`) | one `jobs` row per run: status and a JSON result with a record per stage | `run`, `resume`; a checkpoint at the start and end of each stage, one for each frozen prompt, one for failed attempts | killed between any two writes; resumed after new data or a new release; the result is written whole from memory |
| Two-stage analysis (`analysis/agent/agent_analysis_service.py`, `scenario_authoring.py`) | raw answers in `analysis` with a verdict | `run_qualitative`, `run_scenario`, one repair each, rehydration of stored answers | attempts are counted in memory and paid for at once |
| Analysis and thesis store (`repositories/analysis_repository.py`) | accepted analyses, thesis revisions, facts | `save_stock_analysis` (one transaction, company row locked) | retries after the commit |
| Thesis challenge loop (`analysis/agent/thesis_challenge.py`) | `thesis_challenges`: open, upheld, revised, rejected; one raw response | challenge, respond, resolve | four writes without a transaction; revisions that appear in between |
| Incremental thesis update (`analysis/agent/thesis_update_service.py`) | further thesis revisions | propose, apply deterministic guards, persist | shares the boundary with the challenge loop |
| Execution boundary and contracts (`analysis/agent/execution_boundary.py`, `result_parser.py`, `conclusion_contract.py`) | none; it rewrites the card it checks | two validations with a normalisation between, persistence | the card passes twice, in two states, with a paid stage between |
| Specialists, shadow integration, aggregator (`analysis/agent/specialist_runner.py`, `shadow_integration.py`, `petter_aggregator.py`) | artifacts and aggregates in the raw store, stages in the job result | first wave, sell conditions, aggregator; reuse of what was accepted | killed anywhere and resumed by the inputs of each answer; dozens of gates over six answers |
| Forward scenarios (`analysis/valuation/forward_scenario.py`, `analysis/agent/readiness.py`, `scenario_driver_attribution.py`) | the stored valuation | readiness, validate, value, attribute, rank | order of three cases before and after rounding; ties |
| Reverse DCF (`analysis/valuation/reverse_dcf*.py`, `dcf_assumption_policy.py`) | none | assumptions from reports, five years of cash flow, one solver per assumption | missing, undated and repeated reports; a price that is not monotone |
| Monthly agent cohort (`analysis/agent_cohort.py`) | one snapshot per month: members, misses, entered month | `refresh` | concurrent refreshes, skipped months, grace |
| Monthly comparative ranking (`jobs/comparative_ranking_job.py`, `analysis/comparative_ranking.py`) | one ranking run per month with its inputs summary | `run`, tier hysteresis, provenance merged once | runs daily and must be idempotent; a decision depends on the last month's decision |
| Comparative review (`analysis/agent/comparative_review.py`) | one review per ranking run: pending, rejected, accepted | `review`, accept, reject, attach to the ranking run | crash between accept and attach; a second reviewer |
| Ranking performance and total return (`analysis/ranking_performance.py`, `realized_total_return.py`, `repositories/dividend_repository.py`) | evaluations per run and horizon; dividend calendar, coverage and reviews | evaluate, upsert until complete, review events, replace calendar | reviews outlive the calendar they were made on |
| Deterministic ranking, its challenger and the portfolio (`analysis/ranking/`, `analysis/ranking_challenger.py`, `cli/portfolio.py`) | ranking runs with their audits, challenger snapshots, portfolio runs | score, rank, store the audit; read stored audits | piecewise scores, missing metrics; stored field names no type ties together |
| Backtesting and calibration (`analysis/backtesting/`, `repositories/valuation_repository.py`) | snapshots and prices by day, reports and KPI values by year | reconstruct a past day, measure a period, choose weights | what was public on a day; train and holdout |
| Mandatory refresh (`analysis/company_refresh.py`) | a manifest row per refresh | seven domains, five mandatory | one domain of several failing |
| Synchronisation (`borsdata/`, `jobs/borsdata_*.py`, `http_transport.py`) | reports, prices, dividends, KPIs, flows | retrying GETs, upserts | rate limits, partial batches |
| Releases and documents (`jobs/news_job.py`, `analysis/agent/research_document_ingestion.py`) | `news_releases`, `research_documents` | scrape, store, notify; full and delta synchronisation | two writers of one table; notify after save |
| Scheduler and job records (`scheduler.py`, `jobs/job.py`) | job and scrape-run records | periodic jobs, wrapped or raising | a failing job must not stop the loop |
| Evidence, packets, prompts | none | building and hashing | - |
| Model adapters, CLI, composition | none | subprocess and HTTP calls, wiring | - |

The parts meet in the database. The pipeline calls the refresh, builds a packet
from synchronised data, buys answers, has the boundary judge them and appends a
thesis revision. The challenge loop and the incremental update append further
revisions. The monthly job reads the latest accepted analyses, the unresolved
challenges, last month's ranking and the cohort, and appends a ranking run that the
review and the performance job later add to. `PROJECT.json` lists every part with its
status and every hazard with the line where it bites.

## Modules

| Module | Role |
| --- | --- |
| `AnalysisPipeline` | the durable pipeline, its stages, stores, failures and resumes |
| `AnalysisLedger` | what the pipeline promises: an input fixed once, one analysis of it, a job that names it |
| `AnalysisPipelineRefines` | the refinement mapping from the pipeline to the ledger |
| `AnalysisPipeline_proofs`, `AnalysisPipelineRefines_proofs` | types and one analysis per job; the refinement step by step, and that an exhausted job is history |
| `ThesisChallenges` | thesis revisions, challenges and the commands that write them |
| `ChallengeDesk` | what the challenge loop promises: one response and one resolution per challenge, shared with no other |
| `ThesisChallengesRefines` | the refinement mapping from the loop to the desk |
| `ThesisChallenges_proofs` | proofs of its safety properties and of the refinement |
| `ExecutionBoundary` | the checks of a card, its normalisation, the scenario between, the save |
| `ShadowGraph` | the specialists of a job, the sell conditions and the aggregator, killed and resumed |
| `ShadowGates` | the tracing of their answers, the conflicts and the philosophy gates |
| `Policies_proofs` | the saved card, what the shadow graph reuses and aggregates, what its gates decide |
| `Sums` | the sum of what a function gives, and a set of integers in order |
| `BoundedSets` | lemmas about the least and the greatest of a bounded set of numbers, about sums and sorted sets |
| `ForwardScenario` | readiness, the scenario engine, the attribution to drivers, the forward ranker |
| `ReverseDcf` | the assumption policy, the engine, the solver and the skill |
| `RankingPolicies` | the rules of the monthly ranking: tiers against the hurdle, hysteresis, cohort membership |
| `MonthlyRanking` | the ranking job and the cohort refresh, call by call, over months |
| `ComparativeReview` | the review of a ranking, beside `MonthlyRanking` |
| `MonthlyRanking_proofs` | types, frozen snapshots and the stored cohort; the two-signal rule of the tiers; what a ranking says of its review is what was accepted |
| `RankingPerformance` | the performance job beside prices, calendars, reviews and the benchmark |
| `DeterministicRanking` | scores, audits, the stored order; the challenger and portfolio commands |
| `Valuation_proofs` | the book and its ranks, the scores of a watchlist, what a price implies, a valuation and what drives it |
| `Backtest` | what a past day looks like from today, periods, the calibration of weights |
| `ReleaseIngestion` | the news job, the notifier and the document synchronisation at one table |
| `SchedulerLoop` | the scheduler's loop over wrapped and raising jobs |
| `MarketSync` | the nightly Börsdata job and the mandatory refresh over the same tables |
| `Operations_proofs` | complete returns are not quarantined, one run announces a release, completed rows mean fresh data |
| `MC...` | instances for TLC. `MCPolicies`, `MCOperations`, `MCMonthlyRanking` and `MCPipelineTopics` put several in one run, each behaviour being about one of them (`topic`) |

Definitions whose name begins with `Variant` are likely defects of the definition
they precede; no action uses them, and each property is known to fail when one of
them takes its place (`PROJECT.json`, `mutants`).

### AnalysisPipeline

A CLI process is a *worker*, with a program position `run[w].pc` and the local
variables of `_run_company` or `resume`; `run[w].result` is the result dict in
memory. `row[j]` is the job's row (`status` and `result`), `raw` the raw answers,
`analyses` the accepted analyses with their revisions. A result keeps, per stage,
the status and, for the two model stages, the frozen prompt, the attempts on the
books, whether a validation error is on them and the raw answer that counts.

Every step of a worker holds one database or provider call, so that a kill, a
failed call or another process fits between any two of them. The positions follow
the code:

| Position | Code |
| --- | --- |
| `created` | after `JobRepository.start`, before the first `update_result` |
| `begin`, `complete` | `_start_stage`, `_complete_stage` |
| `work` | refresh, snapshot, readiness, packet (one step each: they pass or block) |
| `freeze` | `_prepare_stage_prompt` |
| `gate` | the head of `run_qualitative` and `author` |
| `call`, `saveRaw`, `judge` | `generate`/`repair`, `save_stock_analysis_raw`, validation with `update_raw_validation` |
| `record` | `_record_stage_failure_metadata` |
| `check`, `save`, `revision`, `finish`, `close` | `_persist_and_complete` |
| `fail` | `_finish_failure` |
| `mark`, `marked`, `verify`, `rehydrate` | `resume` and `_resume_model_stages` |

Data is abstracted to what the properties tell apart. A packet is the version of
the company data it was built from; a prompt is its packet, the qualitative answer
it builds on and the release of its builder; an answer is the set of releases
whose validators accept it. `Fault` is a call that raises: inside the `try` the
run fails with the result as memory holds it at that moment (`InMemory`), outside
it the process ends with the row as it is. `Crash` is a kill. `NewEvidence` and
`Upgrade` change the data and the release between steps; a process keeps the
release it was started with. `OneRunnerPerJob` is the operator's discipline:
the README of the repository prescribes sequential runs, and nothing in `resume`
enforces it. With it FALSE two processes on one job violate every safety property
below, which is why the hazard is listed without a property.

The shadow path (`_run_shadow_specialists`, `_run_shadow_aggregator`) is off by
default and has a module of its own, `ShadowGraph`; timings and measurements are
left out.

### ThesisChallenges

The rows of one company: its thesis revisions `theses`, its `challenges`, and the
raw responses `raws`. Rows are known by their ids, 0 is NULL. A thesis is not
modelled by its text: `content` is the first revision that held it, so two
revisions say the same when their contents are equal. `cmd[p]` is the memory of a
CLI process, again with one database or provider call per step:

| Position | Code |
| --- | --- |
| `audit` | `ThesisChallengeService.challenge`: the audit call, then `save` |
| `ask`, `saveRaw`, `attach` | the analyst call of `respond` or of the update, `save_stock_analysis_raw`, `attach_response_attempt` |
| `judge` | `ThesisUpdateExecutionBoundary.persist_response`, up to the commit of `save_stock_analysis` |
| `reject`, `accept` | `update_raw_validation` |
| `resolve` | `resolve_with_response` |

`Kinds` are the commands the operator enters: `grill-thesis`,
`respond-to-thesis-challenge`, `resolve-thesis-challenge`, `update-shortlist`, the
same with `--retry-rejected`, and full analyses. `respond` takes up the response
stored on the challenge, as the command does. Of the rules a response must pass,
`MayPass` has the two that relate it to a stored revision (the thesis card, and
that unchanged content is unchanged); the others, the trigger rules and the
scenario author may each reject, which is the first disjunct of `Judge`. `Stop` is
a failed call or a kill. `_resolve_already_persisted` is not modelled: the command
always hands the service the challenged revision, so it is never reached
(see `response_retried` below).

### ExecutionBoundary

`packet` is what the boundary knows of a company, `draft` the card as the model
wrote it, `card` the card as the checks have left it, `forward` what the scenario
engine made of it. `Qualify` is `validate_qualitative` with its normalisation, in
`run_qualitative`; `Author` is the scenario stage with the outcome of the engine;
`Persist` is the second validation and the save; `PersistResponse` is the one call in
which an update or an answer to a challenge is parsed and saved. The order of the
checks is the code's wherever one changes what the next one sees. Prose is the set of
its slips, a slip being one rule of text or citation it breaks.

### ShadowGraph and ShadowGates

`ShadowGraph` follows one job: the specialists of the first wave, the sell
conditions, which are asked with the stable part of what the first wave found, and
the aggregator. `artifacts` are the stored answers with the inputs they were asked
with, `stages` the shadow stages in the job's result. A pass runs before the
qualitative stage with the packet's scenario and again after it when a scenario was
calculated. `ShadowGates` takes the answers as given and follows the decision: sell
conditions traced to claims (`Trace`), conflicts and gates (`Judge`), and the second
judgement of the stored, already downgraded candidate when a job is resumed
(`ReuseVerdict`). What a final claim may rest on are the records of
`_specialist_evidence_records`, one kind per operator: claims, rows of the management
ledger, tests and blockers of the sell conditions, the supporting and contrary sources of
the margin, and the assumptions of the growth scenarios. A claim of the business model
about reinvestment is one of its domain; the wider domains of that predicate are left out.

### ForwardScenario

`PassGate` is the readiness gate, `Value` the engine on one proposal
(`analyze`: facts, bundles, order, plausibility, bands, output checks),
`SaveAttribution` the driver attribution, `RankBook` the ranker. Growth and margins
are whole tenths and annual returns twentieths, on a grid coarser than every
tolerance in the code. The Shapley contributions are kept as multiples of 60, so that
they are exact, and values per share as a numerator and a number of shares, so that
nothing is rounded before it is compared. A return is the greatest step of the grid the
value has grown by in every year. Ranks are counted: a case has one more than there are
cases before it.

### ReverseDcf

One step, `Analyze`, is `analyze_reports`: what is missing, in the order in which the
code finds it, or the baseline, an implied value per assumption and the curve of
margins over growth. Rates are whole thousandths and amounts thousandths of a report's
unit; the bisection ends at one step of that grid, where the code's tolerance is finer.
A growth rate is rounded to hundredths. The attribution of past prices and the
operating-history benchmarks, which nothing else depends on, are left out.

### DeterministicRanking

`Restate` changes what the analyses of a company find, `RankWatched` scores every
company with the model of its branch and stores the run with its audits,
`CloseMonth` stores the monthly rows, `SnapshotChallenger` and `SelectPortfolio` are
the commands that read stored runs. Scores are tenths of a point; each metric has
units in which its range is a few integers.

### Backtest

`db` holds reports, snapshots and prices; `Pass`, `Publish`, `SaveSnapshot` and
`SavePrice` are what happens on a day, `MeasurePeriod` one period of
`BacktestEngine.run`, `Calibrate` the command `calibrate-weights`. Pure functions of
a day (`Reconstructed`, `Histories`) are what the engine would see of it today, so
that a property can ask whether tomorrow it sees the same. Restated reports, which
overwrite the first version, are not modelled. The correlation that settles what excess
and spread leave undecided is an operator of the data, `Correlation`.

### MonthlyRanking and ComparativeReview

`rankings` and `cohorts` are the two tables that get one row per month; `theses`,
`blocked` and `screens` are what the job reads: the latest accepted analysis of each
company, the companies with an open high-severity challenge, and the top of each
month's last deterministic run. `proc[p]` is a process, either the ranking job
(`ranks`) or `refresh-agent-cohort`, with one database call per step:

| Position | Code |
| --- | --- |
| `blocks`, `previous`, `screen` | `unresolved_high_company_ids`, `get_latest_monthly_run_before`, `get_latest_deterministic_run` |
| `lookup`, `before`, `insert` | `get_for_month`, `get_latest_before` and `save` of the cohort, in `AgentCohortService.refresh` |
| `save` | `save_monthly_ranking_run`, with the two calls that attach provenance |

The tables are functions from months to rows. `InsertOrGet` is `_insert_or_get`:
whoever comes second keeps what is there. Days are not told apart within a month.
A return is a whole number measured from the hurdle of its company, so the
comparison with the hurdle and the tolerance stay and the arithmetic of the scenario
engine does not; a company without an available scenario is `available = FALSE`.
A challenge flag that is stored with an analysis itself counts as `blocked`. The
order within a tier, ranks and evidence lists are left out, and so are rows of
releases before the hysteresis: for every row this code saves, both attach calls
find their key present and do nothing. `RunsEndInTheirMonth` says that no process
works over the end of a month. Nothing enforces it; see the runs.

`ComparativeReview` adds the reviewer, again with one call per step: the ranking and
its analyses are read, the model is asked, the raw response stored, accepted, and its
outcome attached to the ranking's row. Rules of prose and sources are one flag.

### RankingPerformance

`evaluator` is the memory of the job, which reads calendars, coverage, reviews and the
benchmark one call after another and stores an evaluation per horizon; everything it
reads may change between the calls (`SyncPrices`, `ReplaceCalendar`, `ReviewEvent`,
`SyncBenchmark`, `AttachMembers`). All prices are one number, so a total return is the
number of shares a share has become.

### ReleaseIngestion, SchedulerLoop, MarketSync

`ReleaseIngestion`: `feed` is MFN's list; `news` and `sync` are the memories of
`NewsJob` (scrape, look up, save, notify with retries) and of the document
synchronisation (full or delta). `SchedulerLoop`: `due` and `pass` are the `schedule`
library's jobs, `loop` where the process is; a job that raises leaves `run_pending`
in the middle. `MarketSync`: data have versions; `job` is `BorsdataJob` with its batches
and a row per company, `refresh` is `CompanyRefreshService` with its seven domains and
its manifest. `OneWriter` says that no refresh works while the nightly job does, which
only the hour of the job provides for.

## Runs

| Run | Question |
| --- | --- |
| `pipeline_crashes` | two topics: one job in one process with a failed call or a kill anywhere, an unanswered call, new data and a new release of prompts and validators; and two jobs in two processes, one of them without a required scenario. Is there one analysis per job, is a prompt in the row before it is paid for, is an exhausted job only ever history, is `AnalysisLedger` implemented? |
| `operations` | what the scheduler and the operator run: performance, releases, the scheduler, market data, one process that runs every command of the challenge loop and may fail or be killed, and two that race; both implement `ChallengeDesk`, and how often an answer is bought again, or a challenge left open, is bounded by the failures |
| `monthly_ranking` | tiers, cohorts, races and reviews over the months, with reruns, failed runs and two processes: does a ranking name the stored cohort, does a tier take one signal twice to make a small move and never three times, is what a ranking says of its review what the accepted review came to? |
| `policies` | what is decided about a company: cards, shadow graphs, gates, valuations, books, implied expectations, scores, backtests and their calibration, and a job that is killed, fails and is resumed until it settles |
| `repair_ceiling_crash`, `resume_without_scenario`, `analyst_paid_twice`, `response_retried`, `second_challenge`, `challenger_not_persisted`, `percentiles_ahead`, `price_within_bounds` | eight statements of the repository that the code does not keep (below) |

The topics of a run share no state. They are in one run because each behaviour is about
one of them; the others rest in an initial state.

### What is checked of what

| Topic | Properties |
| --- | --- |
| pipeline | `TypeOK`, `OneAnalysisPerJob`, `CallsUseFrozenPrompt`, `ExhaustedIsHistory`, `ImplementsLedger`; recovery: `RepairCeilingWithoutFailures`, `PersistedIsReported`, `FrozenJobsSettle` |
| challenges and updates | `TypeOK`, `RevisionsUseAttachedResponse`, `AnswerFollowsChallengedThesis`, `ResolutionIsFinal`, `ImplementsDesk`, `RetriesBuyNoAnswer`, `OnlyFailuresLeaveOpen`, `KeptContentStands` |
| monthly ranking and review | `TypeOK`, `RankingNamesStoredCohort`, `TierMovesOnTwoSignals`, `SecondSignalApplies`, `ProvenanceIsAccepted` |
| performance, releases, scheduler, market data | `NoQuarantinedReturn`; `AnnouncedByOneRun`, `FullSyncHeals`; `WrappedFailuresStarveNobody`; `CompletedIsFresh` |
| boundary | `PaidWorkIsSaved`, `GapsLimitConfidence`, `VerdictAgreesWithTier`, `SavedEvidenceIsSupplied` |
| shadow graph and gates | `AcceptedIsNotBoughtAgain`, `AggregateOfOneGraph`, `ActivationIsDecidedByGates` |
| valuation | `ValuationAgrees`, `DoubtNeverHelps`, `ExpectationsExplainPrice`, `ConfidenceRestsOnHistory` |
| scores and backtests | `BetterNeverScoresLower`, `PastIsFixed`, `HoldoutStaysUnseen` |

### Bounds

* Pipeline. One failure and one unanswered call make up to three executions of a job:
  frozen inputs, attempts and the persisted analysis of the *first* are judged by a
  *third*. The recovery topic allows two failures, so that a resume around the commit
  can itself be cut off, and two unanswered calls, three of the four in one behaviour. Two versions of the data and two
  releases tell old from new; two jobs and two processes are the fewest that can mix up
  analyses. Recovery keeps one version and one release: after an upgrade a job whose
  answers the new validators refuse is resumed and refused for ever.
* Challenges. Four commands, two challenges and one failure or kill, of one process that
  may enter every command (`alone`) and of two (`races`, which begin with a thesis, and
  where the second process starts while the first is at work). That is a thesis, a
  challenge, its response and a retry of it; two challenges of one revision with both
  answers; an analysis between a challenge and its response, or before a rejected
  response is retried; and each of these cut off between any two calls.
* Monthly ranking. Three months of tiers are a signal, its repetition and what follows;
  four months of a cohort with a grace of two are an entry, both misses and a return;
  two months of races and reviews. One company is enough for a tier, because every rule
  decides one company by itself; reviews have two. Processes are interchangeable, which
  is used as symmetry.
* Performance. One company, three days, one horizon; two dividends on one day and one on
  the next, of two sizes, so that one calendar can be replaced by another after a review;
  three changes beside the job. Prices have one value.
* Releases. Two reports and one other release, two articles per look, so that one falls
  off the list; two requests per notification; one kill or failed scrape.
* Scheduler. One wrapped job, one that raises, and the news job.
* Market data. Two companies in two batches, one without prices; two versions, one failure.
* Boundary, gates, scenarios, reverse DCF, scores. A sound input and everything one slip
  away from it, or two where two interact (`Answers`, `GateHands`, `ScenarioFacts`
  and `ScenarioProposals`, `DcfEvidence`, `RankingInputs`): a rule that is broken in the
  code shows where the rest of the input is in order. The reverse DCF has in addition 36
  prices at four returns on capital, so that each solver meets prices below, within and
  above its bounds; books have three companies, each near the others, with ties.
* Shadow graph. Two specialists of the first wave, one rejection, one kill, a scenario
  that is or is not calculated. The rejection and the kill meet only where no specialist
  reports a failure; each alone meets everything.
* Backtest. Years of eight days and four months; thirteen days with three events, or a
  filled store with two periods and four companies. A calibration is of one run, whose
  periods have all been measured.

All runs stop when their bounds are used up, and most rules are decided once, so deadlock
is checked only in `monthly_ranking`.

### Fairness

* `AnalysisPipeline!FairSpec`: weak fairness of each process's next step, because a
  process that is not killed runs on; strong fairness of resuming each job, because the
  liveness properties are about an operator who keeps entering the command the CLI
  prints, and a job may be resumable only now and then while processes are busy.
* `PerfSpec`, `ReleaseSpec`, `SchedulerSpec`: weak fairness of the steps of a process
  that runs, and of starting `NewsJob`, which the scheduler does every few minutes.

`OpSpec` and `PolicySpec` repeat these for their topics. Entering commands, starting a
synchronisation, failures, kills, unanswered calls and new data are never fair.

## What the runs show

The durable design of the pipeline holds up: over every interleaving of failures
within the bounds a job pays only for prompts that are already in its row, never takes
back a settled stage, and leads to one analysis that it names. So does the discipline of
the challenge loop: whichever process wins, one response counts, only it becomes
revisions, and a decision once made stands. The monthly snapshots hold up too: a second
process and any later run of the month change nothing, and a ranking that loses the race
for the cohort names the members of the winner. The rules agree with each other where
they decide one thing twice: the boundary's verdict and the ranking's tier, the first
and the second validation of a card, the gates before and after a resume, the bands and
their attribution.

Eight statements do not hold, each by a short trace:

* *At most one repair per stage* (README lines 315-318). Attempts reach the row
  only when the stage ends. A process killed after an answer, before that, makes
  the resumed stage start again at one: `repair_ceiling_crash`. Without kills and
  failed calls the ceiling holds (`policies`).
* *The CLI prints the exact resumable command when a run is interrupted after its
  packet is frozen* (README lines 399-400). The scenario stage of a company that
  needs no scenario is accepted without a prompt, so a job of it that failed while
  persisting can never be resumed: `resume_without_scenario`. The same refusal
  meets a job interrupted between the checkpoint of its packet and that of its
  first prompt.
* *The loop never buys a second analyst response* (README lines 573-575). A kill
  between saving a response and attaching it leaves a challenge that looks
  unanswered: `analyst_paid_twice`.
* *A retry finishes the resolution of an already persisted revision*
  (`tests/test_thesis_challenge.py` line 311). The service does when it is handed
  the revision; the command hands it the challenged one (`cli/agent.py` lines
  610-611) and persists the response again: `response_retried`.
* *A persisted revision resolves its challenge* (README lines 571-572). The answer
  to the second of two challenges of one revision follows the first answer, and
  `resolve_with_response` refuses it: `second_challenge`.
* *Persist the accepted combined removal as a monthly challenger* (README line 178).
  `snapshot-ranking-challenger` reads fields no stored audit has, and calls a method the
  repository does not have: `challenger_not_persisted`.
* *Only information then available* (README line 101). From January on the percentiles
  of a backtest use the annual KPI values of the year before, months before its report
  is public: `percentiles_ahead`. Reports and prices of a past day do stay the same
  (`PastIsFixed`).
* *`outside_bounds` if the current price is not attainable* (`docs/dcf_assumption_policy.md`
  line 108). Where capital earns less than the hurdle, growth first adds to the modeled
  price and then takes from it. A price that growth rates within the bounds reproduce,
  but that lies above or below the price at both bounds, is reported as outside, with a
  hint in the wrong direction: `price_within_bounds`. What the solver does report as
  solved explains the price, and the margins of the expectation curve, in which the
  price is monotone, are outside only if none fits (`ExpectationsExplainPrice`).

Observations that no statement of the repository speaks of, or that lie beyond the models:

* A challenge may be about a revision that has been superseded since; the answer "no
  material change" then publishes the challenged content again as the newest revision:
  `KeptContentStands` says that a response has the content of the challenged revision, not
  of the latest. Two updates at one time can do the same to each other, which is why the
  half of `KeptContentStands` about updates is of one process.
* A response that was persisted behind an analysis, and not behind the challenged revision,
  leaves its challenge open as in `second_challenge`, and a retry persists it again.
  `OnlyFailuresLeaveOpen` is about the direct successor of the challenged revision.
* The confidence of a reverse DCF falls with a reported cash flow of zero or less in the
  five latest years, not with one that is missing; and where no report is dated, three
  reports stand for three years (`ConfidenceRestsOnHistory`).
* A run of the ranking job that is overtaken by the end of the month and by a late run of
  the month before breaks the two-signal rule (`RunsEndInTheirMonth` FALSE). A run takes
  seconds.
* `resume` claims nothing. With `OneRunnerPerJob` FALSE, two processes on one job violate
  every safety property of the pipeline. An upgrade after answers were committed may
  leave a job that is resumed and refused for ever.
* With `OneWriter` FALSE a refresh that finishes inside the nightly job is overwritten
  by the older data the job had fetched (`borsdata/ingestion.py` line 107).
* A job that raises into the scheduler's loop stays due and is run first again every
  second; jobs that come after it in a pass wait (`scheduler.py` line 57).
* An evaluation is complete with an end price of up to seven days' age, and is then kept
  although the price of the target day arrives (`analysis/ranking_performance.py` line 108).
* `select-portfolio` builds `CompanyScore` from rows of the forward ranker
  (`cli/portfolio.py` lines 29-36) and ends in a `TypeError` for every ranking with a
  company; README lines 608-614 describe its output. `adjudicate-monthly-ranking` calls
  `RankingRepository.get_ranking_run`, which does not exist (`cli/agent.py` line 765).
* An activated or operating-latent verdict about a company whose readiness is not
  "required" passes the qualitative stage and is always refused where it is saved; that is
  the exception in `PaidWorkIsSaved`.
* Aliases are resolved after some source ids were checked, so that a ledger claim which
  cites an alias is dropped. A model's own class of a packet's core gap wins over the
  policy's, the exception in `GapsLimitConfidence`.
* A specialist answer that says "failed" is accepted and never asked again. After a
  limited answer about sell conditions was accepted with an aggregate, a resumed job asks
  it again and keeps the aggregate.
* `net_reinvestment_rate` of the reverse DCF never has an effect: without a return on
  capital it is 0, and with one it is not read. Several growth rates may reproduce one price;
  the solver reports one.
* A metric without a value drops out of its category's mean, so that losing a bad metric
  may raise a score; `BetterNeverScoresLower` compares what is known in both runs.
* The holdout of a calibration begins where training outcomes still run: the returns of
  the last training periods overlap it.

## Proofs

Every theorem holds for all values of the constants, from the named assumptions
of the modules alone (`BoundsAssumption`, `NoJobAssumption`, `PolicyAssumption`,
`RankingAssumption`, `ReleaseAssumption`, `BoundaryAssumption`, `ShadowAssumption`,
`GateAssumption`, `BacktestAssumption`, `AloneAssumption`, `BooksHaveCases`,
`ValuesAreTyped`, `FindingsAreTyped`, `DossiersAreTyped`). Those of the boundary, the
shadow graph and the gates give inputs the types the parsers of the code build
and what its evidence builders guarantee, that of the backtest the types of what is
stored. The last four say that a number of a scenario case, a bundle, an analysis or a
report is a number or, where the code allows it, missing, and that a book is finite and
has one case of a company; of the size or the sign of a number they say nothing. Every
run of `policies` evaluates all of these on its inputs. Where a theorem holds under one value of
a mode constant (`OneRunnerPerJob`, `RunsEndInTheirMonth`, `OneWriter`) its statement
assumes it.

`AnalysisPipeline_proofs`:

* `TypeCorrect`: `Spec => []TypeOK`. `TypeOK` is not inductive: `EnterModelStage`
  indexes attempts by the stage of a process, which the type does not restrict to
  model stages, and `CallModel` needs the process to have a job. The invariant
  proved is `TypedOK == TypeOK /\ RunnersOK`, where `RunnersOK` says, per position,
  which stage and attempt a process can be in. Lemmas about the result-building
  operators (`AcceptType` to `FailedType`) come first, then one lemma per action,
  each reduced by `StepTyped` to the type of the new memory and of the row.
* `OneAnalysis`: under `OneRunnerPerJob`, `Spec => []OneAnalysisPerJob`. The
  inductive invariant adds `Exclusive`: no two processes have one job, and a process
  about to save has found no analysis of its job. Most steps are `Quiet` (they touch
  neither the analyses nor anyone's claim to a job); the check before the save
  establishes the second half of `Exclusive`, the save consumes it, and `Start` and
  `Resume` take a job that nobody has.

* `BooksKeepTheCeiling`: under `OneRunnerPerJob`, `Spec => []RepairCeilingWithoutFailures`.
  The ceiling is not inductive: it does not say where attempts are counted, and a process
  counts in memory (`attempt`, `spent`) what its row does not show yet. The invariant is
  `Booked`: while `faults = 0`, the result in memory is the one in the row, what was paid
  for a job in a process is at most what that process accounts for at its position
  (`Paid`, `Accounted`), and for any other job at most the attempts in its row
  (`JobBooks`). A process that runs the qualitative stage again counts the scenario from
  zero, so the invariant also says that a scenario is only paid for once the qualitative
  answer is accepted with its artifact (`Grounded`): such a job never runs that stage again.
  The first step that raises `faults` has nothing to show.

`AnalysisPipelineRefines_proofs`:

* `LedgerImplemented`: under `OneRunnerPerJob`, `Spec => ImplementsLedger`. A process
  writes the whole result of its job back from memory, so a step shows a step of the
  ledger only if memory and row agree on what the ledger shows. `FollowsAll` says so
  per position: a packet is in both once it is frozen (`PacketKnown`; only a run that
  is about to record its failure may have one its row has not), the final analysis is
  one of the job's and enters the row once (`FinalKnown`), and the stages and modes of
  each position are those the code can be in (`Placed`). `LedgerInv` adds it to the
  invariant of `OneAnalysis`. Each action keeps it and shows one step: `Start`,
  freezing, the save and the close are steps of the ledger, the rest are stutters.
* `ExhaustedStays`: `ExhaustedIsHistory`. No process has a job that failed with its
  attempts used up, so nothing writes to its row; it is where the `pc = "mark"` part of
  `Follows` is needed, a resume that read the row before it changes it.

* `FrozenQuestions`: `CallsUseFrozenPrompt`. The property compares the prompt in hand
  with the row at one step; what makes it true happened steps, or processes, before.
  `Sound` says of a result that its prompts ask about its own packet and that a scenario
  prompt rests on the accepted qualitative answer (`PromptsOK`), and of a process which
  prompts it has (`Fitting`) and which cannot exist yet: none before the freeze of the packet, no
  scenario prompt while the qualitative stage runs. The latter is why the answer a frozen
  scenario prompt rests on is never replaced: a resume runs the qualitative stage again
  only when that answer was not accepted, and then no scenario was asked. Memory and row
  have one result, except in a run about to record its failure (`RunnerSound`), so
  every lost write is covered by `InMemoryPrompts`.

`ThesisChallenges_proofs`: one inductive invariant, `Inv`, carries all five
theorems about `Spec`. Beside `TypeOK` and the two properties themselves it has `RowsOK`, what
rows owe each other, and `CommandsOK`, what a process may rely on at each position.
The last is the heart of the argument: `AnswerFollowsChallengedThesis` is
established by the last of five transactions from what the process read in the
first, so the invariant must say that a process past `attach` holds the response
that is on its challenge (nobody can replace it, for `Attach` needs the link to be
NULL), and that a saved revision still is the one of that response, whose content
stands or is new.

* `TypeCorrect`, `AttachedResponse`, `AnswerFollows`: the three invariants.
* `DecidedOnce`: `ResolutionIsFinal`, from the same invariant.
* `DeskImplemented`: `ImplementsDesk`. The initial state shows an empty desk; a step
  that leaves `challenges` alone is a stutter of it; `FileChallenge`, `Attach`,
  `ResolveWithResponse` and `Resolve` are its `File`, `Receive`, `Answer` and
  `Close`. That no response or revision serves two challenges is where `RowsOK` and
  `AnswerFollowsChallengedThesis` are used: each names its challenge.
* `RetriesAreFree`, `SuccessorsClose`, `KeptStands`: `RetriesBuyNoAnswer`,
  `OnlyFailuresLeaveOpen` and `KeptContentStands` of `OpSpec`, from `OpInv`. What fails
  outright (`analyst_paid_twice`, `response_retried`, `second_challenge`) is bounded here.
  Answers are counted: while a challenge wants a response, each answer bought to it is
  one that a process is about to attach or one a failure has cost (`Wanting`,
  `Attaching`), and when it wants none no more are asked for than processes are at it
  (`CountOK`), which is why two processes may buy two. A revision that
  follows the challenged one is in the hands of a process that closes the challenge, or
  that process was stopped (`StopLeaves`). Content is kept by `Judge` for a response,
  as it compares with the challenged revision, and for an update only while the revision
  it was asked about is the latest, which one process alone ensures (`AtLatest`).

`MonthlyRanking_proofs` (assumptions `PolicyAssumption`
and `RankingAssumption`):

* `TypeCorrect`, `NamesStoredCohort`: the invariant is `Inv`, which adds to both that
  the memory of each process fits the tables (`Fits`): the rows it has read exist, and
  the cohort it goes on with is the stored one. `FitsKept` is the whole argument
  about other processes: rows are only added, and what fits a table fits a larger one.
* `Frozen`: `SnapshotsNeverChange`, because both writes go through `InsertOrGet`.
* `TierMovesTakeTwoSignals`, `SecondSignalMovesTier`: under `RunsEndInTheirMonth`. The
  invariant `TierInv` says that every ranking follows the one before it (`Chain`)
  and that a process still has the latest ranking before its month (`UpToDate`). A
  new row has the latest month, so it changes what no other row follows
  (`SamePrevious`). What remains is a lemma about two rows, `TwoRows`.

* `ReviewProvenance`: `ReviewSpec => []ProvenanceIsAccepted`. A process that attaches
  uses ranks it computed before its last two writes, so the invariant ties memory to the
  table: `Justified` says that a process at "attach" has the ranks of the accepted row,
  and `AcceptedKept` that no other process can change such a row. Steps of
  `MonthlyRanking` enter through its `Inv`.

`Policies_proofs`:

* The execution boundary has one invariant, `BoundaryInv`. `CardInv` types the card and
  says where the class of each gap comes from; `StageInv` says that a card past the
  qualitative stage is `Settled` (another normalisation finds nothing to change) and
  passes every check that needs no scenario. `QualifiedCardIsSaved` is that argument:
  normalising is idempotent (`NormalizedFacts`, `SettledStays`), so the checks at the
  save see the card they saw before, and what is new at the save was already required of
  the author (`AuthoredHolds`). `ConfidenceKnowsTheGaps` rests on merging gaps
  (`MergeFacts`: one detail per gap, twice merged is once merged), `VerdictMatchesTier`
  on the coherence check against the rule of the ranking (`TierFacts`),
  `EvidenceIsSupplied` on aliases that resolve to canonical names only (`ResolveFacts`).
* The shadow graph: `ShadowInv` types artifacts and results and says per position
  (`GraphPlaced`) what the runner holds: at a call nothing complete to reuse, at a
  judgment its own artifact in hand, after the pass results whose sell conditions were
  asked with the first wave that stands beside them (`OfOneGraph`). Artifacts only grow
  and a judgment is final (`Grew`), which is what every step of reuse needs.
  `AcceptedIsPaidOnce` and `AggregateSeesOneGraph` follow.
* The gates: `GateInv` says that a verdict beyond "asked" was traced and that one which
  still activates passed the gates with the claims it has (`Passing`), a second pass
  included. `GatesDecideActivation`: what stands was earned (`NothingAgainst`,
  `SourcesAssessed`, one case per kind of record), what is rejected has a supported thesis
  break (`RejectingBlocker`).
* The backtest (assumption `BacktestAssumption`): `BacktestInv` dates what is stored.
  `PastIsReconstructed`: every step is a case of `OnlyAdds`, whose additions are of today or
  not public before today, and no additions of that kind are seen from a past day
  (`AddsKeepThePast`). `WeightsChosenBlind`: the invariant keeps what was calibrated equal
  to what the stored periods give; `BeforeAndAfter` counts a day and those on each side of
  it, so that the later half meets no training date, for odd and even numbers of dates.

`Operations_proofs`:

* `CompleteIsNotQuarantined`: `PerfSpec => []NoQuarantinedReturn`. The shares of a
  period are a recursion over its days. That their doubling is due to a dividend which
  reaches the price is shown without induction, by looking at the least day that goes
  wrong (`LeastOf` of `BoundedSets`).
* `ReleasesAnnouncedByOneRun`: `ReleaseSpec => []AnnouncedByOneRun`. What
  the news job is about to save was never announced (`SavedIsNew`), although the document
  synchronisation may store it in between, and what it is announcing is stored, so no
  later run takes it up (`AnnouncedIsStored`).
* `SyncedIsFresh`: under `OneWriter`, `MarketSpec => []CompletedIsFresh`. The
  invariant says how far the writer at work has got (`SoFarFresh`: every domain before its
  own is fresh) and that whatever it will store is newer than every row (`Began`, for the
  bundles of a batch and for the version in hand). Without `OneWriter` the bundles of a
  batch may be older than a refresh that stored reports meanwhile, which is why the job
  and a refresh must not overlap. Dividends need one more fact, that a domain which was a
  success had prices to start from.

`Valuation_proofs` is about rules that are decided once, so its inductive invariants say
little more than that what is stored is what the rule gives for a stored input
(`BookRanked`, `RunsAreScored`, `DossierAnalyzed`, `ValuationMade`). The work is in the
rules, for inputs of any size:

* `DoubtIsNoHelp`: `ValuationSpec => []DoubtNeverHelps`. `Precedes` is transitive and
  irreflexive on keys of six integers (`PrecedesTransitive`, `PrecedesIrreflexive`), and
  the key of a doubted case does not precede its own (`DoubtComesLater`: the tier falls or
  stays, and only then does confidence count). So whoever was ahead of a case is ahead of
  it when it is doubted, and ranks count who is ahead.
* `BetterScoresNoLower`: `RankingSpec => []BetterNeverScoresLower`. Integer division keeps
  order, hence `Clamp`, `Linear`, `Curve` and every metric do (`MetricNoLower`), and so
  does a weighted mean over the same metrics (`CategoryNoLower`). Quality and growth
  enter the margin of safety with the sign that helps (`PremiumKeepsOrder`), so that the
  second use does not undo the first. "Better" is per metric: what a metric measures is not
  related to another one here.
* `HistoryBearsConfidence`: `DcfSpec => []ConfidenceRestsOnHistory`. `Annuals` is a sequence
  of reports with economics, of distinct and ascending years where any is dated
  (`AnnualsAreTold`), and the five latest of them are the five latest reports
  (`RecentAreLatest`), so that a loss among these lowers the confidence; a margin weighted by revenue lies between those of its years
  (`MarginIsMean`); whatever the policy hands over the engine can calculate
  (`AssumptionsAreSound`).
* `PriceIsExplained`: `DcfSpec => []ExpectationsExplainPrice`. Each halving of the
  bisection keeps the price between its ends or ends on an answer, and halves their
  distance (`HalvingNarrows`); twelve halvings close the widest bounds, 500 steps of the grid
  (`BisectionAnswers`), without any assumption of monotony; the code allows 200. That a margin outside the bounds
  is explained by none within needs monotony in the margin, at every level: sales do
  not depend on it (`SalesAreAlike`), cash flows rise with it (`FlowKeepsOrder`), and so
  does what they are worth from any year on (`WorthKeepsOrder`, from the last year back).
  In growth the value is not monotone, which is what `price_within_bounds` shows.
* `StoredValuationAgrees`: `ValuationSpec => []ValuationAgrees`. Values are fractions, so
  order is shown by multiplying out (`FactorCancels`, `AddingKeepsOrder`), and a return
  follows its value because a step of the grid that one value reached is reached by every
  greater one (`GrewMore`, with `SomethingGrew` for there being a greatest step). Bands
  are ordered from what `_validate_outputs` compares, prices, and from what the order of
  the drivers says of distributions and shares (`BandsAreOrdered`). The attribution is
  exact for any function of a set of six drivers: each subset's value enters once as
  "after" and once as "before" for every driver, with weights that cancel except for the
  empty and the full set (`ShareIsSum`, `SharesAddUp`).

Sums and recursions are reasoned about without induction. `BoundedSets` has, from the least
element of a set of naturals, what a sum over a finite set does when an element is added, when each
summand grows, or when it is exchanged for another order of summation, the order of
`InOrder`, and that a chain of steps is taken (`Walks`). `InOrder` stands where
the code sorts: `SetToSortSeq` of the community modules is defined over permutations and
has no facts a proof could use. `Power` is written out for the three horizons there are,
because the provers know `^` only for literals.

Model-checked only: the liveness and the temporal properties that need fairness
(`PersistedIsReported`, `FrozenJobsSettle`, `FullSyncHeals`,
`WrappedFailuresStarveNobody`), which with `ENABLED` are beyond the prover.
Every invariant of a passing run, every action property in them, and both refinements have a theorem.
The properties of the runs that expect a violation are false, and have none.

## Not modelled

* Building and formatting of packets, prompts and reports, the parsers' schemas
  (`output_schema.py`, `result_parser.py`: a response that does not parse is an answer
  nobody accepts), the wording rules, `financial_evidence.py`, `research_evidence.py`,
  `peer_benchmarking.py`: data in, text out, no state.
* `specialist_evaluation.py`, `ranking_challenger_performance.py`,
  `metric_audit_analysis.py` and the other offline reports.
* Model adapters (`codex_exec.py`, `openai_responses.py`, `deepseek_chat.py`): a call is an
  answer or none.
* Instrument mapping and the insider, holdings and liquidity jobs: row by row upserts
  without conditions between rows; each is one domain of a refresh.
* `analyze-shortlist` with its batch and retry paths, `thesis_cohort_calibration.py`, and
  the rules of `PortfolioSelectionService`, which no command reaches.

## Plan

1. *Done*: the pipeline with its ledger, the challenge loop with its desk, the monthly
   ranking with its cohort and review, and the theorems about them, both refinements
   among them.
2. *Done*: performance, releases, scheduler, market data; the execution boundary, the
   shadow graph and its gates; forward scenarios, reverse DCF, deterministic ranking and
   backtests. All their safety properties have theorems.
3. *Done*: theorems about valuations, books, scores and implied expectations, so that
   every invariant of a passing run has one. Liveness stays with TLC.
4. Open in the models: restated reports in `Backtest`, the batch command of the two-stage
   analysis, a refresh of the shadow graph inside the pipeline's own stages.
