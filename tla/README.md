# VeloShelf: specification and verification

TLA+ models of VeloShelf, the TLC runs that check them on small instances and
the TLAPS proofs that hold for every instance.  Paths below are relative to the
repository (`src/`).  Every definition that models code is listed in
`PROJECT.json` under `map` with the lines it stands for.

Contents: [inventory](#inventory) · [the modules](#the-modules) ·
[runs](#what-the-runs-check) · [bounds](#bounds) · [fairness](#fairness) ·
[findings](#findings) · [proofs](#proofs) · [not modelled](#not-modelled) ·
[plan](#plan)

## Inventory

VeloShelf watches the stock of quick-commerce dark stores.  A generator writes
orders and inventory movements to Kafka; a PyFlink job aggregates them into
one-minute features, scores them and stores features and alerts in Postgres;
training jobs fit an anomaly detector and a demand forecaster on the features
and offer them to a promotion gate on the MLflow registry; a polling loader
hot-swaps the promoted model into the scorer; a drift job and a Dagster sensor
close the loop by requesting retraining.

| Component | State it keeps | Operations | Talks to |
|---|---|---|---|
| Generator (`generator/`) | stock per store and SKU; when it last injected a surge and a stockout; the burst of orders still to emit; the Kafka producer's queue; labels of what it injected | sell, restock, force_deplete, inject, send | Kafka topics `raw-orders`, `raw-inventory` |
| Streaming job (`streaming/job.py`, `validation.py`) | offsets, event-time windows, watermark, per-key aggregates | parse/validate, dead-letter, window, enrich, sink | Kafka, scorer, sinks |
| Scorer (`streaming/scoring.py`) | the loader of the detector | score by model, or by rules without one | model loader |
| Sinks (`streaming/sinks.py`, `infra/init_db.sql`) | `windowed_features`, `alerts`; Kafka alert topics | upsert, insert_alert, send | Postgres, Kafka |
| Training and evaluation (`ml/train_*.py`, `evaluate.py`, `features.py`) | none beyond MLflow runs | train, evaluate, log, then promote | promotion gate |
| Promotion gate (`ml/promote.py`) | one cooldown sentinel file per model | `promote_if_better` | registry, file system |
| Model registry (MLflow, external) | versions and stages of each model | register, transition, get latest | gate, loader |
| Hot-swap loader (`ml/model_loader.py`) | `_model`, `_version` under a lock | poll: look up, download, swap | registry, scorer |
| Drift job (`observability/drift_job.py`) | drift reports | split windows, compute PSI/KS/JS | Postgres |
| Retrain trigger (`observability/retrain_trigger.py`) | one cooldown sentinel file per retrain job | should_retrain, record_trigger, clear_cooldown | drift sensor, file system |
| Drift sensor (`orchestration/sensors.py`) | Dagster's cursor for it | evaluate every 5 minutes | drift job, trigger, Dagster |
| Assets, jobs, schedules (`orchestration/`) | materializations (in Dagster) | feature export check, training, promotion, drift report | all of the above |
| Metrics exporter (`observability/metrics_exporter.py`) | gauges | poll Postgres and MLflow | Prometheus |
| Dashboard (`serving/streamlit_app.py`) | none | read-only queries | Postgres |

The behaviours that are hard to test:

* **Concurrency without locks.** `promote_if_better` is called from a six-hourly
  Dagster run, from a run the sensor requested and from manual training, each a
  process of its own.  They share the registry and the sentinel file; the
  cooldown and the incumbent are checked at the start and acted on much later.
* **Several writes that belong together.** Archive, promote and record; truncate
  and write a sentinel; record a trigger and hand the run request to Dagster;
  upsert a feature, insert its alert and send it; send an order and its movement.  An
  exception or a crash may fall between any two.
* **Sends that only enqueue.** Both producers queue records and deliver them from a
  thread of their own; a delivery that fails is logged or ignored.
* **Failures that look like ordinary answers.** The gate takes an unreachable
  registry for the absence of an incumbent; the loader takes a failed download
  for "try again"; the sensor takes a failed look-up for "decide without a
  report".
* **Stale reads.** The loader looks up the version and resolves the model by two
  calls; the sensor decides on data that is newer than the report it names.
* **Event time.** Late events, restarts from the latest offsets and windows lost
  on the way; one watermark over partitions that are read at different speeds.
* **Jobs that overlap.** Drift and training jobs read one Parquet file, start MLflow
  runs and log to them later, while the exporter asks for the latest run.

What makes each component correct: the gate promotes only improvements, at most
once per cooldown, and never leaves the registry without a Production model; the
loader serves only promoted models, only improves and catches up; the trigger
spaces retrains, the sensor spends every trigger on a launched run and processes
every report; the generator sells only what is in stock and sends every order with
its movement; the stream counts each order it reads once, in its window, unless it is late,
stores a row before its alerts and an alert before its message, and finds what the
generator injects; the drift job compares enough rows of two disjoint times, and the
gauges show one whole run and come to show the latest.

## The modules

| Module | Models | Built on |
|---|---|---|
| `ModelMetrics` | a run's primary metric and the comparison of the gate | |
| `ModelRegistry` | the MLflow registry as `ml/` uses it | `ModelMetrics` |
| `PromotionPolicy` | abstract: what the module comment of `promote.py` promises | `ModelMetrics` |
| `Promotion` | `promote_if_better`, any number of calls in flight | `ModelRegistry`, refines `PromotionPolicy` |
| `HotSwapLoader` | the polling thread of `HotSwapModelLoader` | `ModelRegistry` |
| `ChampionServing` | abstract: what gate and loader promise the scorer | `PromotionPolicy` |
| `Serving` | promoters and loader on one registry | `Promotion`, `HotSwapLoader`, refines `ChampionServing` |
| `RetrainTrigger` | decision and cooldown files of `retrain_trigger.py` | |
| `DriftSensor` | the sensor, with Dagster as its environment | `RetrainTrigger` |
| `Topics` | the raw Kafka topics, the clock and the faults that have struck | |
| `Generator` | `producer.py`, the inventory state and the anomaly injector | `Topics` |
| `StreamJob` | the Flink job: reading, windows, scoring, sinks, submission | `Topics` |
| `WindowCounts` | abstract: what `streaming/job.py` promises of its feature rows | |
| `Pipeline` | generator and job joined by the topics | `Generator`, `StreamJob`, refines `WindowCounts` |
| `Reporting` | export, drift and training jobs, MLflow runs, exporter | |
| `Evaluation` | `DetectorEvaluator` of `evaluate.py`, as operators | |
| `MCPromotion`, `MCServing`, `MCDriftSensor`, `MCGenerator`, `MCPipeline`, `MCReporting` | instances for TLC | |
| `PromotionProofs`, `SerialPromotionProofs` | theorems about `Promotion` | |
| `ServingProofs` | theorems about `Serving` | both of the above |
| `DriftSensorProofs` | theorems about `DriftSensor` | |
| `GeneratorProofs`, `StreamProofs`, `PipelineProofs` | theorems about `Generator` and `Pipeline` | |
| `ReportingProofs` | theorems about `Reporting` and `Evaluation` | |

Operators named `X_...` after a definition `X`, with a comment starting with
"Mutant", are plausible bugs of `X`: no specification uses them.  Putting one in
the place of `X` must make a property fail, which `PROJECT.json` lists under
`mutants`.

### Registry (`ModelRegistry`)

The registry of one model name is the sequence of its versions, each with the
metric its run logged and its stage.  `get_latest_versions(stages=["Production"])`
returns at most one version, the highest-numbered in that stage
(`LatestProduction`); this is what both the gate and the `models:/…/Production`
URI of the loader see.  MLflow is external: the operators say what the calls made
from `src/` do.

### Promotion gate (`Promotion`)

`attempt[p]` is a call of `promote_if_better` and its locals.  One step per call
to the registry or file system, since another process may act in between:

| Step | Code (`ml/promote.py`) |
|---|---|
| `CheckCooldown` | `_in_cooldown` (39-56) and the early return (117-123); `float("")` raises on a blank sentinel |
| `ReadIncumbent` | `get_incumbent_metrics` (67-91) and the comparison (125-153) |
| `Register` | `mlflow.register_model` (155-158) |
| `FindIncumbent`, `ArchiveIncumbent` | the archive loop and its exception handler (160-171) |
| `PromoteCandidate` | the transition to Production (173-178) |
| `TruncateSentinel`, `WriteSentinel` | `_record_promotion`: `write_text` opens with truncation and then writes (59-60, 180-185) |
| `Abort` | any exception nobody catches, or the death of the process |

`Faults` says which failures an instance allows: `read` (the look-up of the
incumbent raises and is reported as "none"), `archive` (the archive loop fails),
`abort`.  `promoted` is a history variable.

### Hot-swap loader (`HotSwapLoader`, `Serving`)

One poll of `_try_load` is `LookUp` (the version, and the early return when it is
the recorded one), `Download` (the URI is resolved by a second request) and
`Swap` (under the lock), or `DownloadFails` (every exception is logged and
swallowed).  `Restart` is the scorer building a new loader.  The lock protects
one assignment of two fields that one thread writes, so it needs no state.

### Drift sensor and trigger (`DriftSensor`, `RetrainTrigger`)

One evaluation is `ReadReport` (cursor and latest materialization; a known one is
skipped), `Decide` (`run_drift_job` inline and `should_retrain`), then per job
`Truncate` and `Write` (`record_trigger`), then `Launch` (return to Dagster, which
drops requests whose run key it has seen and stores the cursor).

Dagster is external: `context.set_cursor` (`sensors.py:105, 134`) is taken to store
the cursor, before a skip as well as before a request.  Dagster documents that
operation as `update_cursor`, and `requirements.txt:11` asks for any version from
1.6 on; with one that has no `set_cursor`, every decision raises at that line, no
cursor is stored and no request is returned, and what is said here of cursors and
requests is about the sensor as intended.

`last` is a history variable: per job the time of its last trigger and what became of the
run it asked for.

`ReadReportFails` and `DriftJobFails` are the two exception handlers, which go on
as "inline" or skip.  `Crash` loses an evaluation, which includes an evaluation
previewed in the Dagster UI: its code runs, its result is dropped.
`Materialize` and `NewData` are the drift job's schedule and the stream.  No
materialization carries `drift_summary` metadata (`assets.py:155-169` attaches
none), so the inline run of the drift job is what the code always does.

### Generator and topics (`Generator`, `Topics`)

`orders[k]` and `moves[k]` are the logs of `raw-orders` and `raw-inventory` for one
(store, SKU).  An iteration of `run` starts by asking the injector, which checks the
surge timer first: `Surge` (queues `surge_extra_events` orders and the ordinary one),
`Stockout` (`force_deplete`, which sends nothing) or `Quiet`.  Each queued order is a
`Sell` (the stock is taken, the order sent) and a `SendMovement`, or a `Restock` when
the stock is short: it sells and sends nothing.  `Tick` is the `time.sleep` at the end of
an iteration, and time that passes within a burst.  Kafka partitions by SKU;
a partition per key allows every order of reading that fewer partitions allow.

To send is to put the record into the producer's queue (`orderQueue`, `moveQueue`;
`kafka_client.py:34-41`).  `PublishOrder` and `PublishMovement` are the producer's thread,
one topic independently of the other.  An attempt may be `Acknowledged`, or not
(`Unacknowledged`): then the record was stored or not, and it is tried again or given up,
and `_delivery_report` logs the loss (20-25).  With `retries` and without idempotence
(30-32) a record can so be in the topic twice, behind one that was sent after it, or not
at all.  `GeneratorDies` between any two steps and loses both queues; the `flush` on the
way out of `kafka_producer` (53-59) may have delivered any part of them before.  A
restarted generator is a fresh one.

### Streaming job (`StreamJob`, `Pipeline`)

| Step | Code (`streaming/`) |
|---|---|
| `ReadOrder` | source, validation, timestamp assigner and window assigner: the order joins its window or is late (`job.py` 312-358) |
| `Quarantine` | the only rule a generated order can break: an event time too far ahead of the job's clock (`validation.py`) |
| `EmitWatermark` | `for_bounded_out_of_orderness`: newest event time less the bound and one |
| `Fire` | the event-time timer of a window, oldest first; `OrderWindowFn` counts |
| `StoreRow` | `FeatureSinkFn.map` up to the scores: the upsert of the row, the loader built on first use, the verdict (`scoring.py`) |
| `InsertAlert`, `SendAlert` | per alert: the upsert and its commit, then `KafkaProducer.send`, which only queues |
| `Deliver`, `DeliveryFails` | the producer's own thread; the future `send` returns is ignored |
| `Crash`, `Cancel` | a task manager that is killed, a job that is cancelled and so flushes its producer |
| `Submit` | a new submission: no checkpoint, starting offsets `latest` |

The model's verdict is a free choice among what `_score_ml` can return, a failing
model's fallback to the rules included.  `late` is a history variable: the code keeps
no trace of what it drops.

### Reporting (`Reporting`, `Evaluation`)

`table` is `windowed_features` and `file` the Parquet export, both as the sequence of
their rows' `window_end` (the readers sort by it).  A worker's drift job is
`SplitWindows` (read, split by time, fall back to the 80th percentile, skip or go on),
`WriteReport`, `StartDriftRun` and `LogMetrics`; its training job `StartTraining` and
`LogMetrics`; `Abort` is whatever ends it in between.  The exporter's thread asks for
the latest run of one experiment after the other (`Query`), sets the gauges of what
that run has logged (`SetGauge`), and gives up the round on an exception
(`QueryFails`).  A gauge is represented by the run whose value it shows.

`Evaluation` matches predictions with labels as the two nested loops do; ratios are
pairs of numbers.

## What the runs check

| Run | Setting | Shows |
|---|---|---|
| `PromotionSerial` | one call at a time, archive loop may fail, higher is better | the gate, the cooldown, Production never abandoned, the look-up finds the latest promotion, and the refinement `ImplementsPolicy` |
| `PromotionConcurrent` | two calls, every fault, lower is better, candidates may lack the metric | what survives interleaving and failure: `VersionsNotShared`, `LifecycleIsOneWay` |
| `ServingSerial` | serial, undisturbed promotions, a scorer that may restart twice, lower is better | only promoted models are served, each better than the one before, and the refinement `ImplementsServing` |
| `ServingCrashes` | promotions that die anywhere and misread the incumbent | at most one Production version; the recorded version is never ahead of the model, so the scorer still catches up |
| `SensorFaults` | two kinds of fault out of four, each any number of times: lost evaluations, cleared cooldowns, failing look-ups and drift jobs | triggers of a job are a cooldown apart; what a cooldown can be wasted on; no run key repeats until a decision is taken without a report; every report is processed once the failures stop |
| `GeneratorFaults` | the generator with its producer's queue; kills, and one delivery attempt that is not acknowledged | orders and movements pair up as long as deliveries are acknowledged |
| `PipelineFaults` | generator and job; two kinds of fault out of five, each any number of times | no entry of the topic counted twice or lost unnoticed; the refinement `ImplementsCounts`; rows before alerts before messages; injected surges are found; overdue windows are stored |
| `Reporting` | two workers, jobs that overlap and die, outages and restarts of the exporter | the split of the drift job is sound, the gauges show one whole run that has its report, and they catch up; `MCReporting` also evaluates two assumptions about `Evaluation` |
| `RaceBreaksGate`, `OutageBreaksGate`, `LoaderStuck`, `CrashLosesRetrain` | see [findings](#findings) | violations of what the repository says |

The properties and why they could be wrong:

* `EveryPromotionImproves` relates the whole history of promotions to itself: it
  needs the gate to read the *latest* promotion, the version to be remembered and
  metrics to stay with their versions.  `PromotionsSpaced` relates the history to
  a file written one step after the fact.
* `AtMostOneProduction`, `ProductionNeverAbandoned`, `LatestIsLastPromoted`: archive
  and promote are two calls, `archive_existing_versions` is off, and the loop
  sees one version at most.
* `LifecycleIsOneWay`, `VersionsNotShared`: two calls in flight could archive or
  promote each other's candidates.
* `OnlyPromotedServed`, `ScorerOnlyImproves`, `RecordNotAheadOfModel`,
  `ScorerCatchesUp`: the loader works from two reads of a registry that changes in
  between.  `RecordNotAheadOfModel` is what makes the early return of the poll harmless.
* `ImplementsServing`: a promotion is one step of the gate's policy, a swap adopts a
  model that was champion and beats the one served, and only a restart leaves the scorer
  without a model.  Registry, stages, look-ups and downloads are hidden.
* `TriggersSpaced`, `RequestsAreFresh`, `TriggersBuyRuns`, `EveryReportProcessed`:
  cooldown files, cursor and run keys are three records of one decision, written at
  different times, and an evaluation may be lost between any two.  `TriggersBuyRuns` is
  what the code keeps of `TriggeredWereLaunched`, which `CrashLosesRetrain` refutes: it
  lists the two ways to waste a cooldown.  `EveryReportProcessed` lets a report be
  superseded by a later one (the sensor looks at the latest only) and excepts a sentinel
  that stays blank.
* `EveryOrderMoved` ties two queues and two topics together: levels reported, orders
  sent and restocks that neither topic mentions, with the topics delivered at different
  speeds and cut off by a kill.  It is claimed until an attempt is not acknowledged;
  after that the code keeps nothing.
* `OrdersAccounted` follows every order that was read, as an entry of its topic (one that
  a retry stored twice is two), through three places it can be
  in, and needs windows to be purged once, in event-time order, behind the watermark:
  a window that fired and took another order would overwrite its row with less.
  `LateMeansLate` says what the price is, one watermark for all keys.
* `ImplementsCounts` maps topics, offsets, open windows, timers and sink to a counter
  with one cell per key and window: the row appears in one step, with the number of all
  orders in time, after the rows of older windows, and no order enters behind it.  Once
  the job has been interrupted only the bound by what was published is left.
* `SentWereStored` and `StoredAlertsSent` are the two directions of a dual write
  through an asynchronous producer; only the first survives a crash.
  `AlertsMoveForward` needs the sink's order to follow event time across windows of one
  key.
* `SurgeDetected` runs from the injector's label to the row of the alert table: the
  orders may straddle windows, and the stockout alert of the same row goes through the
  same producer.  It asks for as many orders in time as must fill some window.
* `OverdueStored`: a window fires only when a later order moves the watermark.
* `SplitSound`: two splits, each with its own boundaries, against thresholds of 5, 10
  and (for a feature) 5 rows.
* `DriftPictureWhole`: report file, run and gauges are written by different processes
  at different times; a run is visible before it has logged anything.

## Bounds

`MaxVersions` 3 or 4 and two to four metrics give three or more successive promotions
with a refused candidate in between: an incumbent, a successor and the successor
of that, which is what ordering, double archiving and transitivity need.
`MaxTime` reaches the cooldown in each run so that a second promotion or trigger
becomes possible (`PromotionSerial`: 6 ticks with a cooldown of 2, three cooldowns;
`SensorFaults`: 3 ticks with cooldowns of 1 and 2).  Two promoters show every
pairwise race, and the theorems of `PromotionProofs` cover any number.
`MaxReports` 2 gives a report that arrives during the evaluation of another, or
supersedes one that was never evaluated; `SensorFaults` has two of the four kinds of
fault in one behaviour, each as often as it likes.  `MaxRestarts` 1
or 2 allows a scorer that starts on a populated registry.  When `MaxVersions` is
reached, `Register` refuses, which is how `register_model` failing looks.

`PipelineFaults` runs `LaggingSpec`, in which the topics are complete before the job
reads.  No state of the job is lost: the job looks at no more than what it reads, the
generator never looks at the job, and an order not read yet might as well not be
published yet; `Submit` may start at any of the positions that "latest" can have been.
The proofs are about `PipelineSpec`, where both run at once.  A stockout may come
before the surge, and the surge queues three orders of one key and one of any key, with
stock for three.  Over five ticks, with windows of one tick and a lateness of one, the
orders of the surge may straddle two or three windows, each reaching the threshold of two
or not; the ordinary order, read first, makes orders of the surge late; and a restart
between two orders of a window stores its row again.  That each of these cases is reached
was checked with TLC.  `MaxFaults` bounds the kinds of fault in one behaviour and not
their number: with two of the five, a job that crashes and is submitted again and again
may also lose any deliveries, or disagree with the generator's clock.  The constants of
the code are scaled: windows of 60 s, a lateness of 5 s, a surge every few minutes.
`Tick` is left out between the two sends of an order, where it changes nothing.

Deliveries that are not acknowledged are in `GeneratorFaults` only, where one of them
already gives a lost, a doubled and an overtaken record: with them as a sixth kind of
fault `PipelineFaults` does not end in reasonable time.  The theorems about
`PipelineSpec` do cover them, in any number: what the job keeps does not depend on how
the topic came to hold its entries.  In `LaggingSpec` the movements, which the job does not
read, stay in the producer's queue.

`Reporting` inserts windows of 10 or 11 rows up to 21, so that the file has 10, 11, 20
or 21 rows and both splits are taken: 20 rows of one time are skipped and 21 go on.
Two runs over two workers give a run that overtakes another between the query and the
gauges.  One feature and the drift flag already make a picture that can be torn;
`ReportingProofs` has any number of features, rows, workers and runs.

## Fairness

`ServingSpec`, `FairSensorSpec`, `PipelineSpec` and `ReportingSpec` state fairness; the
others are safety only.
The loader's thread polls in an endless loop (`model_loader.py:80-91`), so an
enabled look-up and a finished download are carried on (`WF`).  A download can
fail, and the registry may be without a Production version at the moment of a
download, so `Download` gets `SF`: the registry answers again and again, as a
service that is not down for ever does.  Nothing is assumed of promotions or
restarts: `ScorerCatchesUp` asks only about behaviours whose registry comes to
rest.  Dagster's daemon evaluates the sensor every five minutes
(`sensors.py:37-49`), and an evaluation goes on: `WF` of its steps together (`Evaluate`).
Nothing is assumed of the faults but, as the hypothesis of `EveryReportProcessed`, that
they stop.
While the job is up Flink emits watermarks every 200 ms, fires due timers and runs its
chain on, hence `JobFairness`: `WF` of these steps together.  Nothing is assumed of the
generator, of reading, or of a job that is down being submitted again.
The exporter's daemon thread loops for ever with its exceptions caught
(`metrics_exporter.py:285-288`): `WF` of setting a gauge, and `SF` of each query, as an
outage interrupts rounds but not every round at the same query.

## Findings

Each is a run of its own with the counterexample.

* `RaceBreaksGate`: incumbent and promotion are separate calls without a lock; of two
  calls in flight the second promotes a model that does not beat the first's.
* `OutageBreaksGate`: an exception of the look-up is returned as `None`, "no
  incumbent", and the candidate is promoted unconditionally.
* `LoaderStuck`: with a failed archive loop and an aborted promotion behind it, the
  registry can change between look-up and download so that the recorded version is
  not that of the model.  When the recorded version is, or becomes again, the latest in
  Production, every poll finds the number it has recorded and returns early, while the
  model in place is another, archived one.
* `CrashLosesRetrain`: the trigger is recorded while the requests are being built;
  an evaluation lost before it returns has spent the cooldown and launched nothing.

Further divergences, seen while modelling and kept out of the runs because they
are instances of the same causes or differences of wording:

* Two calls in flight also promote twice within the cooldown (checked at
  `promote.py:121`, recorded at 185), and leave two versions in Production, since the
  archive loop sees one at most (`promote.py:160-163`).
* A call that dies between archiving and promoting leaves no incumbent; the next
  candidate is promoted even if it is worse (`docs/phase5.md:147` says the old model
  stays until a better one is promoted).  Even an undisturbed call leaves Production
  empty for a moment, while `docs/phase3.md:128` calls promotion a single alias update.
* After a failed archive loop, the next promotion exposes the older version while
  its successor is archived, and a poll in that moment swaps it in.
* Decisions without a report use the run key `…_inline`, which Dagster launches once: the
  second one spends its cooldown on a request that is dropped.  The cursor `inline` also
  makes the sensor process a report again, with the same effect
  (`sensors.py:96, 105, 134`).
* `docs/phase5.md:72` has the sensor skip a materialization older than three hours; it
  looks at no time.
* A crash between truncating and writing a retrain sentinel leaves an empty file;
  `float("")` then fails every evaluation that sees drift (`docs/phase5.md:56` says the
  files survive restarts), until somebody clears it.  A promotion call that dies at the
  same place (`promote.py:60`) leaves a blank sentinel at which every later call raises
  (`promote.py:48`), and nothing in the code repairs or removes it.
* `sensors.py:10-11` says the sensor does not run the drift job; it always does, and so
  decides on data other than the report's that started it (`assets.py:155-169`).
* The cooldowns default to 60 and 120 minutes (`retrain_trigger.py:31-33`), while
  `docs/phase5.md:88` reasons with four hours.
* An order is dropped as late when another key's orders have moved the watermark, and a
  restart begins at the latest offsets without a checkpoint, while `docs/phase2.md:110`
  says that a window covers "exactly the same events regardless of pipeline lag or
  replay".  After a restart a window may be stored again with only the rest of its
  orders.  The lateness bound is 5 s (`job.py:323`), not the 10 s of
  `docs/phase2.md:27`, and the job is written against the DataStream API, not the
  Table API (`docs/phase2.md:22`).
* Scoring sees `on_hand` 0 and a long rate of 1.0 in every row (`job.py:421-423`), so
  that under the rules every row raises a stockout alert, while `job.py:425-426` says that
  "the scoring still fires correctly".
* No write ever resolves an alert, against `infra/init_db.sql:29`; the exporter counts
  all unresolved alerts (`metrics_exporter.py:220-224`), not those of the last five
  minutes (`docs/phase4.md:32`).
* A scorer whose loader could not be built never tries again, and `Dockerfile.flink`
  does not install `mlflow`, which `model_loader.py:22` imports; `scoring.py:7-10`
  promises the model within a poll "without a Flink job restart".
* A delivery of the generator that fails for good is logged and nothing else, and one that
  is retried may come twice (`kafka_client.py:20-32`): an order without a movement, a
  movement without an order, or an order that is counted as two.
* A restock sends no event (`producer.py:178-184`), against `docs/phase1.md:44`; the
  depletion of an injected stockout sends none and marks none, against
  `docs/phase1.md:54-56`; the messages are keyed by SKU (`producer.py:190-191`), not by
  store (`docs/phase1.md:72`).
* Several predictions may match one label (`evaluate.py:128-144`), so that the recall and
  the F1 which the gate compares can exceed 1.  The holdout is judged with a momentum
  threshold of 2.0 (`train_detector.py:121`), the stream with 2.5 (`scoring.py:30`).
* The exporter shows the latest run (`metrics_exporter.py:253-257`), not the Production
  model's (`docs/phase4.md:44-49`), which differ whenever the gate refuses a candidate.
* The training assets check that the Parquet file is there, not that it is fresh
  (`docs/phase3.md:111`).

## Proofs

`PromotionProofs` (any promoters, any faults, any bounds):

* `MaxIsLargest` is the only place that needs induction: the well-foundedness of `<`
  on the naturals gives a non-empty, bounded set of version numbers its maximum,
  hence `LatestIsInProduction`.  `RegisterAppends` and `TransitionChangesStage` say
  what the registry calls change and, more to the point, leave alone.
* `Inv` strengthens `TypeOK` and `VersionsNotShared`.  Neither is inductive: that
  archiving never hits another call's candidate needs to know that an archive target
  has left stage `None` (`ArchiveTargets`) and a candidate has not
  (`WaitingCandidates`); that a promotion is of a version of its own needs
  `PromotedVersions`.
* From it: `TypeCorrect`, `VersionsStayApart`, `LifecycleOneWay` (an action property)
  and, without aborts, `ProductionKept`.

`SerialPromotionProofs` assumes `SerialCalls`: calls do not overlap, are not aborted
and read the registry correctly, and candidates have a metric; the archive loop may
still fail.  Each assumption is needed, as the violation runs show.  `SerialInv` ties
together what the gate relies on: the candidate past the gate beats the latest
promotion (`GatePassed`), versions are promoted in the order of their numbers
(`PromotedInOrder`) and nothing else is ever staged (`StagedWerePromoted`), so that the
highest-numbered Production version is the latest promotion (`LookUpFindsLatest`) even
among leftovers of failed archive loops; the sentinel is never older than the latest
promotion (`PromotionRecorded`).  From it: `GateHolds`, `CooldownHolds`,
`LookUpIsLatest`, and the refinement `PolicyImplemented`: the
promotion step is the policy's `Promote`, the clock its `Wait`, everything else a
stutter.

`ProductionIsUnique` has a weaker assumption, `SerialArchiving`: calls do not overlap
and the archive loop works, but they may be aborted and misread the incumbent
(`SingleInv`).

`DriftSensorProofs` (any cooldowns, any bounds):

* `TypeInv` adds to the types that an evaluation that records triggers has one left to
  record (`JobsToRecord`).
* `TriggersAreSpaced` holds under every fault.  The sentinel is read in `Decide` and
  the trigger happens in `Truncate`, so `SpacingInv` carries the check over: a sentinel
  is never older than the last trigger (`SentinelsCover`), hence the pending jobs have
  passed their cooldown (`PendingPassed`), also after the first of them was recorded.
* `FreshRequests` holds until a decision is taken without a report, after which
  decisions share the `inline` key: launched keys are of reports up to the cursor, and
  an evaluation is about a later one (`LaunchedProcessed`).
* `TriggersBought` is `TriggersBuyRuns` under every fault: a run that is asked for is
  among the requests of the evaluation under way, a dropped one has repeated a key and a
  lost one its crash (`RequestsEnd`, with `LaunchedProcessed` for the keys).

`ServingProofs` (any promoters, any bounds) builds on both:

* `ServedInv` (whatever the loader has in hand or serves has been in Production) needs
  only the registry's invariant `Inv` and gives `ServedWerePromoted` and
  `ServingTypeCorrect` under every fault.
* `HeldInv` says that the loader's version, model and download are each no newer than
  what the registry will return from now on.  It needs `SerialArchiving`: with a failed
  archive loop the registry can fall back, which is what `LoaderStuck` does.  From it:
  `RecordNeverAhead`, and with `SerialCalls` on top, `SwapsImprove`.
* `ServingImplemented` is the refinement `ImplementsServing`: `PromotionIsPromote` and
  `OtherStepsWait` map the promoters' steps to `Crown`, `Wait` or a stutter, and a swap
  is `Adopt`, or a stutter when it fetched the model it replaces.  Three invariants meet
  there: the version fetched is not older (`HeldInv`), both were promoted (`ServedInv`),
  and later promotions are better (`SerialInv`).
* `ReadyUntilRestart` is about `OnceReadyAlwaysReady`, which is not in the runs: there
  `ImplementsServing` contains it.

`GeneratorProofs`, `StreamProofs` and `PipelineProofs` are about `PipelineSpec`, where
generator and job interleave freely (any keys, quantities, stock, windows, lateness and
faults):

* `GInv`: `half` holds at most one key (`HalfInv`); until an attempt is not acknowledged no
  queued record was tried, so that each topic followed by its queue is what was sent, in
  order (`UntriedInv`); and the levels sent and the stock now are bounded by the levels
  before (`PairedInv`), which `EveryOrderMoved` lacks for the sale whose movement is not
  sent yet.  A delivery moves a record from queue to topic and changes nothing of this
  (`Delivery`, `SentDelivered`); a death cuts both off at the end.  From it:
  `OrdersMoved`, about `GeneratorSpec`, and `GeneratorInvariance`, about `PipelineSpec`.
* `SInv` holds under every fault.  `ReadInv`: the job holds and drops only what it has
  read, and the watermark lags by the bound.  `SinkInv`: the row at the sink is stored
  before its alerts, an alert before it is sent.  `CountInv`: rows and the window at the
  sink count published orders only.  From it: `PipelineTypeCorrect`, `DroppedWereLate`,
  `AlertsStoredFirst` and `RowsNeverOvercount` (in the runs as a part of
  `ImplementsCounts`).
* `OInv` adds what holds as long as the job is not interrupted; the generator may have
  died, clocks may disagree and deliveries may fail.  `OrderInv`: the sink works in
  event-time order, behind the watermark and before every open window, hence no window
  can be refilled once it has fired.  `DeadInv`: what is quarantined is neither held nor
  late.  `SendInv`: the alert being sent is the one in the table.  `AccountInv`: the row
  at the sink counts all of its window's orders.  From it: `EveryOrderAccounted`,
  `AlertsAdvance` and, if no delivery fails, `AlertsReachConsumers`.
* `SurgesDetected`: `SurgeInv` says that a window that was stored with `SurgeOrders` or
  more while the rules judged has its alert, or is at the sink on the way to it.  That
  some window has so many is the pigeonhole principle, `PigeonHole`, proved from a
  smallest counterexample, since induction over sets is out of the prover's reach.
* `CountsImplemented` is the refinement `ImplementsCounts`: reading is `Take` or `Drop`,
  `Quarantine` is `Refuse`, `StoreRow` is `Count`, `PublishOrder` is `Publish`, an interruption
  and all that follows it `Disturbed`, everything else a stutter.  `NewestInv` supplies
  what `Drop` asks for: the newest event time is that of an order that was read and is
  not quarantined.
* `LaggingIsPipeline`: what TLC runs for this component, `LaggingSpec`, has only
  behaviours of `PipelineSpec`, so that the theorems hold for it too.

`ReportingProofs` (any workers, features, windows, rows and runs):

* `JobInv`: a job has in hand what its next step needs, in particular a sound split;
  `FallbackEnough` is the arithmetic of the 80th percentile from 21 rows on.  `RunsInv`:
  a drift run has its report on disk and all of its metrics or none.  `GaugeInv` and
  `PollInv`: a round sets the gauges of one run, forward, the flag last.  From these:
  `EverySplitSound`, `DriftPictureIsWhole` and `GaugesNeverFallBack`, which is not in the
  runs.
* `PrecisionBounded` and `RecallBounded` are about `Evaluation`: precision is at most
  one, and recall and F1 are when no label is shared.

The proofs rest on `MetricAssumption` and `PromotionAssumption`, those about the sensor
on `TriggerAssumption`, those about the stream on `TopicsAssumption`,
`GeneratorAssumption`, `StreamAssumption` and `NoRowAssumption`, those about reporting on
`ReportingAssumption` and `EvaluationAssumption`, `ServingProofs` on
`ServingAssumption`.  TLC evaluates all of them in the runs of the same component.
`SerialCalls` and `SerialArchiving` are hypotheses of single theorems.  The inductive
invariants were checked with TLC on the instances of the runs before they were proved.

Every safety invariant, action property and refinement of the runs is proved.  Only
model-checked are `ScorerCatchesUp`, `EveryReportProcessed`, `OverdueStored` and
`GaugesCatchUp`: liveness under fairness is out of the prover's reach.  So is that
`LaggingSpec` misses no state of the job, which is argued under [bounds](#bounds).

## Not modelled

* The inventory branch and the sliding windows of the job: they end without a sink, so
  nothing they compute reaches a row (`job.py:414-423`).
* PSI, KS and JS, feature engineering, fitting and `ForecastEvaluator`: numerical code;
  what it hands on is a drift decision, which `RetrainTrigger` chooses freely, or a
  metric, which `Promotion` chooses freely.
* The distributions of the generator (Zipf, Poisson, round-robin) and the fields of an
  event that nothing distinguishes.
* The exporter's two Postgres threads: each copies one query into gauges and keeps
  nothing else.  The drift job's own gauges are set in a process nobody scrapes.
* Dashboard, Terraform and Docker files: no state of their own; of the dashboard only
  which report it picks.
* The order of assets inside one Dagster run.
* The export overwrites the Parquet file in place; a job that reads it meanwhile fails,
  which is `Abort` in `Reporting`, and no torn file is modelled.
* `HotSwapModelLoader.stop` is not called by the program.

## Plan

Done: promotion, serving, sensor, generator, stream, reporting and the theorems above.
What would come next, in this order:

1. `ClosedLoop`: the sensor's requests and the schedules as the promoters of `Promotion`,
   so that the spacing of triggers and of promotions can be related.
2. The inventory branch, once the job joins it with the orders; `OnHand` in `StreamJob`
   is where it enters.
3. An abstract specification of the sensor's retrain budget (a cooldown spent buys one
   run of one report), which `DriftSensor` implements while no evaluation is lost and none
   is taken without a report.
