------------------------------ MODULE Reporting ------------------------------
(***************************************************************************)
(* The offline half: the export of windowed_features (export_features.py), *)
(* the drift job (drift_job.py) and the training runs that read it         *)
(* (assets.py, train_*.py), what they leave in MLflow and in the report    *)
(* directory, and the exporter's thread that turns MLflow runs into        *)
(* Prometheus gauges (metrics_exporter.py).  Jobs overlap: the schedules,  *)
(* the sensor and an operator start them independently.                    *)
(***************************************************************************)
EXTENDS Integers, Sequences, FiniteSetsExt

CONSTANTS
    Workers,          \* Processes that run jobs.
    Features,         \* MONITORED_FEATURES
    CurrentWindow,    \* CURRENT_WINDOW_H
    ReferenceWindow,  \* REFERENCE_WINDOW_H
    Batches,          \* How many windows may end at one time.
    MaxEnd,           \* Bound on window_end.
    MaxRows,          \* Bound on the rows of the table.
    MaxRuns,          \* Bound on the MLflow runs.
    Mishaps           \* Of: "abort", "outage", "restart".

ASSUME ReportingAssumption ==
    /\ IsFiniteSet(Features) /\ Features \cap {"mae", "f1", "drift_detected"} = {}
    /\ {CurrentWindow, ReferenceWindow, MaxEnd, MaxRows, MaxRuns} \subseteq Nat
    /\ Batches \subseteq Nat

VARIABLES
    table,    \* window_end of the rows of windowed_features, in that order.
    file,     \* features.parquet: the same, as of the last export.
    job,      \* What each worker is at.
    runs,     \* MLflow: the runs of all experiments, by start time.
    reports,  \* drift_<window_end>.html
    gauge,    \* Which run's value a gauge shows; 0: none since the start.
    poll      \* _poll_mlflow_metrics: the query it is at, what it still sets.

reportingVars == <<table, file, job, runs, reports, gauge, poll>>

-----------------------------------------------------------------------------
Ends == 0..MaxEnd
Experiments == <<"forecaster", "detector", "drift">>

DriftGauges == Features \cup {"drift_detected"}
Gauges == {"mae", "f1"} \cup DriftGauges

\* The metrics of an experiment's runs that the exporter knows.
GaugesOf(exp) == CASE exp = "forecaster" -> {"mae"}
                   [] exp = "detector" -> {"f1"}
                   [] exp = "drift" -> DriftGauges

Ascending(s) == \A i, j \in DOMAIN s : i <= j => s[i] <= s[j]

Run == [exp : {"forecaster", "detector", "drift"}, metrics : SUBSET Gauges, data : Ends]

Idle == [at |-> "idle", rows |-> <<>>, current |-> {}, reference |-> {}, run |-> 0]

ReportingTypeOK ==
    /\ {table, file} \subseteq Seq(Ends) /\ Ascending(table) /\ Ascending(file)
    /\ job \in [Workers -> [at : {"idle", "report", "start", "log", "skipped"},
                            rows : Seq(Ends), current : SUBSET (Nat \ {0}),
                            reference : SUBSET (Nat \ {0}), run : Nat]]
    /\ runs \in Seq(Run)
    /\ \A r \in DOMAIN runs : runs[r].metrics \subseteq GaugesOf(runs[r].exp)
    /\ reports \subseteq Ends
    /\ gauge \in [Gauges -> 0..Len(runs)]
    /\ poll \in [query : 1..3, run : 0..Len(runs), todo : SUBSET Gauges]

ReportingInit ==
    /\ table = <<>>
    /\ file = <<>>
    /\ job = [w \in Workers |-> Idle]
    /\ runs = <<>>
    /\ reports = {}
    /\ gauge = [g \in Gauges |-> 0]
    /\ poll = [query |-> 1, run |-> 0, todo |-> {}]

-----------------------------------------------------------------------------
(* Rows and the export.                                                    *)

NewRows(t, n) == [i \in 1..n |-> t]

\* Mutant: kept in the order of arrival.
Insert_Unsorted(t, n) ==
    /\ Len(table) + n <= MaxRows
    /\ table' = table \o NewRows(t, n)
    /\ UNCHANGED <<file, job, runs, reports, gauge, poll>>

\* The streaming job adds the rows of windows, older ones after a restart.
\* The readers sort them by window_end; the model keeps them sorted.
Insert(t, n) ==
    /\ Len(table) + n <= MaxRows
    /\ \E k \in 0..Len(table) :
          /\ \A i \in DOMAIN table : i <= k <=> table[i] <= t
          /\ table' = SubSeq(table, 1, k) \o NewRows(t, n) \o SubSeq(table, k + 1, Len(table))
    /\ UNCHANGED <<file, job, runs, reports, gauge, poll>>

\* An empty table ends the export with an error; else the file is replaced.
Export ==
    /\ table # <<>>
    /\ file' = table
    /\ UNCHANGED <<table, job, runs, reports, gauge, poll>>

-----------------------------------------------------------------------------
(* The drift job.                                                          *)

Newest(rows) == rows[Len(rows)]

TimeSplit(rows) ==
    LET cutoff == Newest(rows) - CurrentWindow
    IN  [current   |-> {i \in DOMAIN rows : rows[i] >= cutoff},
         reference |-> {i \in DOMAIN rows :
                           rows[i] >= cutoff - ReferenceWindow /\ rows[i] < cutoff}]

\* Mutant: the split index rounded up.
PercentileSplit_Up(rows) ==
    LET n == Len(rows)
        split == (n * 4 + 4) \div 5
    IN  [current |-> (split + 1)..n, reference |-> 1..split]

PercentileSplit(rows) ==
    LET n == Len(rows)
        split == (n * 4) \div 5
    IN  [current |-> (split + 1)..n, reference |-> 1..split]

Enough(s) == Cardinality(s.current) >= 5 /\ Cardinality(s.reference) >= 10

Split(rows) == IF Enough(TimeSplit(rows)) THEN TimeSplit(rows) ELSE PercentileSplit(rows)

Ready(w) == job[w].at \in {"idle", "skipped"}

\* run_drift_job reads the file once; without one it raises.
SplitWindows(w) ==
    /\ Ready(w)
    /\ file # <<>>
    /\ LET s == Split(file)
       IN  job' = [job EXCEPT ![w] =
               [at |-> IF Enough(s) THEN "report" ELSE "skipped", rows |-> file,
                current |-> s.current, reference |-> s.reference, run |-> 0]]
    /\ UNCHANGED <<table, file, runs, reports, gauge, poll>>

\* Named after the newest row, so that the same data give the same file.
WriteReport(w) ==
    /\ job[w].at = "report"
    /\ reports' = reports \cup {Newest(job[w].rows)}
    /\ job' = [job EXCEPT ![w].at = "start"]
    /\ UNCHANGED <<table, file, runs, gauge, poll>>

StartRun(w, exp, rows) ==
    /\ Len(runs) < MaxRuns
    /\ runs' = Append(runs, [exp |-> exp, metrics |-> {}, data |-> Newest(rows)])
    /\ job' = [job EXCEPT ![w].at = "log", ![w].rows = <<>>, ![w].run = Len(runs) + 1]
    /\ UNCHANGED <<table, file, reports, gauge, poll>>

StartDriftRun(w) == job[w].at = "start" /\ StartRun(w, "drift", job[w].rows)

\* Mutant: ten rows wanted on either side.
Judged_Ten(cur, ref) ==
    IF Cardinality(ref) < 10 \/ Cardinality(cur) < 10 THEN {} ELSE Features

\* compute_drift_metrics skips a feature with less than five values.
Judged(cur, ref) ==
    IF Cardinality(ref) < 5 \/ Cardinality(cur) < 5 THEN {} ELSE Features

-----------------------------------------------------------------------------
(* Training, and the end of a run.                                         *)

StartTraining(w, exp) ==
    /\ Ready(w)
    /\ file # <<>>
    /\ StartRun(w, exp, file)

\* All metrics of a run are logged by one call.
LogMetrics(w) ==
    /\ job[w].at = "log"
    /\ LET r == job[w].run
       IN  runs' = [runs EXCEPT ![r].metrics =
               IF runs[r].exp = "drift"
               THEN Judged(job[w].current, job[w].reference) \cup {"drift_detected"}
               ELSE GaugesOf(runs[r].exp)]
    /\ job' = [job EXCEPT ![w] = Idle]
    /\ UNCHANGED <<table, file, reports, gauge, poll>>

\* A killed process, MLflow out of reach, too few rows for the forecaster:
\* a run that was started stays without metrics.
Abort(w) ==
    /\ "abort" \in Mishaps
    /\ ~Ready(w)
    /\ job' = [job EXCEPT ![w] = Idle]
    /\ UNCHANGED <<table, file, runs, reports, gauge, poll>>

-----------------------------------------------------------------------------
(* The exporter.                                                           *)

RunsOf(exp) == {r \in DOMAIN runs : runs[r].exp = exp}

\* order_by start_time DESC, max_results 1; 0 when there is none.
LatestRun(exp) == IF RunsOf(exp) = {} THEN 0 ELSE Max(RunsOf(exp))

MetricsOf(r) == IF r = 0 THEN {} ELSE runs[r].metrics

NextQuery(q) == IF q = 3 THEN 1 ELSE q + 1

\* Looks up the latest run of the next experiment.  What that run has not
\* logged is not set.  After the last experiment the thread sleeps.
Query(q) ==
    /\ poll.query = q /\ poll.todo = {}
    /\ LET r == LatestRun(Experiments[q])
       IN  poll' = [query |-> NextQuery(q), run |-> r, todo |-> MetricsOf(r)]
    /\ UNCHANGED <<table, file, job, runs, reports, gauge>>

\* Mutant: the exception ends the thread.
QueryFails_Uncaught ==
    /\ "outage" \in Mishaps
    /\ poll.todo = {}
    /\ poll' = [poll EXCEPT !.query = 0]
    /\ UNCHANGED <<table, file, job, runs, reports, gauge>>

\* The rest of the round is skipped.
QueryFails ==
    /\ "outage" \in Mishaps
    /\ poll.todo = {}
    /\ poll' = [poll EXCEPT !.query = 1]
    /\ UNCHANGED <<table, file, job, runs, reports, gauge>>

\* PSI, KS and JS of each feature, the drift flag last.
SetGauge(g) ==
    /\ g \in poll.todo
    /\ g = "drift_detected" => poll.todo = {g}
    /\ gauge' = [gauge EXCEPT ![g] = poll.run]
    /\ poll' = [poll EXCEPT !.todo = @ \ {g}]
    /\ UNCHANGED <<table, file, job, runs, reports>>

\* A new exporter process starts with empty gauges.
RestartExporter ==
    /\ "restart" \in Mishaps
    /\ gauge' = [g \in Gauges |-> 0]
    /\ poll' = [query |-> 1, run |-> 0, todo |-> {}]
    /\ UNCHANGED <<table, file, job, runs, reports>>

ReportingNext ==
    \/ \E t \in Ends, n \in Batches : Insert(t, n)
    \/ Export
    \/ \E w \in Workers :
          \/ SplitWindows(w) \/ WriteReport(w) \/ StartDriftRun(w)
          \/ StartTraining(w, "forecaster") \/ StartTraining(w, "detector")
          \/ LogMetrics(w) \/ Abort(w)
    \/ \E q \in 1..3 : Query(q)
    \/ \E g \in Gauges : SetGauge(g)
    \/ QueryFails \/ RestartExporter

\* The daemon thread loops for ever; no outage hits every round at the same
\* query.
ExporterFairness ==
    /\ \A q \in 1..3 : SF_reportingVars(Query(q))
    /\ WF_reportingVars(\E g \in Gauges : SetGauge(g))

ReportingSpec == ReportingInit /\ [][ReportingNext]_reportingVars /\ ExporterFairness

-----------------------------------------------------------------------------
(* Properties.                                                             *)

\* Every drift job that goes on compares at least five current rows with at
\* least ten older ones, none counted twice; and one is skipped for lack of
\* rows only when the file has 20 or fewer (drift_job.py:77-102, 330-361).
SplitSound ==
    \A w \in Workers :
        LET j == job[w]
        IN  /\ j.at \in {"report", "start"} =>
                  /\ Cardinality(j.current) >= 5
                  /\ Cardinality(j.reference) >= 10
                  /\ \A c \in j.current, r \in j.reference : r < c /\ j.rows[r] <= j.rows[c]
            /\ j.at = "skipped" => Len(j.rows) <= 20

\* load_latest_drift_report
LatestReport == Max(reports)

\* Between two rounds the drift gauges are those of one run, flag and
\* features alike, and the dashboard's report is not of older data than
\* that run, however the jobs overlap or die (metrics_exporter.py:265-286,
\* streamlit_app.py:179-181).
DriftPictureWhole ==
    LET r == gauge["drift_detected"]
    IN  /\ poll.todo = {} => \A f \in Features : gauge[f] = r
        /\ r # 0 => reports # {} /\ LatestReport >= runs[r].data

\* A gauge never goes back to a run that started earlier; a restart of the
\* exporter empties it.
GaugesMoveForward ==
    [][\A g \in Gauges : gauge'[g] >= gauge[g] \/ gauge'[g] = 0]_reportingVars

\* Through outages, and once the exporter is no longer restarted, the gauges
\* keep coming to show the latest run of each experiment, unless that run
\* has not logged its metrics.
GaugesCatchUp ==
    <>[][~RestartExporter]_reportingVars =>
        []<>(\A q \in 1..3 :
                LET r == LatestRun(Experiments[q])
                IN  \A g \in MetricsOf(r) : gauge[g] = r)

=============================================================================
