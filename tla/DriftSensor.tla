----------------------------- MODULE DriftSensor -----------------------------
(***************************************************************************)
(* orchestration/sensors.py: drift_retrain_sensor.  The drift_check job    *)
(* materializes drift reports; every five minutes Dagster evaluates the    *)
(* sensor, which decides on retraining, records the triggers in the        *)
(* sentinel files and hands run requests and a cursor back to Dagster.     *)
(* Dagster (external) then launches the requests whose run key it has not  *)
(* seen, and keeps the cursor for the next tick.  Ticks do not overlap.    *)
(***************************************************************************)
EXTENDS RetrainTrigger, FiniteSets

CONSTANTS
    Faults,       \* The faults that may happen, see FaultKinds.
    MaxFaults,    \* Bound on the kinds of fault that strike.
    MaxReports,   \* Bound on the drift reports materialized.
    MaxTime       \* Bound on the clock.

\* "event_log": the latest materialization cannot be read;
\* "drift_job": run_drift_job raises when the sensor calls it;
\* "crash":     the evaluation is lost: the process dies, or the evaluation
\*              was a preview in the Dagster UI;
\* "operator":  somebody clears a cooldown.
FaultKinds == {"event_log", "drift_job", "crash", "operator"}

ASSUME SensorAssumption ==
    /\ Faults \subseteq FaultKinds
    /\ {MaxFaults, MaxReports, MaxTime} \subseteq Nat

VARIABLES
    data,       \* What run_drift_job would report on the feature table now.
    reports,    \* The number of drift_report materializations.
    cursor,     \* The sensor's cursor; a report's number is its run id.
    tick,       \* Where the evaluation is, and its local variables.
    launched,   \* The run keys <<job, report>> Dagster has launched.
    last,       \* History: a job's last trigger since it was last cleared.
    faults      \* History: the faults that have struck, once or more often.

sensorVars ==
    <<now, sentinel, data, reports, cursor, tick, launched, last, faults>>

-----------------------------------------------------------------------------

\* The run id of a decision taken without a report, and the empty cursor
\* (the code's "" and "inline" are never equal to the id of a report).
Inline == 0

\* What has become of the run request of a trigger: Dagster has it not yet,
\* has launched it, has dropped it, or never got it.
Outcomes == {"asked", "launched", "dropped", "lost"}

Ticks == [pc       : {"idle", "decide", "truncate", "write", "return"},
          report   : Nat,
          requests : SUBSET Jobs,
          todo     : SUBSET Jobs,
          stamp    : Nat]

IdleTick == [pc |-> "idle", report |-> Inline, requests |-> {},
             todo |-> {}, stamp |-> 0]

SensorInit ==
    /\ now = 0
    /\ sentinel = [job \in Jobs |-> Absent]
    /\ data \in Summaries
    /\ reports = 0
    /\ cursor = Inline
    /\ tick = IdleTick
    /\ launched = {}
    /\ last = [job \in Jobs |-> Absent]
    /\ faults = {}

Fault(kind) ==
    /\ kind \in Faults
    /\ faults' = faults \cup {kind}
    /\ Cardinality(faults') <= MaxFaults

\* The history when the requests still asked for come to an end.
Settle(end) ==
    last' = [job \in Jobs |->
        IF last[job] # Absent /\ last[job].run = "asked"
        THEN [last[job] EXCEPT !.run = end[job]]
        ELSE last[job]]

-----------------------------------------------------------------------------
(* One evaluation of the sensor.                                           *)

Begin(report) ==
    tick' = [tick EXCEPT !.pc = "decide", !.report = report]

\* Mutant: the number of the report counted from the wrong end.
ReadReport_OffByOne ==
    /\ tick.pc = "idle"
    /\ reports \notin {0, cursor}
    /\ Begin(reports + 1)
    /\ UNCHANGED <<now, sentinel, data, reports, cursor, launched, last, faults>>

\* Reads the cursor and the latest materialization.  Without one, or with
\* the one already processed, the tick is skipped and nothing changes.
ReadReport ==
    /\ tick.pc = "idle"
    /\ reports \notin {0, cursor}
    /\ Begin(reports)
    /\ UNCHANGED <<now, sentinel, data, reports, cursor, launched, last, faults>>

ReadReportFails ==
    /\ Fault("event_log")
    /\ tick.pc = "idle"
    /\ Begin(Inline)
    /\ UNCHANGED <<now, sentinel, data, reports, cursor, launched, last>>

\* Mutant: the cursor stays when nothing is triggered.
Decide_KeepsCursor ==
    /\ tick.pc = "decide"
    /\ LET jobs == ShouldRetrain(data) IN
          IF jobs = {} \/ ~ Readable
          THEN tick' = IdleTick
          ELSE tick' = [tick EXCEPT
                  !.pc = "truncate",
                  !.requests = jobs,
                  !.todo = jobs]
    /\ UNCHANGED <<now, sentinel, data, reports, cursor, launched, last, faults>>

\* The drift job runs inline, because no materialization carries a summary,
\* and should_retrain decides.  No trigger: set the cursor and skip.  A
\* blank sentinel makes should_retrain raise, and the tick fails.
Decide ==
    /\ tick.pc = "decide"
    /\ LET jobs == ShouldRetrain(data) IN
          IF data = "drifted" /\ ~ Readable
          THEN tick' = IdleTick /\ UNCHANGED cursor
          ELSE IF jobs = {}
          THEN tick' = IdleTick /\ cursor' = tick.report
          ELSE /\ tick' = [tick EXCEPT
                     !.pc = "truncate",
                     !.requests = jobs,
                     !.todo = jobs]
               /\ UNCHANGED cursor
    /\ UNCHANGED <<now, sentinel, data, reports, launched, last, faults>>

\* The handler of the first failure tries again as "inline"; the handler of
\* the second skips the tick.
DriftJobFails ==
    /\ Fault("drift_job")
    /\ tick.pc = "decide"
    /\ tick' = IF tick.report = Inline THEN IdleTick
               ELSE [tick EXCEPT !.report = Inline]
    /\ UNCHANGED <<now, sentinel, data, reports, cursor, launched, last>>

\* The detector's trigger is recorded first.
CurrentJob == IF "detector" \in tick.todo THEN "detector" ELSE "forecaster"

Truncate ==
    /\ tick.pc = "truncate"
    /\ TruncateSentinel(CurrentJob)
    /\ last' = [last EXCEPT ![CurrentJob] = [at |-> now, run |-> "asked"]]
    /\ tick' = [tick EXCEPT !.pc = "write", !.stamp = now]
    /\ UNCHANGED <<now, data, reports, cursor, launched, faults>>

Write ==
    /\ tick.pc = "write"
    /\ WriteSentinel(CurrentJob, tick.stamp)
    /\ tick' = [tick EXCEPT
          !.pc = IF tick.todo = {CurrentJob} THEN "return" ELSE "truncate",
          !.todo = @ \ {CurrentJob}]
    /\ UNCHANGED <<now, data, reports, cursor, launched, last, faults>>

\* The run keys of the requests.
Requested == {<<job, tick.report>> : job \in tick.requests}

\* Dagster drops a request whose key it knows.
EndOf(job) ==
    IF <<job, tick.report>> \in Requested \ launched THEN "launched" ELSE "dropped"

\* Mutant: the cursor stays when runs are requested.
Launch_KeepsCursor ==
    /\ tick.pc = "return"
    /\ launched' = launched \cup Requested
    /\ Settle([job \in Jobs |-> EndOf(job)])
    /\ tick' = IdleTick
    /\ UNCHANGED <<now, sentinel, data, reports, cursor, faults>>

\* Mutant: the run key without the name of the job.
Launch_SharedKey ==
    /\ tick.pc = "return"
    /\ LET first == CHOOSE job \in tick.requests : TRUE
       IN  /\ launched' = launched \cup {<<first, tick.report>>}
           /\ Settle([job \in Jobs |-> IF job = first THEN EndOf(job) ELSE "dropped"])
    /\ cursor' = tick.report
    /\ tick' = IdleTick
    /\ UNCHANGED <<now, sentinel, data, reports, faults>>

\* The sensor returns.
Launch ==
    /\ tick.pc = "return"
    /\ launched' = launched \cup Requested
    /\ Settle([job \in Jobs |-> EndOf(job)])
    /\ cursor' = tick.report
    /\ tick' = IdleTick
    /\ UNCHANGED <<now, sentinel, data, reports, faults>>

-----------------------------------------------------------------------------
(* The environment.                                                        *)

\* The drift_check job materializes a report.  Its metadata hold no summary
\* the sensor could read, so what it found makes no difference.
Materialize ==
    /\ reports < MaxReports
    /\ reports' = reports + 1
    /\ UNCHANGED <<now, sentinel, data, cursor, tick, launched, last, faults>>

\* New windows arrive in the feature table.
NewData ==
    /\ data' \in Summaries
    /\ UNCHANGED <<now, sentinel, reports, cursor, tick, launched, last, faults>>

Crash ==
    /\ Fault("crash")
    /\ tick.pc # "idle"
    /\ tick' = IdleTick
    /\ Settle([job \in Jobs |-> "lost"])
    /\ UNCHANGED <<now, sentinel, data, reports, cursor, launched>>

ClearCooldown(job) ==
    /\ Fault("operator")
    /\ ClearSentinel(job)
    /\ last' = [last EXCEPT ![job] = Absent]
    /\ UNCHANGED <<now, data, reports, cursor, tick, launched>>

Pass ==
    /\ now < MaxTime
    /\ now' = now + 1
    /\ UNCHANGED <<sentinel, data, reports, cursor, tick, launched, last, faults>>

SensorNext ==
    \/ ReadReport \/ ReadReportFails
    \/ Decide \/ DriftJobFails
    \/ Truncate \/ Write \/ Launch
    \/ Materialize \/ NewData \/ Crash \/ Pass
    \/ \E job \in Jobs : ClearCooldown(job)

SensorSpec == SensorInit /\ [][SensorNext]_sensorVars

Fail == ReadReportFails \/ DriftJobFails \/ Crash

Evaluate == ReadReport \/ Decide \/ Truncate \/ Write \/ Launch

\* The Dagster daemon keeps evaluating the sensor.  An evaluation takes its
\* steps, unless it fails instead.
FairSensorSpec == SensorSpec /\ WF_sensorVars(Evaluate)

-----------------------------------------------------------------------------
(* Properties.                                                             *)

SensorTypeOK ==
    /\ now \in Nat
    /\ sentinel \in [Jobs -> Contents]
    /\ data \in Summaries
    /\ reports \in Nat
    /\ cursor \in 0..reports
    /\ tick \in Ticks
    /\ tick.report \in 0..reports
    /\ launched \subseteq Jobs \X (0..reports)
    /\ last \in [Jobs -> [at : Nat, run : Outcomes] \cup {Absent}]
    /\ faults \subseteq Faults

TriggerIsSpaced ==
    \A job \in Jobs :
        /\ Absent \notin {last[job], last'[job]}
        /\ last'[job] # last[job]
        /\ last'[job].run = "asked"
        => last'[job].at - last[job].at >= CooldownOf(job)

\* The cooldown "prevents a persistent drift signal from triggering infinite
\* retrains" (retrain_trigger.py:13): a job is triggered again only when its
\* cooldown has passed or an operator cleared it, whatever is lost on the way.
TriggersSpaced == [][TriggerIsSpaced]_sensorVars

\* A decision was taken without a report, so that "inline" has been a run id
\* and a cursor (sensors.py:90-96).
DecidedInline == faults \cap {"event_log", "drift_job"} # {}

\* Otherwise no run is requested under a key Dagster has launched before,
\* whatever evaluations were lost and cooldowns cleared: the cursor is moved
\* with every decision, and the key holds the report's run id
\* (sensors.py:77, 117, 127, 134).
RequestsAreFresh ==
    ~DecidedInline /\ tick.pc \in {"truncate", "write", "return"} =>
        Requested \cap launched = {}

\* "If triggered: fires detector_retrain_job and/or forecaster_retrain_job"
\* (sensors.py:7): between evaluations, every cooldown was spent on a run
\* that Dagster has launched.
TriggeredWereLaunched ==
    tick.pc = "idle" =>
        \A job \in Jobs : last[job] # Absent => last[job].run = "launched"

\* What the code keeps of that: a cooldown is wasted only on an evaluation
\* that was lost, or, once a decision was taken without a report, on a
\* request that repeats a run key and is dropped (sensors.py:112-135).
TriggersBuyRuns ==
    tick.pc = "idle" =>
        \A job \in Jobs : last[job] # Absent =>
            \/ last[job].run = "launched"
            \/ last[job].run = "lost" /\ "crash" \in faults
            \/ last[job].run = "dropped" /\ DecidedInline

\* Once the look-ups, drift jobs and processes stop failing, every drift
\* report is decided on, or superseded by one that is (sensors.py:53-80),
\* unless a crash has left a blank sentinel, at which every evaluation that
\* finds drift raises (retrain_trigger.py:65, 76-78), and nobody clears it.
\* A step that looks like a failure and is one of the code's own, as when
\* the decision raises, counts as the code's own.
EveryReportProcessed ==
    <>[][Fail => Evaluate]_sensorVars =>
        \A r \in 1..MaxReports :
            reports >= r ~> (cursor >= r \/ []~Readable)

=============================================================================
