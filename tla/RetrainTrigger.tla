---------------------------- MODULE RetrainTrigger ---------------------------
(***************************************************************************)
(* observability/retrain_trigger.py: the decision whether a drift summary  *)
(* calls for retraining, and one cooldown sentinel file per retrain job.   *)
(***************************************************************************)
EXTENDS Integers, Sequences

CONSTANTS
    DetectorCooldown,     \* DETECTOR_COOLDOWN_MINUTES and
    ForecasterCooldown,   \* FORECASTER_COOLDOWN_MINUTES, in ticks.
    Absent,               \* Content of a sentinel: no file ...
    Blank                 \* ... or truncated and not written yet.

ASSUME TriggerAssumption ==
    /\ DetectorCooldown \in Nat /\ ForecasterCooldown \in Nat
    /\ Absent \notin Nat /\ Blank \notin Nat /\ Absent # Blank

VARIABLES
    now,        \* time.time()
    sentinel    \* [job |-> content of .retrain_cooldowns/<job>.last_triggered]

-----------------------------------------------------------------------------

Jobs == {"detector", "forecaster"}

CooldownOf(job) ==
    IF job = "detector" THEN DetectorCooldown ELSE ForecasterCooldown

\* What run_drift_job reports: "skipped" for too few rows, else any_drift.
Summaries == {"skipped", "stable", "drifted"}

Contents == Nat \cup {Absent, Blank}

\* Mutant: the detector's cooldown applied to both jobs.
InCooldown_Detector(job) ==
    sentinel[job] \in Nat /\ now - sentinel[job] < DetectorCooldown

InCooldown(job) ==
    sentinel[job] \in Nat /\ now - sentinel[job] < CooldownOf(job)

\* should_retrain reads both sentinels when there is drift, and raises when
\* one of them is blank.
Readable == \A job \in Jobs : sentinel[job] # Blank

ShouldRetrain(summary) ==
    IF summary = "drifted" THEN {job \in Jobs : ~ InCooldown(job)} ELSE {}

\* record_trigger: write_text truncates the file and then writes the time
\* taken before.  A file removed in between stays removed.
TruncateSentinel(job) == sentinel' = [sentinel EXCEPT ![job] = Blank]

WriteSentinel(job, stamp) ==
    sentinel' = [sentinel EXCEPT ![job] = IF @ = Absent THEN @ ELSE stamp]

\* clear_cooldown, or rm, by an operator.
ClearSentinel(job) == sentinel' = [sentinel EXCEPT ![job] = Absent]

=============================================================================
