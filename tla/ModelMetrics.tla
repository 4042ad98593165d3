---------------------------- MODULE ModelMetrics -----------------------------
(* The primary metric of a model and the comparison of the validation gate. *)
EXTENDS Integers

CONSTANTS
    Metrics,         \* Values the primary metric of a run can take.
    NoMetric,        \* "No metric": the run logged none, or there is no run.
    HigherIsBetter   \* TRUE for the detector (f1), FALSE for the forecaster (mae).

ASSUME MetricAssumption ==
    /\ Metrics \subseteq Int
    /\ NoMetric \notin Int
    /\ HigherIsBetter \in BOOLEAN

LoggedMetrics == Metrics \cup {NoMetric}

\* The comparison of promote_if_better, strict in both directions.
Beats(new, incumbent) ==
    IF HigherIsBetter THEN new > incumbent ELSE new < incumbent

=============================================================================
