CONSTANTS
    Metrics = {1, 2}
    NoMetric = NoMetric
    HigherIsBetter = FALSE
    Promoters = {p1}
    Candidates = {1, 2}
    Cooldown = 1
    Absent = Absent
    Blank = Blank
    Faults = {"read", "abort"}
    MaxVersions = 3
    MaxTime = 1
    MaxRestarts = 1
SPECIFICATION ServingSpec
INVARIANTS RecordNotAheadOfModel AtMostOneProduction
PROPERTY ScorerCatchesUp
