CONSTANTS
    Metrics = {1, 2, 3}
    NoMetric = NoMetric
    HigherIsBetter = TRUE
    Promoters = {p1}
    Candidates = {1, 2, 3}
    Cooldown = 1
    Absent = Absent
    Blank = Blank
    Faults = {"archive", "abort"}
    MaxVersions = 3
    MaxTime = 2
    MaxRestarts = 0
SPECIFICATION ServingSpec
PROPERTY ScorerCatchesUp
