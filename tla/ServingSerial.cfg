CONSTANTS
    Metrics = {1, 2, 3, 4}
    NoMetric = NoMetric
    HigherIsBetter = FALSE
    Promoters = {p1}
    Candidates = {1, 2, 3, 4}
    Cooldown = 1
    Absent = Absent
    Blank = Blank
    Faults = {}
    MaxVersions = 4
    MaxTime = 3
    MaxRestarts = 2
SPECIFICATION ServingSpec
INVARIANTS ServingTypeOK OnlyPromotedServed
PROPERTIES ScorerOnlyImproves ImplementsServing
