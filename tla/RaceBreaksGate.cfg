CONSTANTS
    Metrics = {1, 2}
    NoMetric = NoMetric
    HigherIsBetter = TRUE
    Promoters = {p1, p2}
    Candidates = {1, 2}
    Cooldown = 1
    Absent = Absent
    Blank = Blank
    Faults = {}
    MaxVersions = 3
    MaxTime = 2
SPECIFICATION Spec
INVARIANT EveryPromotionImproves
