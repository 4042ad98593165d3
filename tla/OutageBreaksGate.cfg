CONSTANTS
    Metrics = {1, 2}
    NoMetric = NoMetric
    HigherIsBetter = TRUE
    Promoters = {p1}
    Candidates = {1, 2}
    Cooldown = 1
    Absent = Absent
    Blank = Blank
    Faults = {"read"}
    MaxVersions = 3
    MaxTime = 2
SPECIFICATION Spec
INVARIANT EveryPromotionImproves
