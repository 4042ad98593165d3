CONSTANTS
    Metrics = {1, 2, 3}
    NoMetric = NoMetric
    HigherIsBetter = TRUE
    Promoters = {p1}
    Candidates = {1, 2, 3}
    Cooldown = 2
    Absent = Absent
    Blank = Blank
    Faults = {"archive"}
    MaxVersions = 4
    MaxTime = 6
SPECIFICATION Spec
INVARIANTS TypeOK EveryPromotionImproves PromotionsSpaced ProductionNeverAbandoned LatestIsLastPromoted
PROPERTY ImplementsPolicy
