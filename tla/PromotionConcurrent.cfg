CONSTANTS
    Metrics = {1, 2}
    NoMetric = NoMetric
    HigherIsBetter = FALSE
    Promoters = {p1, p2}
    Candidates = {1, 2, NoMetric}
    Cooldown = 1
    Absent = Absent
    Blank = Blank
    Faults = {"read", "archive", "abort"}
    MaxVersions = 3
    MaxTime = 1
SPECIFICATION Spec
SYMMETRY PromoterSymmetry
INVARIANT VersionsNotShared
PROPERTY LifecycleIsOneWay
