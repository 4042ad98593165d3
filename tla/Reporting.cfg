CONSTANTS
    Workers = {w1, w2}
    Features = {order_rate}
    CurrentWindow = 0
    ReferenceWindow = 1
    Batches = {10, 11}
    MaxEnd = 2
    MaxRows = 21
    MaxRuns = 2
    Mishaps = {"abort", "outage", "restart"}
    MatchWindow = 1
SPECIFICATION ReportingSpec
INVARIANTS ReportingTypeOK SplitSound DriftPictureWhole
PROPERTIES GaugesCatchUp
CHECK_DEADLOCK FALSE
