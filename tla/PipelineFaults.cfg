CONSTANTS
    Keys = {k1, k2}
    Quantities = {1}
    MaxTime = 5
    Faults = {"generator", "skew", "delivery", "crash", "cancel"}
    MaxFaults = 2
    InitialStock = 3
    Restocks = {2}
    SurgeEvery = 2
    StockoutEvery = 1
    SurgeExtra = 3
    StockoutTarget = 0
    MaxSent = 1
    MaxUnacked = 0
    WindowSize = 1
    Lateness = 1
    SurgeOrders = 2
    ReorderPoint = 1
    NoRow = NoRow
SPECIFICATION LaggingSpec
INVARIANTS PipelineTypeOK OrdersAccounted LateMeansLate
    SentWereStored StoredAlertsSent SurgeDetected
PROPERTIES AlertsMoveForward ImplementsCounts OverdueStored
CHECK_DEADLOCK FALSE
