CONSTANTS
    Keys = {k1, k2}
    Quantities = {1, 2}
    MaxTime = 2
    Faults = {"generator", "publish"}
    MaxFaults = 2
    InitialStock = 3
    Restocks = {2}
    SurgeEvery = 2
    StockoutEvery = 1
    SurgeExtra = 1
    StockoutTarget = 0
    MaxSent = 2
    MaxUnacked = 1
SPECIFICATION GeneratorSpec
INVARIANT EveryOrderMoved
CHECK_DEADLOCK FALSE
