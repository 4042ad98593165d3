CONSTANTS
    DetectorCooldown = 1
    ForecasterCooldown = 2
    Absent = Absent
    Blank = Blank
    Faults = {"crash"}
    MaxFaults = 1
    MaxReports = 1
    MaxTime = 2
SPECIFICATION SensorSpec
INVARIANT TriggeredWereLaunched
