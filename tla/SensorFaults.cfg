CONSTANTS
    DetectorCooldown = 1
    ForecasterCooldown = 2
    Absent = Absent
    Blank = Blank
    Faults = {"event_log", "drift_job", "crash", "operator"}
    MaxFaults = 2
    MaxReports = 2
    MaxTime = 3
SPECIFICATION FairSensorSpec
INVARIANTS SensorTypeOK RequestsAreFresh TriggersBuyRuns
PROPERTIES TriggersSpaced EveryReportProcessed
