SPECIFICATION MCSpec
CHECK_DEADLOCK FALSE
CONSTANTS
    r = r
    RunIds <- MCRunIds
    Names <- MCNames
    Absent = Absent
    Torn = Torn
    None = None
    MaxLives = 3
    MaxRuns = 3
    MaxFaults = 1
    engineMaxBatchDefault = 2
    BulkFrom = 2
    Flags <- MCFlags
    Timings <- MCTimings
    Baselines <- MCBaselines
INVARIANT GateCoversEveryEngine
