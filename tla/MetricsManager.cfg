CONSTANTS
    m1 = m1
    m2 = m2
    Actions <- TwoActions
    Executions <- TwoExecutions
    Resolution = 1
    Hour = 3
    Ring = 1
    LastBucket = 4
    MaxTimers = 4
    MaxNow = 5
SPECIFICATION Spec
SYMMETRY Symmetry
CHECK_DEADLOCK FALSE
INVARIANTS TypeOK HistogramIsExact SnapshotsAreFinal SnapshotsApart
