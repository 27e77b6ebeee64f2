SPECIFICATION MetricFairSpec
CONSTANTS
    MaxConns = 2
    MaxFaults = 0
    MaxMetrics = 3
    MaxEntries = 1
    StatsSeePending = FALSE
PROPERTY PushEnds
CHECK_DEADLOCK FALSE
