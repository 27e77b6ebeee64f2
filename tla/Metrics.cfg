SPECIFICATION MetricSpec
CONSTANTS
    MaxConns = 3
    MaxFaults = 1
    MaxMetrics = 3
    MaxEntries = 2
    StatsSeePending = TRUE
INVARIANTS MetricTypeOK Conserved CapRespected
 
CHECK_DEADLOCK FALSE
