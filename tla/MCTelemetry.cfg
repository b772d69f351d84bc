SPECIFICATION TelemetryFairSpec
CONSTANTS
    Parts = {"logs", "alerts", "slo", "rules", "anomaly"}
    Queued = {"q1", "q2"}
    Direct = {"d1"}
    BatchLen = 2
    QueueCap = 2
    LogWorkers = {"w1"}
    FlushSize = 2
    MaxTries <- TwoTryAgain
    MaxLogFaults = 1
    MaxRecords = 2
    MaxAlertFaults = 1
    MaxStops = 1
    Scenes <- FourScenes
    Budgets = {0, 1}
    AlertCooldown = 2
    MaxSloEdits = 2
    MaxScenes = 1
    MaxSloFaults = 2
    RuleTenants = {"a", "b"}
    Owner = "a"
    RuleCooldown = 2
    MaxRuleEdits = 3
    MaxShifts = 2
    MaxRuleFaults = 2
    Latencies = {100, 200}
    Multiplier10 = 16
    MinSamples = 4
    ConfigTTL = 2
    MaxAnomalyEdits = 2
    MaxDrifts = 2
    MaxAnomalyFaults = 1
INVARIANTS
    TelemetryTypeOK
    
    OffStopsWarnings
PROPERTIES
    
    BurnIsToldOnce
    
CHECK_DEADLOCK FALSE
