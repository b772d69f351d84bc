SPECIFICATION StoresFairSpec
CONSTANTS
    Parts = {"wal", "audit", "topology", "spans", "listing", "limits", "schema"}
    SegmentBytes = 2
    MaxBytes = 3
    MaxRecords = 3
    MaxShortWrites = 1
    MaxKills = 2
    MaxPowerCuts = 1
    MaxReclaimFails = 1
    Replicas = {"g1", "g2"}
    Records <- TwoStates
    Legacy <- TwoLegacy
    MaxRows = 4
    MaxFaults = 2
    PathIncidents = {"i1", "i2"}
    MaxAnalyses = 2
    MaxWriters = 1
    MaxTopoFaults = 1
    Spans = {"a", "b", "c"}
    ParentOf <- CallChain
    Root = "none"
    Deliveries = {"d1", "d2", "d3", "d4"}
    SpanOf <- DeliveredSpan
    MaxSpanFaults = 1
    AlertKinds = {"x", "y"}
    Matchers = {{"x"}}
    MaxAlerts = 3
    MaxListTime = 2
    MaxSilences = 1
    MaxListFaults = 1
    LimGateways = {"g1", "g2"}
    InFlight = {"q1", "q2"}
    LimitRules <- ThreeRules
    FallbackLimit = 1
    Premium = FALSE
    MaxLimRequests = 2
    MaxBuckets = 1
    MaxLimEdits = 1
    MaxLimFaults = 1
    Starters = {"old", "new1", "new2"}
    FilesOf <- TwoReleases
    MaxMigFaults = 1
INVARIANTS
    StoresTypeOK
    Durable
    
    BudgetHolds
    SchemaInStep
PROPERTIES
    TrailHolds
    ImplementsOffsetLog
    
    
CHECK_DEADLOCK FALSE
