SPECIFICATION OperationsFairSpec
CONSTANTS
    Parts = {"paging", "synthetics", "errors", "llm", "channels", "cluster"}
    Alerts <- OneAlert
    Services = {"api"}
    Upstream <- ApiOnly
    Workers = {1}
    PartitionOf <- OnePartition
    Sweepers = {1}
    Window = 1
    Quiet = 2
    MaxLag = 1
    MaxCrashes = 0
    MaxPublishFails = 1
    MaxDbFails = 0
    MaxAnalysisFails = 0
    Notifiers = {1, 2}
    Channels <- PagerAfterSlack
    MaxChannelFails = 1
    MaxNotifierCrashes = 1
    MaxDisconnects = 1
    ProbeUrls = {"u1", "u2", "u3"}
    Refused = {"u3"}
    CheckDefs <- FourChecks
    Responses <- ThreeAnswers
    MaxSynEdits = 2
    MaxSynShifts = 2
    MaxSynFaults = 1
    Scanners = {"g1", "g2"}
    ScanWindow = 1
    MaxErrTime = 2
    MaxTriage = 2
    MaxErrFaults = 1
    MaxErrRestarts = 1
    NumLinks = 2
    ChatNames = {"c1", "c2"}
    BaseCooldown = 1
    MaxShift = 1
    MaxOutages = 2
    MaxCancels = 1
    ChReplicas = {"n1", "n2"}
    EditSlots = {"e1", "e2"}
    CipherKeys = {"k1", "k2"}
    ChTenants = {"ta", "tb"}
    ChDrafts <- SlackAndEmail
    ChPatches <- ThreePatches
    MaxChannels = 1
    MaxEdits = 2
    MaxRekeys = 1
    Templates = {"t1", "t2", "t3"}
    Runbooks = {"b1", "b2"}
    Requests <- FourRequests
    ModeSettings = {"plan", "dryrun"}
    ReplicaCounts = {1, 2}
    MaxRollouts = 2
    MaxApiFaults = 1
INVARIANTS
    OperationsTypeOK
    IncidentsArePaged
PROPERTIES
    
    TriageHolds
    ProvidersAreUsed
    
    
CHECK_DEADLOCK FALSE
