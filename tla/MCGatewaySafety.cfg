SPECIFICATION GatewaySpec
CONSTANTS
    Parts = {"keys", "credentials", "mfa", "metering", "sessions", "rbac", "billing", "purge"}
    Gateways = {a1, a2}
    KeyNames = {b1, b2}
    KeyTTL = 1
    RotationGrace = 1
    KeySetups <- ServerAndRum
    MaxKeyTime = 1
    SessGateways = {"g1", "g2"}
    Sids = {"s1", "s2"}
    Refreshers = {"q1"}
    MaxSessFaults = 1
    Logins = {a1, a2}
    Resets = {b1, b2}
    MaxPasswords = 2
    MaxCredFaults = 1
    Challenges = {a1, a2}
    RecoveryCodes = {b1, b2}
    MaxEnrols = 2
    CustomRoles = {"oncall"}
    Permissions <- ReadWrite
    PolicyDefs <- Policies
    Priorities = {1}
    Requests <- AllRequests
    Reloaders = {"q1", "q2"}
    MaxEdits = 2
    MaxRbacFaults = 1
    MeterGateways = {a1, a2}
    Exports = {b1, b2}
    PlanLimit <- TwoLimits
    Batch = 1
    MaxSent = 2
    MaxPeriods = 2
    MaxPlanChanges = 1
    MaxMeterFaults = 1
    Subs = {"s1", "s2"}
    SubPlan <- TwoPlans
    Deliveries = {"d1"}
    MaxEvents = 4
    MaxBillFaults = 1
    Writers = {"w1"}
    PurgeGateways = {"g1"}
    MaxPurges = 2
    MaxPurgeFaults = 1
SYMMETRY Interchangeable
INVARIANTS
    GatewayTypeOK
    KeysOpenWhatTheyMay
    
    SecondFactorHolds
    
    RowFollowsStripe
    CompleteMeansGone
CHECK_DEADLOCK FALSE
