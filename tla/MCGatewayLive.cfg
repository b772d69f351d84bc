SPECIFICATION GatewayFairSpec
CONSTANTS
    Parts = {"sessions", "rbac"}
    Gateways = {}
    KeyNames = {}
    KeyTTL = 1
    RotationGrace = 1
    KeySetups <- ServerAndRum
    MaxKeyTime = 0
    SessGateways = {"g1", "g2"}
    Sids = {"s1", "s2"}
    Refreshers = {"q1"}
    MaxSessFaults = 1
    Logins = {}
    Resets = {}
    MaxPasswords = 0
    MaxCredFaults = 0
    Challenges = {}
    RecoveryCodes = {}
    MaxEnrols = 0
    CustomRoles = {"oncall"}
    Permissions <- ReadWrite
    PolicyDefs <- Policies
    Priorities = {1}
    Requests <- AllRequests
    Reloaders = {"q1", "q2"}
    MaxEdits = 2
    MaxRbacFaults = 1
    MeterGateways = {}
    Exports = {}
    PlanLimit <- TwoLimits
    Batch = 1
    MaxSent = 0
    MaxPeriods = 1
    MaxPlanChanges = 0
    MaxMeterFaults = 0
    Subs = {}
    SubPlan <- NoPolicies
    Deliveries = {}
    MaxEvents = 0
    MaxBillFaults = 0
    Writers = {}
    PurgeGateways = {}
    MaxPurges = 0
    MaxPurgeFaults = 0
PROPERTIES
    RevokedRefusedEverywhere
    RowsDecide
CHECK_DEADLOCK FALSE
