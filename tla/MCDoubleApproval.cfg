SPECIFICATION RemSpec
CONSTANTS
    Requests = {"r1", "r2"}
    Users = {"erin", "ada"}
    RoleOf <- TwoRoles
    ElevatedRoles = {}
    Proposals <- AllKinds
    Modes = {"manual"}
    AgentModes = {"manual"}
    MaxAnalyses = 1
    MaxFaults = 0
INVARIANTS
    RunOnce
CHECK_DEADLOCK FALSE
