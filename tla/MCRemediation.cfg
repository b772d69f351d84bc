SPECIFICATION RemFairSpec
CONSTANTS
    Requests = {"r1", "r2"}
    Users = {"erin"}
    RoleOf <- Roles
    ElevatedRoles = {}
    Proposals <- TwoRisks
    Modes = {"dry-run", "manual", "auto"}
    AgentModes = {"dry-run", "manual"}
    MaxAnalyses = 2
    MaxFaults = 1
INVARIANTS
    RemTypeOK
    RunsAuthorised
    ExecutedIsTrue
PROPERTIES
    ExecutionSettles
CHECK_DEADLOCK FALSE
