SPECIFICATION PolledSpec
CONSTANTS
    MaxSteps = 2
    MaxParallel = 1
    Tools <- OneTool
    Registered <- MCRegistered
    GoalTools <- MCGoalTools
    Contained <- MCContained
    Safe <- MCSafe
    Models = {"m1"}
    Features = {"control", "approver", "policy"}
    HostPolicies = {"PerCall"}
    CanAbandon = TRUE
    ReusedIds = {}
    MaxTurns = 2
    MaxCalls = 1
INVARIANTS RequestsPaired Framed WithinBudget CompletedIsDone
PROPERTIES ControlEndsTurn TurnEnds
