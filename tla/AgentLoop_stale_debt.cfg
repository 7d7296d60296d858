SPECIFICATION Spec
CONSTANTS
    MaxSteps = 2
    MaxParallel = 1
    Tools <- OneTool
    Registered <- MCRegistered
    GoalTools <- MCGoalTools
    Contained <- MCContained
    Safe <- MCSafe
    Models = {"m1"}
    Features = {"approver"}
    HostPolicies = {"PerCall"}
    CanAbandon = TRUE
    ReusedIds = {}
    MaxTurns = 2
    MaxCalls = 1
INVARIANTS OwedByThisTurn
