SPECIFICATION Spec
CONSTANTS
    MaxSteps = 1
    MaxParallel = 2
    Tools <- FewTools
    Registered <- MCRegistered
    GoalTools <- MCGoalTools
    Contained <- MCContained
    Safe <- MCSafe
    Models = {"m1", "m2"}
    Features = {"control", "admission", "records", "policy", "approver"}
    HostPolicies = {"PerCall", "Permitted"}
    CanAbandon = TRUE
    ReusedIds = {1}
    MaxTurns = 1
    MaxCalls = 3
INVARIANTS TypeOK CallsAnsweredInOrder BatchesGivenBack SelectionLands
PROPERTIES StopHolds SettledStays RecordNamesRequestedModel
