SPECIFICATION Spec
CONSTANTS
    Host = {"link", "cli"}
    LoadsFirst = {"cli"}
    StepBudget <- Budgets
    MaxWork = 2
    MaxFaults = 2
    Revising = 1
    LeaseRefuses = TRUE
INVARIANTS TypeOK WrittenAhead EndingsWhole AnswerIsSaved
PROPERTIES DiskOnlyGrows
