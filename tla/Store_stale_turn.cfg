SPECIFICATION Spec
CONSTANTS
    Proc = {"first", "second"}
    Does <- TwoRuns
    Session = {"s"}
    Name = {"n"}
    None = None
    ClaimlessSaves = FALSE
    MaxTurns = 2
    MaxCrashes = 0
PROPERTIES NothingOverwritten
