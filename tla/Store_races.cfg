SPECIFICATION FairSpec
CONSTANTS
    Proc = {"agent", "command", "opener"}
    Does <- TwoAndOpener
    Session = {"s"}
    Name = {"n"}
    None = None
    ClaimlessSaves = TRUE
    MaxTurns = 1
    MaxCrashes = 2
INVARIANTS TypeOK OneHolder StrayHasCleaner
PROPERTIES HeldStays DeletedGoes
