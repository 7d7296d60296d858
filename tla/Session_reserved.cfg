SPECIFICATION Spec
SYMMETRY Interchangeable
CONSTANTS
    c1 = c1
    c2 = c2
    Away = Away
    Conn <- Two
    Bodies = {"legacy", "managed"}
    MaxTurns = 1
    MaxSteps = 1
    MaxSaid = 2
    MaxMoves = 3
CHECK_DEADLOCK FALSE
INVARIANT BusyEnds
