SPECIFICATION Spec
CONSTANTS
    Agents = {"crowded"}
    Conns = {"c1", "c2"}
    AgentOf <- Crowded
    Sessions = {"s", "t"}
    Recorded = {"s", "t"}
    HeldMax <- CrowdedRoom
    Copies = {"i1", "i2", "i3", "i4"}
    MaxTurns = 1
INVARIANTS WatchedIsHeld
