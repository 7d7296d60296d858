SPECIFICATION Spec
CONSTANTS
    Agents = {"roomy", "tight"}
    Conns = {"c1", "c2", "c3"}
    AgentOf <- RoomyAndTight
    Sessions = {"s", "t"}
    Recorded = {"s"}
    HeldMax <- Rooms
    Copies = {"i1", "i2", "i3", "i4"}
    MaxTurns = 1
INVARIANTS OneWriter ClaimHasHolder
PROPERTIES InUseIsKept
