SPECIFICATION Spec
CONSTANTS
    p1 = p1
    p2 = p2
    s1 = s1
    s2 = s2
    out = out
    Proc <- TwoProc
    Session <- TwoSessions
    Stream <- OneStream
    Turns <- Apart
    Collects <- ByOther
    None = None
    Cap = 1
    SessionQuota = 1
    StoreQuota = 1
    MaxCaptures = 2
    MaxCrashes = 1
INVARIANTS PublishedKept CaptureKept QuotaHolds
