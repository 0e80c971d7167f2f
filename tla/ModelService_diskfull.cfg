SPECIFICATION Spec
CONSTANTS
    p1 = p1
    p2 = p2
    fast = fast
    reason = reason
    s1 = s1
    s2 = s2
    s3 = s3
    Foreign = Foreign
    None = None
    Procs <- TwoProcs
    Profiles <- TwoProfiles
    Pids <- TwoPids
    ByHand = {}
    WriteFaults = TRUE
    StuckKills = FALSE
INVARIANT
    OneManagedServer
