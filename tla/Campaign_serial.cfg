SPECIFICATION FairSpec
CONSTANTS
    p1 = p1
    p2 = p2
    b1 = b1
    b2 = b2
    b3 = b3
    h1 = h1
    h2 = h2
    e1 = e1
    e2 = e2
    None = None
    Procs <- OneProc
    Builds <- ThreeBuilds
    Holdouts <- TwoHoldouts
    Evaluators <- OneEvaluator
    Kinds <- BothKinds
    MaxCandidates = 2
INVARIANTS
    WithinLimits
    HoldoutBoundOnce
    ClosedPassesAudit
PROPERTIES
    ImplementsLedger
    FinalizationResumes
