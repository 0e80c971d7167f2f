SPECIFICATION Spec
CONSTANTS
    p1 = p1
    p2 = p2
    e1 = e1
    e2 = e2
    a1 = a1
    a2 = a2
    a3 = a3
    None = None
    Procs <- TwoProcs
    Evaluations <- TwoEvaluations
    Ids <- ThreeIds
SYMMETRY Symmetry
CONSTRAINT Bound
INVARIANTS
    TypeOK
    ArchivedIsKept
    ChainResolves
    EvidenceNamesActive
PROPERTIES
    ImplementsStack
CHECK_DEADLOCK FALSE
