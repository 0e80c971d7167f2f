SPECIFICATION Spec
CONSTANTS
    p1 = p1
    p2 = p2
    e1 = e1
    e2 = e2
    a1 = a1
    a2 = a2
    a3 = a3
    None = None
    Procs <- OneProc
    Evaluations <- TwoEvaluations
    Ids <- TwoIds
INVARIANT ReportedIsArchived
CHECK_DEADLOCK FALSE
