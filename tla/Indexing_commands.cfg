SPECIFICATION Spec
CONSTANTS
    p1 = p1
    p2 = p2
    c1 = c1
    c2 = c2
    r1 = r1
    r2 = r2
    d1 = d1
    Clean = Clean
    Never = Never
    Absent = Absent
    Corrupt = Corrupt
    Procs <- TwoProcs
    Commits <- TwoCommits
    Repos <- TwoRepos
    Main = r1
    Dirts <- TwoDirts
SYMMETRY Symmetry
CONSTRAINT Bound
INVARIANTS
    TypeOK
    ServedIsCurrent
    LockedApart
    RegistryKept
