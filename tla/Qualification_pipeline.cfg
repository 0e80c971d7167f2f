SPECIFICATION Spec
CONSTANTS
    p1 = p1
    p2 = p2
    None = None
    Procs <- MCProcs
    Commits = {"c1", "c2"}
    Profiles = {"control", "checklist"}
    Control = "control"
    Visible = {"plan", "review", "repair"}
    Sealed = {"plan1", "review1", "review2"}
    RoleOf <- MCRoleOf
    Repeats = 2
    Dims = 5
    Grades <- MCGrades
    MinCase = 3
    MinGain = 1
    MaxDrop = 1
    RoundsBeyond <- MCRoundsBeyond
SYMMETRY MCSymmetry
CONSTRAINT Quiet
INVARIANTS TypeOK CollectedOnce ClaimIsEarned
PROPERTY SelectionIsEarned
