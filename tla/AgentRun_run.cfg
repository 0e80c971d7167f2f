SPECIFICATION FairSpec
CONSTANTS
    Paths = {p, q, r}
    Scope = {p, q}
    Litter = {r}
    MaxFiles = 2
    MaxSteps = 2
    MaxDelegations = 3
    MaxCalls = 3
    MaxTokens = 1
    Usages <- MCUsages
    MaxRequests = 2
    None = None
    p = p
    q = q
    r = r
CONSTRAINT Affordable
INVARIANTS
    TypeOK
    ApprovalIsEarned
    PromotableWithinBudget
    Settled
PROPERTY RunEnds
CHECK_DEADLOCK FALSE
