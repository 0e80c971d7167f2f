SPECIFICATION FairSpec
CONSTANTS
    Commits <- MCCommits
    Descends <- MCDescends
    Touched <- MCTouched
    Allowed = {"code"}
    Protected = {"policy"}
    Development <- MCDevelopment
    Holdout <- MCHoldout
    Targets = {"edit"}
    MaxRepetitions = 1
    CampaignSeconds = 2
    ProcessSeconds = 2
    MaxProcesses = 6
    MaxCalls = 5
    MaxTokens = 5
    Gone = Gone
    None = None
CONSTRAINT Few
INVARIANTS TypeOK EligibleIsEarned
PROPERTY EvaluationSettles
CHECK_DEADLOCK FALSE
