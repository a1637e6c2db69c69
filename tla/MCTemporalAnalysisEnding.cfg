CONSTANTS
    Workspaces <- EndingLater
    Incoming = "n"
    Rationales = {"why"}
    MaxHops = 16
    MaxDepth = 8
    MaxCandidates = 64
    MaxShards = 32
    MaxQuestions = 64
    MaxTargets = 16
CHECK_DEADLOCK FALSE
SPECIFICATION Spec
INVARIANTS AcceptedChangesAreCrossed
