CONSTANTS
    rel = rel  tempc = tempc
    op1 = op1  op2 = op2  op3 = op3  op4 = op4  op5 = op5
    x1 = x1  x2 = x2
    None = None
    Aggregates = {agg}
    Operations = {op1, op2, op3, op4, op5}
    Replacements = {rel}
    Constraints = {tempc}
    Basis <- MCBasis
    Bodies = {x1, x2}
    NoBody = NoBody
    MaxRevision = 3
    Services = {x1, x2}
    Verdicts = {d1}
    MaxFaults = 1
    Workspaces <- SmallWorkspaces
    Incoming = "n"
    Rationales = {"why", "how"}
    MaxHops = 2
    MaxDepth = 1
    MaxCandidates = 3
    MaxShards = 3
    MaxQuestions = 3
    MaxTargets = 2
    FileContents = {adopted, other}
    Adopted = adopted
    MaxSaves = 2
SYMMETRY ChangeSymmetry
SPECIFICATION OrderedSpec
INVARIANTS
    StoreValidates
    ReceiptsFormOneHistory
    ReviewedStateIsDecided
    ReplacementsAreDecidedFirst
    CompleteIsFinal
    QuestionsMatchTheAnalysis
    StatesFollowTheDecision
PROPERTIES
    ReviewsNeverReopen
    OpenSubjectsAreFrozen
    ImplementsReviewedHistory
    DeliveredIsExact
