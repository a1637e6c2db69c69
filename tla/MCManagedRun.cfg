CONSTANTS
    s1 = s1  s2 = s2  r1 = r1  r2 = r2  op1 = op1  op2 = op2  new = new  old = old
    first = first  second = second
    None = None  Zero = Zero
    Services = {s1, s2}
    Requests = {r1, r2}
    Publications <- TwoFiles
    Calls <- RivalCalls
    Variants = {1, 2}
    Mishaps <- AFailureOrAChange
    Operations = {first, second}
    StartCalls <- OneRequest
    Times <- Clocks
    Refusals = {"CLASSIFICATION", "DEPENDENCY"}
    MaxFailures = 2
SYMMETRY RunSymmetry
SPECIFICATION RunSpec
INVARIANTS ActiveIsComplete ReceiptsKeepTheirEvidence AnswersStayTrue OneOutcomePerRun
PROPERTIES TamperedIsNeverActivated ImplementsAuthority
