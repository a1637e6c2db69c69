SPECIFICATION Spec
CONSTANTS
    p1 = p1
    p2 = p2
    original = original
    r1 = r1
    r2 = r2
    e1 = e1
    Proposals = {p1, p2}
    Id <- MCId
    Original = original
    Result <- MCResult
    Edits = {e1}
    MaxAttempt = 1
    MaxFiles = 3
    MaxInterrupts = 0
CHECK_DEADLOCK FALSE
INVARIANTS
    NewItemsCanBeResolved
