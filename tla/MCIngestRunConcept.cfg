CONSTANTS
    None = None
    NumUnits = 2
    Versions = {"v1", "v2"}
    Bearing = {1, 2}
    Caps = {2, 5}
    Drafts = {TRUE}
    MaxChanges = 0
CHECK_DEADLOCK FALSE
SPECIFICATION Spec
INVARIANTS ConceptsAreProposed
