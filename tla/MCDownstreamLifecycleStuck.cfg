CONSTANTS
    c1 = c1  c2 = c2
    None = None
    Clients = {c1, c2}
    Documents <- Acceptances
    Works <- AdoptionOnly
    MaxCrashes = 1

CHECK_DEADLOCK FALSE
SPECIFICATION LiveSpec
PROPERTIES AcceptedReachesManagedReview
