CONSTANTS
    w1 = w1  w2 = w2  c1 = c1  c2 = c2
    p1 = p1  p2 = p2  o1 = o1  o2 = o2  v1 = v1  v2 = v2
    live = live  other = other  replay = replay  one = one  both = both  copy = copy
    None = None  Nothing = Nothing
    Handles = {p1, p2}
    Operations = {w1, w2}
    Versions = {c1, c2}
    Wanted <- OneEach
    MaxRevision = 2
    Names = {o1, o2}
    FileContents = {v1, v2}
    Times = {1, 2}
    MaxSaves = 1
    Contracts = {small, large}
    MaxCrashes = 1
    MaxAttempts = 3
    Batches = {one, both, copy}
    Members <- MembersOf
    Source <- SourceOf
    MaxDeaths = 2
SYMMETRY RecordsSymmetry
SPECIFICATION RecordsSpec
INVARIANTS ReadersSeeOneCommit AnswersStayTrue AskedOnceAnsweredAlike CommittedIsComplete
PROPERTIES ImplementsStore AuthorityHadItsEvidence ExactRetriesConverge
