CONSTANTS
    p1 = p1  p2 = p2  original = original  r1 = r1  r2 = r2  e1 = e1
    s1 = s1  s2 = s2  None = None
    Proposals = {p1, p2}
    Id <- MCId
    Original = original
    Result <- MCResult
    Edits = {e1}
    MaxAttempt = 1
    MaxFiles = 2
    MaxInterrupts = 1
    Syncs = {s1, s2}
    NumNotes = 2
    NoteContents <- SmallContents
    Kind <- SmallKind
    Records <- SmallRecords
    Saves <- Forward
    Sidecar <- SmallSidecar
    Initial <- FirstOnly
    Absent = "absent"
    Broken = "broken"
    NumUnits = 3
    Versions = {"v1", "v2"}
    Bearing = {1, 2}
    Caps = {3}
    Drafts = {TRUE, FALSE}
    MaxChanges = 1
SYMMETRY SyncSymmetry
CHECK_DEADLOCK FALSE
SPECIFICATION AnySpec
INVARIANTS StaleIndexIsReported UndisturbedSyncConverges
    FinishedRunsAreWhole
PROPERTIES EditsSurvive ItemsAreNeverLost NoStaleVectorEnters
    SettledUnitsAreNotExtractedAgain
