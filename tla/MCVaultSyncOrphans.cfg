CONSTANTS
    s1 = s1  s2 = s2
    Absent = "absent"  Broken = "broken"
    Syncs = {s1, s2}
    NumNotes = 2
    Contents <- SmallContents
    Kind <- SmallKind
    Records <- SmallRecords
    Saves <- Forward
    Sidecar <- SmallSidecar
    Initial <- FirstOnly
CHECK_DEADLOCK FALSE
SPECIFICATION Spec
INVARIANTS NoOrphanVectors
