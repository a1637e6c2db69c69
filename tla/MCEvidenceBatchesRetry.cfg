CONSTANTS
    w1 = w1  b1 = b1  b2 = b2
    live = live  replay = replay
    None = None
    Writers = {w1}
    Batches = {b1, b2}
    Members <- ReplayMembers
    Source <- TwoSources
    MaxCrashes = 1
CHECK_DEADLOCK FALSE
SPECIFICATION LiveSpec
PROPERTIES RetriesComplete
