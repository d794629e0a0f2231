CONSTANTS
    a = a  b = b  c = c  d = d
    Items = {a, b, c}
    Batches <- OneBatch
    Outcomes = {"done", "silent"}
    RssLevels = {}
    Faults = {"crash", "hang"}
    MaxFaults = 2
    CachedWork <- SeqC
    WholeImages <- SeqAB
    StreamedImages <- None
    JobChoices <- OneTwo
    Cancels = {b}
    MayCancelAll = TRUE
SPECIFICATION FairSpec
PROPERTIES CancelAllEnds EveryImageAnswered
CHECK_DEADLOCK FALSE
