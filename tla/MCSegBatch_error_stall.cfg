CONSTANTS
    a = a  b = b  c = c  d = d
    Items = {a, b}
    Batches <- OneBatch
    Outcomes = {"done", "error"}
    RssLevels = {}
    Faults = {}
    MaxFaults = 0
    CachedWork <- None
    WholeImages <- SeqAB
    StreamedImages <- None
    JobChoices <- OneJob
    Cancels = {}
    MayCancelAll = FALSE
SPECIFICATION FairSpec
PROPERTIES EveryImageAnswered
CHECK_DEADLOCK FALSE
