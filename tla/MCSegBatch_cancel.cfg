CONSTANTS
    a = a  b = b  c = c  d = d
    Items = {a, c, d}
    Batches <- OneBatch
    Outcomes = {"done", "error"}
    RssLevels = {"below", "band", "above"}
    Faults = {"crash"}
    MaxFaults = 1
    CachedWork <- SeqC
    WholeImages <- SeqA
    StreamedImages <- SeqD
    JobChoices <- OneTwo
    Cancels = {d}
    MayCancelAll = TRUE
SPECIFICATION Spec
INVARIANTS WorkIsAwaited
PROPERTIES KeepsPromise NoAdmissionWhilePaused
CHECK_DEADLOCK FALSE
