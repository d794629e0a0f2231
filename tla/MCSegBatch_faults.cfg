CONSTANTS
    a = a  b = b  c = c  d = d
    Items = {a, b, c, d}
    Batches <- OneBatch
    Outcomes = {"done", "error", "silent"}
    RssLevels = {}
    Faults = {"crash", "hang", "ipc", "spawn"}
    MaxFaults = 2
    CachedWork <- SeqC
    WholeImages <- SeqAB
    StreamedImages <- SeqD
    JobChoices <- OneToThree
    Cancels = {}
    MayCancelAll = FALSE
SPECIFICATION Spec
INVARIANTS TypeOK AnsweredOnce NothingMislaid LineOK
PROPERTIES KeepsPromise
CHECK_DEADLOCK FALSE
