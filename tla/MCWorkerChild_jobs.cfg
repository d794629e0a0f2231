CONSTANTS
    j1 = j1  j2 = j2  j3 = j3
    Jobs = {j1, j2, j3}
    Weight <- Weights3
    KindsOf <- SegOrInpaint
    Cancels = {j1}
    PoolSize = 2
    TotalUnits = 3
    Errands = {"first", "second"}
SPECIFICATION ProcessSpec
INVARIANTS ProcessOK CancelReachesJob
PROPERTIES SegFinishedIsLast KeepsContract EverythingEnds
CHECK_DEADLOCK FALSE
