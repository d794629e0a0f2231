CONSTANTS
    Items = {a}
    Engines = {"sd"}
    Overlapping = {}
    UserSteps = {"cancel"}
    Faults = {}
    MaxStrokes = 3
    MaxTroubles = 2
SPECIFICATION FairEraseSpec
PROPERTIES CancelFreesTheBrush
CHECK_DEADLOCK FALSE
