CONSTANTS
    huge = huge  wide = wide  tiny = tiny
    Images <- TwoImages
    Cost <- BigCosts
    Budget = 4
    Depth = 3
    MaxRuns = 1
    MaxSteps = 1
    UserSteps = {"cancel"}
    MayVanish = {}
    Impatient = FALSE
    GivesUp = FALSE
SPECIFICATION FairSpec
PROPERTIES QueueAlwaysServed
CHECK_DEADLOCK FALSE
