CONSTANTS
    huge = huge  wide = wide  tiny = tiny
    Images <- ThreeImages
    Cost <- Costs
    Budget = 4
    Depth = 3
    MaxRuns = 2
    MaxSteps = 1
    UserSteps = {"cancel", "cancelAll", "edit", "undo", "remove", "vanish"}
    MayVanish = {wide}
    Impatient = FALSE
    GivesUp = TRUE
    Canvases = {"left", "right"}
    Crops = 2
    Patches = 2
    Batch = 2
    Late = 1
    MaxBegun = 2
SPECIFICATION AppSpec
INVARIANTS WindowOK ControllerOK SentOnce
PROPERTIES LandsOnItsState CapsuleTells WindowServes
CHECK_DEADLOCK FALSE
