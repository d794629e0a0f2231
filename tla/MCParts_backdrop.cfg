CONSTANTS
    Parts = {"backdrop"}
    Shapes <- MaskShapes
    Radii = {0}
    Threads = {t1, t2, t3, t4}
    Weights = {1, 2, 5}
    TotalUnits = 4
    Depth = 3
    Knobs = {"soft", "hard"}
    Selections = {"none", "stroke"}
    MaxTweaks = 3
    MayFail = TRUE
    Pictures = {"x", "y"}
    Tiles = 2
    MaxDispatches = 3
    MaxMoves = 2
    Hasty = FALSE
    Models = {"one", "two", "bad"}
    Bundles = {"two"}
    Twins = {"one"}
    Broken = {"bad"}
    Side = 8
    Overlap = 3
    Scale = 2
    MaxSize = 26
    MaxChanges = 4
    Overtaking = FALSE
    Backgrounds = {"sea", "sky"}
    LookSteps = {"pick", "undo"}
    MaxLooks = 3
    Photos = {p1, p2}
    BrushTroubles = {"memory", "encode"}
    MaxTurns = 3
    Readings = {1, 2}
    Fine = 36
    MaxFree = 9
    Careless = {}
    MaxEdits = 5
SPECIFICATION PartsSpec
PROPERTIES RightPictureInTheEnd
CHECK_DEADLOCK FALSE
