CONSTANTS
    Parts = {"recipes"}
    Items = {a, b}
    Engines = {"lama", "sd"}
    Overlapping = {"lama"}
    UserSteps = {"cancel", "cancelAll", "release", "edit", "undo"}
    Faults = {"write", "paint", "decode", "spawn", "crash", "memory"}
    MaxStrokes = 2
    MaxTroubles = 2
    NInputs = 3
    Calls <- SomeCalls
    CliFaults = {"spawn", "image", "result", "write"}
    Readers = {canvas, job}
    MaxCopies = 5
    MaxBlobs = 3
    Procs = {p1, p2}
    Gpus <- TwoGpus
    Caching = {"CUDA", "CPU"}
    Families = {"seg", "lama", "sd"}
    Machines <- SomeMachines
    MaxKills = 1
    Threads = {t1, t2}
    Backends = {"sd", "lama"}
    IdleLimit = 2
    Depth = 3
    Images = {i1}
    Cutters = {"m1", "m2"}
    Styles = {0, 1}
    Plain = 0
    Presets <- SomePresets
    Slips = {}
    MaxActs = 3
SPECIFICATION ToolsSpec
INVARIANT UpToDateShowsKnobs
CHECK_DEADLOCK FALSE
