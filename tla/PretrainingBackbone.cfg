SPECIFICATION Spec
CONSTANTS
    MaxSteps = 2
    Accum = 1
    CheckpointEvery = 1
    Rows = 1
    Order <- MCOrder
    Edited = {}
    Configs = {f1}
    Stops <- MCStops
    MaxRuns = 2
    MaxEdits = 2
    None = None
CHECK_DEADLOCK FALSE
INVARIANTS SameBackbone
