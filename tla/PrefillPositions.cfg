SPECIFICATION Spec
CONSTANTS
    Requests <- MCRequests
    Layers = 2
    Calibration = 0
    CorrectionPercent = 60
    GateInterval = 2
    WeightUpdate = "previous_layer"
    Deviations = 1
    MaxCrashes = 0
    None = None
INVARIANTS PositionRecovered
