SPECIFICATION FairSpec
CONSTANTS
    Requests <- MCRequests
    Layers = 3
    Calibration = 0
    CorrectionPercent = 60
    GateInterval = 2
    WeightUpdate = "previous_layer"
    Deviations = 2
    MaxCrashes = 1
    None = None
INVARIANTS RowsExact PrefetchOwned SelectionBest WeightsTimely OutputSound
PROPERTIES PrefillEnds
