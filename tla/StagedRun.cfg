SPECIFICATION Spec
CONSTANTS
    Processes = {p1, p2}
    Versions = {official, other}
    Lengths = {1, 2}
    MaxEdits = 3
    None = None
SYMMETRY Symmetry
CHECK_DEADLOCK FALSE
INVARIANTS CompletedTruthful FinalRecord
PROPERTIES RecordOwned
