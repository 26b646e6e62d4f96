SPECIFICATION Spec
CONSTANTS
    Ids = {q1, q2}
    Args = {x, y}
    Prompt = 2
    MaxTokens = 4
    Layers = 2
    Paged = TRUE
    None = None
SYMMETRY Symmetry
INVARIANTS HistoryExact SidesAgree
