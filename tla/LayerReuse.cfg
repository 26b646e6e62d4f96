SPECIFICATION ReuseSpec
CONSTANTS
    Prompt = 3
    Steps = 0
    Canonical <- MCTable
    Tokens <- MCTokens
    Initial <- MCInitial
    Floor = 3
    MaxSlots = 4
    Shared = {}
    Readers = {r1}
    Tasks = {j1, j2}
    None = None
    Selected = {1}
    Active = {1, 2}
CHECK_DEADLOCK FALSE
INVARIANTS BaselineAdmitted
