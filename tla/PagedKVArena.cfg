SPECIFICATION ArenaSpec
CONSTANTS
    Prompt = 2
    Steps = 2
    Canonical <- MCTable
    Tokens <- MCTokens
    Initial <- MCInitial
    Floor = 4
    MaxSlots = 5
    Shared = {}
    Readers = {r1}
    Tasks = {j1, j2}
    None = None
SYMMETRY Symmetry
INVARIANTS RowsCurrent
PROPERTIES AppendOnly
