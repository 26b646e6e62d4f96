SPECIFICATION Spec
CONSTANTS
    Tokens <- MCTokens
    Initial <- MCInitial
    Shared = {1}
    Floor = 3
    MaxSlots = 4
    Readers = {r1}
    Tasks = {j1, j2}
    None = None
SYMMETRY Symmetry
INVARIANTS CountsExact ReadersUndisturbed WritersApart SlotsApart MappedIntact
PROPERTIES RetiredFrozen
