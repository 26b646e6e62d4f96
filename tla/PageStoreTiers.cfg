SPECIFICATION FairSpec
CONSTANTS
    v = v
    w = w
    Keys = {k1, k2}
    Values = {v, w}
    Clients = {c1}
    None = None
    Size <- MCSize
    Selected <- MCSelected
    Header = 1
    CpuBudget = 2
    DiskBudget = 4
INVARIANTS PinProtects GuardsExact Accounting NoPageLost DurableKept
PROPERTIES ImplementsCatalog CallsEnd
