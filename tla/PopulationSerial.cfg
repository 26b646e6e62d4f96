SPECIFICATION FairSpec
CONSTANTS
    a = a
    b = b
    Identities = {a, b}
    Profiled = {a, b}
    Reusable = {a}
    Requests = {r1}
    Layers = 2
    MaxLive = 1
    MaxPopulations = 3
    None = None
INVARIANTS CommittedComplete NoCollision SampledFromOne
PROPERTIES CommittedForEver RunEnds
