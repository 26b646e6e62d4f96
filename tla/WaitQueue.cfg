SPECIFICATION FairSpec
CONSTANTS
    Keys = {a, b, c}
    Consumers = {c1, c2, c3}
    Generations = {0}
    MaxJobs = 2
    MaxConsumers = 2
    MaxIssued = 3
    None = None
INVARIANTS DemandExact WorkExact NoOvertaking WaitKept
PROPERTIES QueuedServed
