SPECIFICATION EitherSpec
CONSTANTS
    MaxSteps = 4
    Accum = 2
    CheckpointEvery = 2
    Rows = 3
    Order <- MCOrder
    Edited = {0, 1}
    Configs = {f1, f2}
    Stops <- MCStops
    MaxRuns = 2
    MaxEdits = 3
    None = None
    shard = shard
    archive = archive
    all = all
    models = models
    Items = {shard, archive}
    Length <- MCLength
    Limit <- MCLimit
    Sized = {shard}
    Selections = {all, models}
    Chosen <- MCChosen
    Processes = {p1, p2}
    Attempts = 2
    MaxStarts = 3
CHECK_DEADLOCK FALSE
INVARIANTS ResumeExact ReportTruthful PublishedOfficial
PROPERTIES DownloadEnds
