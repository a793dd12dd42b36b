SPECIFICATION IngestSpec
CONSTANTS
    Capturable = {e1, e2}
    Notes = {}
    Ingesters = {timer, watcher}
    PrefixOf = {}
    MaxRuns = 2
INVARIANTS
    NothingLost
CHECK_DEADLOCK FALSE
