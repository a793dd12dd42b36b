SPECIFICATION MCFairSpec
CONSTANTS
    e1 = e1
    e2 = e2
    n1 = n1
    timer = timer
    watcher = watcher
    None = None
    Broken = Broken
    Events = {e1, e2}
    Versions = {1}
    Passes = {timer, watcher}
    Failing = {}
    Flaky = {e1}
    Lossy = {e2}
    CHURN_LIMIT = 3
    MaxEdits = 1
    Capturable = {e1, e2}
    Notes = {n1}
    Ingesters = {timer}
    PrefixOf = {}
    MaxRuns = 4
    Base = "base"
    Extras = {"laptop"}
    Strangers = {}
    Mortal = {"laptop"}
    FaceOf <- MCFaceOf
    ClientFiles <- MCClientFiles
    GrantFiles <- MCGrantFiles
    Flags <- MCFlags
    Carried = {{"files"}}
    Conns = {1}
    MaxAmends = 2
    MaxCached = 1
INVARIANTS
    NothingLost
    RunawayContained
    EachItsOwn
PROPERTIES
    MintedAsSaid
    ComesToRest
    EditsRevoke
    CallsAreAnswered
    ComesCurrent
CHECK_DEADLOCK FALSE
