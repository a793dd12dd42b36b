\* A lifetime of one tick, a memory of one link and one challenge, one restart.
SPECIFICATION MCSpec
CONSTANTS
    Tasks = {t1, t2}
    Threads = {t1, t2}
    Sources = {a, b}
    Targets = {"form", "page", "other"}
    Rules = {"submit", "site"}
    Governs <- MCGoverns
    Prefix <- MCPrefix
    BUDGET <- MCBudget
    WINDOW <- MCWindow
    MaxSources = 1
    SECOND = 2
    Stall = 1
    MaxTime = 3
    Links = {booking, contact}
    Contact = {contact}
    TTL = 1
    MAX = 1
    MaxClock = 2
    MaxLives = 2
    Posts = {"one"}
    Submissions <- MCSubmissions
    Addresses = {"ada", "spam", "Spam"}
    Folded <- MCFolded
    Declared = {"message"}
    Tokens = {"key"}
    Issued <- MCIssued
    Edited <- MCEdited
    MaxAppends = 2
    MaxCuts = 1
    Callers = {t1, t2}
    Credentials = {"phone", "laptop"}
    Counting = {"phone"}
    CHALLENGE_TTL = 2
    ENROLL_WINDOW = 2
    MaxChallenges = 1
    LastSecond = 2
    MaxIssued = 2
    MaxWindows = 2
    Conns = {t1, t2}
    MaxConnections = 2
    MaxRequests = 2
    Requests <- MCRequests
    Answers <- MCAnswers
    MaxBody = 1
    StoreBound = 3
    MaxFaults = 1
    Wire = 2
    NoLen = NoLen
    None = None
    Clients = {t1, t2}
    Urls <- MCUrls
    Fields = {"title", "text"}
    Values = {1, 2}
    Bodies <- MCBodies
    Patches <- MCPatches
    Headers <- MCHeaders
    Methods = {"PUT", "PATCH", "DELETE"}
    Null = None
    NoDoc = None
    Never = None
    TOMBSTONE_TTL = 2
    MaxTick = 3
    Doors <- MCDoors
    People = {"alice", "token"}
    Bearers = {"token"}
    Nil = None
    Capacity = 2
    MaxVersion = 1
    MaxMoment = 2
SYMMETRY Symmetry
INVARIANTS
    RecordedOnceInDate
    BudgetKept
    NothingPartial
    EnquiriesKept
    AsIfAsked
PROPERTIES
    ConfirmedInPerson
    WritesOnWhatWas
    RepeatsTold
CHECK_DEADLOCK FALSE
