CONSTANTS
    sink = sink  source = source  other = other
    k1 = k1  k2 = k2  None = None  NoLen = NoLen  put = put  get = get
    Calls <- MCCalls  Mutating <- MCMutating  Conns <- MCConns
    NCalls = 2  Wire = 1  MaxHeld = 1  Uploads <- MCUploads  Answers <- MCAnswers
    Streams <- MCStreams  Links = 2  MaxCalls = 1  Window = 1
    StreamUploads <- MCStreamUploads  StreamAnswers <- MCStreamAnswers
    Builds <- MCBuilds  MaxChanges = 2  NoLink = None
SYMMETRY Interchangeable
SPECIFICATION MCSpec
INVARIANTS BodiesAreWhole SpokenAlike
PROPERTY KeepsPromise
CHECK_DEADLOCK FALSE
