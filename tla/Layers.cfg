CONSTANTS
    None = None  Unset = Unset  Mine = Mine  Half = Half  Broken = Broken  Nothing = Nothing
    Pids = {"p1", "p2"}  LastNumber = 1  Bodies <- MCBodies  Keys <- MCKeys  Posts <- MCPosts
    Others <- MCOthers  Commands <- MCCommands  Bound = 4  Owned = {"notes"}
    ConfigNames = {"claude.md"}  Dotted = {".ssh"}  Devices = {"con"}  Outside = "outside"
    Requests = {r1, r2}  MaxConnections = 1  Shapes <- MCShapes
    Tokens = {t1, t2}  Clients <- MCClients  PrincipalOf <- MCPrincipalOf
    ClientFiles <- MCClientFiles  Operators = {o1, o2}  MaxEdits = 1  MaxCommands = 2
    MaxText <- MCMaxText  MaxHistory = 1  Clips <- MCClips  Scripts <- MCScripts
    Interval = 1  MaxAwake = 5  MaxAsleep = 1  MaxSet = 1
SYMMETRY Interchangeable
SPECIFICATION MCSpec
INVARIANTS SavedIsWhole SpeaksForItsClient VerdictIsDue TerminalHolds
CHECK_DEADLOCK FALSE
