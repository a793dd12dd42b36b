SPECIFICATION MCFairSpec
CONSTANTS
    Messages <- MCMessages  MaxCalls = 1  MaxLines = 2  MaxSwaps = 1
    Peers <- MCPeers  Users <- MCUsers  Own = "self"  RedialAfter = 1  MaxFlips = 1
    Names <- MCNames  Local <- MCLocal  Serves <- MCServes  Topologies <- MCTopologies
    Kernels <- MCKernels  Mounted = {"peer"}  Vars = {"{p}"}  Unnamed = "none"
    Base <- MCBase  Qualified <- MCQualified  Inputs <- MCInputs  Calls <- MCCalls
INVARIANTS ToldIsBinding ListedRoutes AnsweredWhereClaimed
PROPERTIES LinesAnswered FoundWhereItIs
CHECK_DEADLOCK FALSE
