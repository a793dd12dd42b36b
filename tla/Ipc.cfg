CONSTANTS
    p1 = p1  p2 = p2  p3 = p3
    Nothing = Nothing  Plain = Plain  Nobody = Nobody
    Servers <- MCServers
    a = a  b = b  old = old  stranger = stranger  None = None
    Peers <- MCPeers  Admitted <- MCAdmitted  Legacy <- MCLegacy
    MaxConnections = 1  Reads = 2
    sink = sink  source = source  k1 = k1  k2 = k2
SPECIFICATION MCFairSpec
INVARIANTS ListenerIsReachable SlotsAreTheServed
PROPERTIES EveryoneMovesOn
CHECK_DEADLOCK FALSE
