CONSTANTS
    put = put  get = get  NoCall = NoCall  Busy = Busy
    g1 = g1  g2 = g2  NoLen = NoLen  None = None
    h1 = h1  h2 = h2
SPECIFICATION FairSpec
PROPERTIES ExchangesEnd EveryConnectionEnds
CHECK_DEADLOCK FALSE
