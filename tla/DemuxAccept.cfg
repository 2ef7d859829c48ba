SPECIFICATION FairSpec
CONSTANTS
    c1 = c1
    c2 = c2
    c3 = c3
    NoConn = NoConn
    Conns = {c1, c2, c3}
    Addr <- SharedAddr
    MaxLen = 3
    MaxSockets = 2
    UIntMax = 15
    Vanishing = {c1}
    Quiet = {}
    MayClose = TRUE
INVARIANTS QueueConsistent
PROPERTIES ClientsServed 
CHECK_DEADLOCK FALSE
