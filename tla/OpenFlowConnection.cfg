CONSTANTS
    MaxCons = 2
    Dpids = {1}
    NoDpid = 0
    ArbiterDefault = "none"
    Claimed = {1}
    StatsTypes = {"flow", "aggregate"}
    Parts = 2
    AsyncKinds = {"packet_in", "garbage"}
    MaxExtra = 2
SPECIFICATION FairSpec
INVARIANT UpOnClean
INVARIANT LiveRegistered
INVARIANT StatsOfOneReply
PROPERTY HandshakeEnds
CHECK_DEADLOCK FALSE
