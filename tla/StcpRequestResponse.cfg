SPECIFICATION FairSpec
CONSTANTS
    SWS = 2
    MSS = 2
    WriteSizes = {1, 3}
    ActiveBytes = 3
    PassiveBytes = 3
    Junk = {0, 7}
    RequestResponse = TRUE
    Killable = {}
INVARIANTS ExchangesClean
PROPERTIES CloseTerminates WritesDelivered
CHECK_DEADLOCK FALSE
