SPECIFICATION Spec
CONSTANTS
    SWS = 2
    MSS = 2
    WriteSizes = {1, 2}
    ActiveBytes = 3
    PassiveBytes = 1
    Junk = {0, 7}
    RequestResponse = FALSE
    Killable = {"passive"}
INVARIANTS StreamIntact ClosingLosesNothing WindowRespected
CHECK_DEADLOCK FALSE
