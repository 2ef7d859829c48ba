SPECIFICATION Spec
CONSTANTS
    Addr <- Addresses
    Masks <- Prefixes
    BitAnd <- Ampersand
    Ifaces <- TwoIfaces
    IfIp <- FirstAndLast
    MaxRoutes = 3
    Unset = Unset
INVARIANTS LongestPrefix OwnAddressWins
CHECK_DEADLOCK FALSE
