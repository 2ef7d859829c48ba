CONSTANTS
    AddrBits = 2
    HexBits = 1
    Conns = {c1, c2}
    L3Conns = {c2}
    NoConn = NoConn
    Ports <- MCPorts
    Arrivals <- MCArrivals
    Multicast <- MCMulticast
    Filtered <- MCFiltered
    AdminMods <- MCAdminMods
    MaxArrivals = 2
    MaxEvents = 2
SPECIFICATION Spec
INVARIANT FlowTableSound
INVARIANT NetworksAsWritten
INVARIANT PacketsReleasedOnce
PROPERTY RolesKept
CHECK_DEADLOCK FALSE
