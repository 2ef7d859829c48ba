SPECIFICATION FairSpec
CONSTANTS
    hostA = hostA
    hostARev = hostARev
    hostB = hostB
    m1 = m1
    m2 = m2
    p1 = p1
    p2 = p2
    p3 = p3
    p4 = p4
    p5 = p5
    None = None
    Unrouted = Unrouted
    Addrs = {hostA, hostARev, hostB}
    Macs = {m1, m2}
    Ntohl <- Reverse
    Packets = {p1, p2, p3, p4, p5}
    Hop <- Hops
    ToRouter = {p1, p4}
    Icmp = {p1}
    LastHop = {p2}
    Announcements <- HostsAnswer
    MaxArps = 2
    SR_ARPCACHE_SZ = 2
    SR_ARPCACHE_TO = 1
    MaxSends = 2
    MaxTime = 4
INVARIANTS PacketsForwarded RequestsSound
PROPERTIES WaitersReleased
CHECK_DEADLOCK FALSE
