CONSTANTS
    LinkTimeout = 1
    OfppMax = 65280
    ArpAware = 1
    ArpSilent = 2
    EntryMove = 1
    PingLim = 3
    Scenarios <- MCScenarios
    Links <- MCLinks
SPECIFICATION Spec
CHECK_DEADLOCK FALSE
INVARIANTS
    FloodingIsLoopFree
    PathsFollowDiscovery
    FlowsLoopFree
    AnsweringHostKept
PROPERTY
    LinksFound
