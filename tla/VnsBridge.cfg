CONSTANTS
    IDSIZE = 4
    NameSize = 4
    TextSize = 6
    TemplateSize = 5
    HwSize = 6
    Clients = {k1}
    Announced <- MCAnnounced
    Ports = {1, 4}
    Strays <- MCStrays
    Chunks = {18}
    MaxFrames = 2
SPECIFICATION Spec
INVARIANT SessionsSound
INVARIANT PacketsCross
PROPERTY ImplementsFifo
PROPERTY LoginEnds
CHECK_DEADLOCK FALSE
