\* Two connections, one of them used by both threads; two messages of a caller,
\* each longer than a slice and than the socket's buffer.
CONSTANTS
    Cons = {c1, c2}
    Callers = {coop, reactor}
    Coop = coop
    Shared = {c1}
    NoCon = NoCon
    Sizes = {3}
    PIPE_BUF = 2
    SockBuf = 2
    MaxBytes = 6
SPECIFICATION Spec
INVARIANT InOrder
INVARIANT FlagCoversQueue
PROPERTY EventuallySent
CHECK_DEADLOCK FALSE
