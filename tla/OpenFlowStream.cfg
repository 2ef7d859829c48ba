CONSTANTS
    Messages <- MCMessages
    Obj <- MCObj
    ReaderOf <- MCReaderOf
    Second <- MCSecond
    Chunks = {5, 64, 2048}
    Taken = {101, 2048}
    FrameIn <- MCFrameIn
    Whole <- MCWhole
    Described <- MCDescribed
    Plain <- MCPlain
    Fresh <- MCFresh
SPECIFICATION PathSpec
CONSTRAINT FramesInOnePiece
INVARIANT NothingLeftBehind
INVARIANT BodiesParse
INVARIANT FramesIntact
PROPERTY ImplementsFifo
CHECK_DEADLOCK FALSE
