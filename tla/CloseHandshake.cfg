SPECIFICATION FairPeerSpec
CONSTANTS
    Readers = {r1}
    Closers = {k1, k2}
    TimeoutLoop = timeoutLoop
    NoOne = noOne
    MaxFrames = 2
    MaxCalls = 3
    FrameKinds <- AllFrames
    Client = TRUE
    Takeover = FALSE
INVARIANTS
    OneReader WatchedContextIsReading ReaderClosedUnused CloseFrameIsLast
PROPERTIES HandshakeCloses CallsEnd
