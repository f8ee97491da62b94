SPECIFICATION Spec
CONSTANTS
    Readers = {r1}
    Closers = {k1}
    TimeoutLoop = timeoutLoop
    NoOne = noOne
    MaxFrames = 3
    MaxCalls = 3
    FrameKinds <- PlainFrames
    Client = TRUE
    Takeover = TRUE
INVARIANTS DictOutlivesRead
