SPECIFICATION Spec
CONSTANTS
    Writers = {w1, w2, w3}
    TimeoutLoop = timeoutLoop
    NoOne = noOne
    MaxCalls = 3
    MaxFragments = 0
    Client = TRUE
    Calls <- CloseCalls
SYMMETRY Symmetry
INVARIANTS TypeOK OneFrameWriter CloseFrameLast WatchedContextIsInUse
PROPERTIES SilentAfterCloseSent
