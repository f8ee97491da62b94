SPECIFICATION FairSpec
CONSTANTS
    Writers = {w1, w2}
    TimeoutLoop = timeoutLoop
    NoOne = noOne
    MaxCalls = 2
    MaxFragments = 1
    Client = TRUE
    Calls <- MessageCalls
INVARIANTS FramesWhole
PROPERTIES ImplementsStream ControlReturns CloseUnblocks
