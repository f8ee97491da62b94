SPECIFICATION Spec
CONSTANTS
    Writers = {w1, w2}
    TimeoutLoop = timeoutLoop
    NoOne = noOne
    MaxCalls = 3
    MaxFragments = 1
    Client = TRUE
    Calls <- RepeatCalls
SYMMETRY Symmetry
INVARIANTS MessagesWhole
