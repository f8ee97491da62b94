SPECIFICATION Spec
CONSTANTS
    Types = {"text", "binary"}
    MaxFrames = 3
    MaxBytes = 2
    MaxWire = 2
    Limit = 1
    MsgType = "binary"
    MaxRead = 2
    MaxDeadlines = 1
INVARIANT MessagesWhole
CHECK_DEADLOCK FALSE
