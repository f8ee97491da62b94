SPECIFICATION FairSpec
CONSTANTS
    Types = {"text", "binary"}
    MaxFrames = 3
    MaxBytes = 2
    MaxWire = 2
    Limit = 1
    MsgType = "binary"
    MaxRead = 2
    MaxDeadlines = 1
INVARIANTS TypeOK MessagesInOrder LimitExact
PROPERTIES ImplementsByteStream CallsEnd
CHECK_DEADLOCK FALSE
