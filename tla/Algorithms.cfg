SPECIFICATION AlgorithmsSpec
CONSTANTS
    MaxData = 6
    MaxTime = 2
    Headers <- SomeHeaders
    Closings <- SomeClosings
    PayloadSize = 11
    Bytes <- Bits
    Writes <- ShortWrites
    WindowSize = 3
    MaxInput = 8
    BufSize = 2
    MaxBytes = 4
    ProtocolLists <- Lists
    NoProtocol <- NoName
    ClientOffers <- Offers
    ServerExtensions <- Answers
    Conns = {c1, c2}
    BufNum = 2
    MaxBuffers = 6
SYMMETRY Symmetry
INVARIANTS
    FrameRoundTrip MaskingExact CompressExact BytesInOrder
    EndsAgree OnlyWhatWasOffered RingEven BuffersExclusive
PROPERTIES HeapExact ErrorsInOrder
CHECK_DEADLOCK FALSE
