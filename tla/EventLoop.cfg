SPECIFICATION FairSpec
CONSTANTS
    Conns = {c1, c2}
    Users = {c1}
    Admin = admin
    NoOne = noone
    HandlerActs = {"error", "write", "closeNow", "use"}
    MaxFrames = 2
    MaxActs = 1
INVARIANTS PayloadIntact ClosedIsQuiet MiddlewareStable
PROPERTIES CallsReturn
CHECK_DEADLOCK FALSE
