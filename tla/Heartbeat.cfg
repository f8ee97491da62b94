SPECIFICATION Spec
CONSTANTS
    Conns = {c1, c2}
    Plain = {c2}
    Healthy = {}
    Timer = timer
    Data = {d1, d2, d3}
    None = none
    Interval = 1
    Timeout = 1
    SecondTicks = 1
    RoundTrip = 1
    CloseTime = 1
    Preempt = FALSE
    MaxTime = 6
    MaxCalls = 2
INVARIANTS FreeUnused HeartbeatServed SilentPeerDetected
