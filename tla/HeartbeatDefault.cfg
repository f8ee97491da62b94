SPECIFICATION Spec
CONSTANTS
    Conns = {c1}
    Plain = {}
    Healthy = {c1}
    Timer = timer
    Data = {d1}
    None = none
    Interval = 6
    Timeout = 2
    SecondTicks = 2
    RoundTrip = 1
    CloseTime = 1
    Preempt = TRUE
    MaxTime = 14
    MaxCalls = 0
PROPERTIES HealthyStaysOpen
