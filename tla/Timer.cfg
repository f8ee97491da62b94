SPECIFICATION FairSpec
CONSTANTS
    Clients = {c1, c2}
    NoClient = noClient
    Capacity = 1
    MaxData = 3
    MaxTime = 3
    MaxDelay = 2
    Forever = forever
INVARIANTS DataExclusive
PROPERTIES ImplementsService ArmedIsServed
