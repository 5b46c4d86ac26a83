\* One message, and then the other side closes.
SPECIFICATION Spec
CONSTANTS
    Clients = {1}
    Peers = {}
    MaxThreads = 5
    MaxArrivals = 1
    MaxSends = 0
    MaxCloses = 1
    MaxFailures = 0
    QueueSize = 2
    CounterMod = 8
INVARIANT WaitsForThreads

CHECK_DEADLOCK FALSE
