\* Two sends on one descriptor.
SPECIFICATION Spec
CONSTANTS
    Clients = {1}
    Peers = {}
    MaxThreads = 5
    MaxArrivals = 0
    MaxSends = 2
    MaxCloses = 0
    MaxFailures = 0
    QueueSize = 2
    CounterMod = 8
INVARIANT AllSent

CHECK_DEADLOCK FALSE
