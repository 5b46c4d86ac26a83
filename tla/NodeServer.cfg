\* A listening server and one peer that may close; one pthread_create may fail.
SPECIFICATION Spec
CONSTANTS
    Clients = {}
    Peers = {1}
    MaxThreads = 5
    MaxArrivals = 2
    MaxSends = 1
    MaxCloses = 1
    MaxFailures = 1
    QueueSize = 2
    CounterMod = 8
INVARIANTS OneHolder OneServer
PROPERTIES ReceivedInOrder
CHECK_DEADLOCK FALSE
