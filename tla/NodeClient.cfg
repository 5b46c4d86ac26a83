\* One client connection that stays open.
SPECIFICATION FairSpec
CONSTANTS
    Clients = {1}
    Peers = {}
    MaxThreads = 5
    MaxArrivals = 2
    MaxSends = 2
    MaxCloses = 0
    MaxFailures = 0
    QueueSize = 2
    CounterMod = 8
INVARIANTS TypeOK OneHolder OneServer NoStrandedReceipt ConnectedFirst ActiveThreads WaitsForThreads
PROPERTIES ReceivedAll Returns
CHECK_DEADLOCK FALSE
